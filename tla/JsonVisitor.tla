------------------------------ MODULE JsonVisitor ------------------------------
(***************************************************************************)
(* FlatbuffersStreamingJsonVisitor                                         *)
(* (src/flatbuffers_streaming_json_visitor.h): while picojson parses a     *)
(* document off a stream, the visitor writes the parts of it at root_path  *)
(* (or error_path) as JSON again, and hands each, when it is complete, to  *)
(* the flatbuffers parser and to a callback.                               *)
(*                                                                         *)
(* The document is not given: one step is one event of the parser, and the *)
(* environment chooses the next, among those the grammar allows, or an     *)
(* error (a byte that does not belong there, or the end of the stream).    *)
(* Texts are sequences of tokens.  What is written for a scalar or a key   *)
(* need not be what was read: numbers are cut to an int, and strings and   *)
(* keys are written with no escapes, so that the characters of one can be  *)
(* any tokens for the next reader.                                         *)
(***************************************************************************)
EXTENDS Integers, SequencesExt

CONSTANTS
  Keys,        \* the keys of objects
  Scalars,     \* null, true, false, numbers and strings, each of them a token
  Strings,     \* the strings among them
  WrittenAs,   \* the texts (sequences of tokens) each key and scalar may be written as
  Calls,       \* a root_path and an error_path (sequences of keys and "*") and the
               \* root table of the schema
  TypeTables,  \* for each table, val: the table of the field "val" if it has "id"
               \* and "val" ("none" if not, "scalar" if val is no table), and
               \* fields: the tables of its fields that are tables or vectors of them
  MaxEvents,   \* bound: events of one document
  MaxNesting,  \* bound: nested objects and arrays
  MaxDocuments \* bound: calls of parse_stream()

\* The tokens that are no values; "//" begins a comment, "bad" is what the lexer of
\* the flatbuffers parser refuses.
Punctuation == {"{", "}", "[", "]", ",", ":", "//", "bad"}

\* A key or a scalar is no punctuation.
ASSUME KeysAssumption == Keys \cap Punctuation = {} /\ Scalars \cap Punctuation = {}

\* A key or a scalar is written as tokens: as itself (null, a number that is an int, a
\* string of letters), or as others; "other" is any value that was not read.
ASSUME WrittenAssumption ==
  /\ Strings \subseteq Scalars
  /\ \A x \in Keys \cup Scalars :
       WrittenAs[x] \subseteq Seq(Keys \cup Scalars \cup Punctuation \cup {"other"})

\* What a call gives, by the keys and the tables there are.
ASSUME CallsAssumption ==
  \A c \in Calls :
    /\ c.root_path \in Seq(Keys \cup {"*"}) /\ c.error_path \in Seq(Keys \cup {"*"})
    /\ c.table \in DOMAIN TypeTables

ASSUME TypeTablesAssumption ==
  \A t \in DOMAIN TypeTables :
    /\ TypeTables[t].val \in DOMAIN TypeTables \cup {"none", "scalar"}
    /\ \A key \in DOMAIN TypeTables[t].fields : TypeTables[t].fields[key] \in DOMAIN TypeTables

VARIABLES
  v,         \* the members of the visitor
  call,      \* the parameters of the call
  frames,    \* picojson's calls in progress, innermost first
  mode,      \* "idle", "value": a value comes next, "after": one is complete, or
             \* a container was opened, "failing": the calls return false
  returned,  \* what the last parse_stream() returned
  budget,    \* events and documents left
  raw,       \* the tokens of the item's value so far, of all of the document for
             \* root_path {} (history)
  plain,     \* has it been of a form the visitor supports? (history)
  item,      \* what was handed to the parser last (history)
  seen       \* "error_key": a key of the error path was read, "refused": an item
             \* was refused, in this document (history)

history == <<raw, plain, item, seen>>
visitor == <<v, call, frames, mode, returned, budget, raw, plain, item, seen>>

root_path == call.root_path
error_path == call.error_path

-----------------------------------------------------------------------------
\* A slip: a path that is too short is compared as far as it goes.
is_a_subpath_of_prefix(current, root) ==
  \A i \in 1..Len(root) : i <= Len(current) => root[i] \in {"*", current[i]}

\* is_a_subpath(), equality_or_wildcard(): the path begins with the root path.
is_a_subpath(current, root) ==
  /\ Len(current) >= Len(root)
  /\ \A i \in 1..Len(root) : root[i] \in {"*", current[i]}

\* The initial values of the members.
NewVisitor ==
  [is_parse_error |-> FALSE, is_error_path |-> FALSE, object_depth |-> 0, array_idx |-> 0,
   current_path |-> <<>>, ss |-> <<>>, emit_json |-> FALSE, needs_close_array |-> FALSE,
   needs_close_object |-> FALSE, table |-> "none"]

\* A slip: the flags for the closing brackets are left as the last call left them.
clear_keeps_flags(s) ==
  [NewVisitor EXCEPT !.table = call.table, !.needs_close_array = s.needs_close_array,
                     !.needs_close_object = s.needs_close_object]

\* clear(): every member is reset.
clear(s) == [NewVisitor EXCEPT !.table = call.table]

\* ss << text, when output is on.
Emit(s, text) == IF s.emit_json THEN [s EXCEPT !.ss = @ \o text] ELSE s

\* The table check_for_keyed_vector_table() leaves; a field that is not known, or
\* not a table, leaves the enclosing one.
TableAfter(t, key) ==
  IF TypeTables[t].val = "scalar" THEN t
  ELSE IF TypeTables[t].val # "none" THEN TypeTables[t].val
  ELSE IF key \in DOMAIN TypeTables[t].fields THEN TypeTables[t].fields[key] ELSE t

\* What check_for_keyed_vector_table() returns: is this key an element of a vector
\* of {id, val} tables, written as an object?
IsKeyed(t) == TypeTables[t].val \notin {"none", "scalar"}

-----------------------------------------------------------------------------
\* The state of a reader of a text after one more token.
ReadToken(r, t) ==
  LET top == IF r.open = <<>> THEN "none" ELSE Head(r.open)
      next == [r EXCEPT !.want = IF r.open = <<>> THEN "end" ELSE "separator"]
      pop == [open |-> Tail(r.open), want |-> IF Len(r.open) = 1 THEN "end" ELSE "separator"]
      open(want) == [open |-> <<t>> \o r.open, want |-> want]
  IN CASE r.want = "value" /\ t = "{" -> open("key")
       [] r.want = "value" /\ t = "[" -> open("value")
       [] r.want = "value" /\ t \notin Punctuation -> next
       [] r.want = "key" /\ t \notin Punctuation -> [r EXCEPT !.want = "colon"]
       [] r.want = "colon" /\ t = ":" -> [r EXCEPT !.want = "value"]
       [] r.want = "separator" /\ t = "," /\ top = "{" -> [r EXCEPT !.want = "key"]
       [] r.want = "separator" /\ t = "," /\ top = "[" -> [r EXCEPT !.want = "value"]
       [] r.want \in {"key", "separator"} /\ t = "}" /\ top = "{" -> pop
       [] r.want \in {"value", "separator"} /\ t = "]" /\ top = "[" -> pop
       [] r.want = "end" /\ t = "//" -> [r EXCEPT !.want = "comment"]
       [] r.want = "comment" -> r
       [] OTHER -> [r EXCEPT !.want = "error"]

\* The state after a text.
ReaderAfter(text) ==
  LET read[i \in 0..Len(text)] ==
        IF i = 0 THEN [open |-> <<>>, want |-> "value"] ELSE ReadToken(read[i - 1], text[i])
  IN read[Len(text)]

\* A slip: a text that just ends is taken.
Parses_unclosed(text) ==
  text # <<>> /\ text[1] = "{" /\ ReaderAfter(text).want \in {"separator", "end", "comment"}

\* Does the flatbuffers parser (strict_json off) take the text for an object?
\* (What the schema says of its fields is left out.)
Parses(text) ==
  text # <<>> /\ text[1] = "{" /\ ReaderAfter(text).want \in {"end", "comment"}

\* process_item(): the text goes to the parser, and what it makes of it to the
\* callback or the errback, which says accepts; ss is empty again.
ItemOf(s, accepts, expected, whole, keyed) ==
  [text |-> s.ss, error |-> s.is_error_path, ok |-> Parses(s.ss) /\ accepts, plain |-> plain,
   expected |-> expected, whole |-> whole, keyed |-> keyed]
NoItem ==
  [text |-> <<>>, error |-> FALSE, ok |-> TRUE, plain |-> TRUE, expected |-> <<>>,
   whole |-> TRUE, keyed |-> FALSE]

-----------------------------------------------------------------------------
VisitorInit ==
  /\ call \in Calls /\ v = NewVisitor
  /\ frames = <<>> /\ mode = "idle" /\ returned = "none"
  /\ budget = [events |-> 0, documents |-> MaxDocuments]
  /\ raw = <<>> /\ plain = TRUE /\ item = NoItem /\ seen = {}

Top == frames[1]
Containers == {i \in DOMAIN frames : frames[i].of # "item"}
Innermost(kind) == frames # <<>> /\ Top.of = kind

\* An event costs one of the budget.
Event(tokens) ==
  /\ budget.events > 0
  /\ budget' = [budget EXCEPT !.events = @ - 1]
  /\ raw' = IF root_path = <<>> \/ v.emit_json THEN raw \o tokens ELSE <<>>
  /\ UNCHANGED <<call, returned>>

\* parse_stream() begins: the visitor is cleared.
parse_stream ==
  /\ mode = "idle" /\ budget.documents > 0
  /\ v' = clear(v)
  /\ mode' = "value" /\ returned' = "none"
  /\ raw' = <<>> /\ plain' = TRUE /\ item' = NoItem /\ seen' = {}
  /\ budget' = [events |-> MaxEvents, documents |-> budget.documents - 1]
  /\ UNCHANGED <<call, frames>>

\* A scalar is read, and one of the texts for it written.
WriteScalar(x) ==
  /\ mode = "value" /\ Event(<<x>>)
  /\ \E text \in WrittenAs[x] : v' = Emit(v, text) /\ plain' = (plain /\ text = <<x>>)
  /\ UNCHANGED <<frames, item, seen>>

\* set_null(), set_bool(), set_number(), parse_string().
Scalar(x) == WriteScalar(x) /\ mode' = "after"

\* A string that ends before its quote, or has a byte no string may have: what there
\* is of it is written too.
CutString(x) == WriteScalar(x) /\ mode' = "failing"

\* parse_array_start().  (An array inside an array makes array_idx wrong.)
parse_array_start ==
  /\ mode = "value" /\ Cardinality(Containers) < MaxNesting /\ Event(<<"[">>)
  /\ v' = Emit([v EXCEPT !.array_idx = 0], <<"[">>)
  /\ frames' = <<[of |-> "array", n |-> 0]>> \o frames
  /\ mode' = "after"
  /\ plain' = (plain /\ frames # <<>> /\ \A i \in DOMAIN frames : frames[i].of # "array")
  /\ UNCHANGED <<item, seen>>

\* parse_array_item().
parse_array_item ==
  /\ mode = "after" /\ Innermost("array")
  /\ Event(IF Top.n > 0 THEN <<",">> ELSE <<>>)
  /\ v' = [Emit(v, IF v.array_idx > 0 THEN <<",">> ELSE <<>>) EXCEPT !.array_idx = @ + 1]
  /\ frames' = [frames EXCEPT ![1].n = @ + 1]
  /\ mode' = "value"
  /\ UNCHANGED <<plain, item, seen>>

\* parse_array_stop().
parse_array_stop ==
  /\ mode = "after" /\ Innermost("array") /\ Event(<<"]">>)
  /\ v' = Emit([v EXCEPT !.array_idx = -1], <<"]">>)
  /\ frames' = Tail(frames) /\ mode' = "after"
  /\ UNCHANGED <<plain, item, seen>>

\* parse_object_start(): writes nothing.  (Of the items at a root path, only the
\* value of a keyed one may be an object, and that has none inside.)
parse_object_start ==
  /\ mode = "value" /\ Cardinality(Containers) < MaxNesting /\ Event(<<"{">>)
  /\ v' = [v EXCEPT !.object_depth = @ + 1]
  /\ frames' = <<[of |-> "object", n |-> 0]>> \o frames
  /\ mode' = "after"
  /\ plain' = (plain /\ (root_path # <<>> /\ v.emit_json => Innermost("item") /\ Top.item /\ Top.keyed))
  /\ UNCHANGED <<item, seen>>

\* The text before a value: the text of a key, or what makes an element of it.
KeyText(keyed, text) ==
  IF keyed
  THEN (IF ~v.emit_json THEN <<>> ELSE IF ~v.needs_close_array THEN <<"[">> ELSE <<",">>)
       \o (<<"{", "id", ":">> \o text \o <<",", "val", ":">>)
  ELSE (IF v.needs_close_object THEN <<",">> ELSE <<"{">>) \o (text \o <<":">>)

\* The visitor when it has read a key, at a path that is or is not an error's.
AtKey(path, error, emit, key, text) ==
  Emit([v EXCEPT !.table = TableAfter(@, key), !.current_path = path,
                 !.is_error_path = error, !.emit_json = emit,
                 !.needs_close_array = FALSE, !.needs_close_object = FALSE],
       KeyText(IsKeyed(v.table), text))

\* parse_object_item(), until the value is parsed: its locals are the frame.
parse_object_item(key) ==
  LET keyed == IsKeyed(v.table)
      path == Append(v.current_path, key)
      error == is_a_subpath(path, error_path)
      emit == error \/ is_a_subpath(path, root_path)
  IN /\ mode = "after" /\ Innermost("object")
     /\ Event((IF Top.n > 0 THEN <<",">> ELSE <<>>) \o <<key, ":">>)
     /\ seen' = IF error_path # <<>> /\ key = Last(error_path) THEN seen \cup {"error_key"} ELSE seen
     /\ \E text \in WrittenAs[key] :
          /\ v' = AtKey(path, error, emit, key, text)
          /\ plain' = (text = <<key>> /\ IF root_path # <<>> /\ emit /\ ~v.emit_json
                                        THEN keyed \/ ~v.needs_close_object
                                        ELSE plain /\ ~keyed)
     /\ frames' = <<[of |-> "item", key |-> key, keyed |-> keyed, table |-> v.table,
                     needs_close_array |-> v.needs_close_array \/ (emit /\ keyed /\ v.emit_json),
                     needs_close_object |-> v.needs_close_object \/ emit,
                     item |-> emit /\ ~v.emit_json]>>
                  \o [frames EXCEPT ![1].n = @ + 1]
     /\ mode' = "value"
     /\ UNCHANGED item

\* The text an item of the root path should be handed over as.
Expected(f) ==
  IF f.keyed THEN <<"{", "id", ":", f.key, ",", "val", ":">> \o raw \o <<"}">>
  ELSE <<"{", f.key, ":">> \o raw \o <<"}">>

\* A keyed item is spoken of when its value is an object.
ExpectedHere ==
  IF Top.item /\ (Top.keyed => raw # <<>> /\ Last(raw) = "}") THEN Expected(Top) ELSE <<>>

\* A slip: a later item that is taken makes up for one that was refused.
ItemResult_last(s, ok) == [s EXCEPT !.is_parse_error = ~ok]

\* An item that is refused makes parse_stream() return false.
ItemResult(s, ok) == IF ok THEN s ELSE [s EXCEPT !.is_parse_error = TRUE]

\* The visitor when the value is parsed: its locals are back, the key is popped.
AfterValue ==
  [v EXCEPT !.needs_close_array = Top.needs_close_array,
            !.needs_close_object = Top.needs_close_object,
            !.table = Top.table, !.current_path = SubSeq(@, 1, Len(@) - 1)]
ClosedItem == IF Top.keyed THEN AfterValue ELSE Emit(AfterValue, <<"}">>)

\* parse_object_item(), when the value is parsed, well or not.
ItemEnds(whole) ==
  /\ frames' = Tail(frames)
  /\ IF is_a_subpath(AfterValue.current_path, root_path) \/ ~v.emit_json
     THEN v' = AfterValue /\ UNCHANGED <<item, seen, raw>>
     ELSE \E accepts \in BOOLEAN :
            /\ item' = ItemOf(ClosedItem, accepts, ExpectedHere, whole, Top.keyed)
            /\ v' = [ItemResult(ClosedItem, item'.ok) EXCEPT !.ss = <<>>, !.emit_json = FALSE]
            /\ seen' = IF item'.ok THEN seen ELSE seen \cup {"refused"}
            /\ raw' = <<>>
  /\ UNCHANGED <<call, returned, budget, plain>>

EndItem == mode = "after" /\ Innermost("item") /\ ItemEnds(TRUE) /\ mode' = "after"

\* The visitor with the brackets of an object closed.  (An empty object is closed and
\* was not opened.)
ClosedObject ==
  LET s == [v EXCEPT !.object_depth = @ - 1]
  IN IF ~s.emit_json THEN s
     ELSE IF s.needs_close_array
     THEN [Emit(s, <<"]">>) EXCEPT !.needs_close_array = FALSE]
     ELSE IF s.needs_close_object
     THEN [Emit(s, IF root_path = <<>> THEN <<"}">> ELSE <<"}", "}">>)
             EXCEPT !.needs_close_object = FALSE]
     ELSE Emit(s, <<"}">>)

\* parse_object_stop().
parse_object_stop ==
  /\ mode = "after" /\ Innermost("object") /\ Event(<<"}">>)
  /\ IF v.emit_json /\ ClosedObject.object_depth = 0
     THEN /\ v' = [ClosedObject EXCEPT !.ss = <<>>]
          /\ \E accepts \in BOOLEAN :
               item' = ItemOf(ClosedObject, accepts, IF root_path = <<>> THEN raw' ELSE <<>>, TRUE, FALSE)
     ELSE v' = ClosedObject /\ UNCHANGED item
  /\ UNCHANGED seen
  /\ frames' = Tail(frames) /\ mode' = "after"
  /\ plain' = (plain /\ (v.emit_json => Top.n > 0))

\* An unexpected byte, or the end of the stream.
SyntaxError ==
  /\ mode = "value" \/ (mode = "after" /\ frames # <<>> /\ Top.of # "item")
  /\ mode' = "failing"
  /\ UNCHANGED <<v, call, frames, returned, budget, history>>

\* The calls return false one after the other; parse_object_item() goes on as ever.
Unwind ==
  /\ mode = "failing" /\ frames # <<>> /\ UNCHANGED mode
  /\ \/ Top.of = "item" /\ ItemEnds(FALSE)
     \/ /\ Top.of # "item" /\ frames' = Tail(frames)
        /\ UNCHANGED <<v, call, returned, budget, history>>

\* parse_stream() returns: no error of picojson's, and no item refused.
Return ==
  /\ mode \in {"after", "failing"} /\ frames = <<>>
  /\ returned' = IF mode = "after" /\ ~v.is_parse_error THEN "true" ELSE "false"
  /\ mode' = "idle"
  /\ UNCHANGED <<v, call, frames, budget, history>>

VisitorNext ==
  \/ parse_stream \/ (\E x \in Scalars : Scalar(x)) \/ (\E x \in Strings : CutString(x))
  \/ parse_array_start \/ parse_array_item \/ parse_array_stop
  \/ parse_object_start \/ (\E key \in Keys : parse_object_item(key)) \/ EndItem
  \/ parse_object_stop \/ SyntaxError \/ Unwind \/ Return

VisitorSpec == VisitorInit /\ [][VisitorNext]_visitor

-----------------------------------------------------------------------------
\* What is handed to the parser is the item of the document, written again as JSON
\* that the schema of its table takes: for root_path {}, the document; else each
\* item as {key: value}, an element of a vector of {id, val} tables as {id, val}.
\* (Of the forms the visitor supports: no array inside an array, no empty object,
\* no object inside an item but the value of a keyed one, one item per object
\* unless keyed; for root_path {}, no vector of {id, val} tables; and every scalar
\* and key is written as itself: no fraction, no number that is not an int, no
\* string or key with a character that has to be escaped.)
ItemsFaithful ==
  item.whole /\ item.plain /\ item.expected # <<>> => item.text = item.expected

\* An item that was cut short by the end of the stream is never accepted, for a
\* root_path {} or a keyed item: its braces are not closed.  (The brace of any other
\* item is written in any case.  Of the same forms: an object within the value of a
\* keyed item is closed twice, and a string with quotes in it can end the item and
\* make a comment of the rest, so the text of one cut after it can be complete.)
CutItemsRefused ==
  item.ok /\ ~item.whole /\ item.plain => root_path # <<>> /\ ~item.keyed

\* Only a document in which the key of the error path has been read is given to
\* the errback, as long as there is an error path that ends in a key.
ErrorsHaveErrorKey ==
  error_path # <<>> /\ Last(error_path) # "*" /\ item.error => "error_key" \in seen

\* parse_stream() returns false when an item at a root path was refused, by the
\* parser or by the callback.  (The result of the document itself is dropped.)
RefusalReported ==
  returned = "true" /\ root_path # <<>> => "refused" \notin seen
=============================================================================
