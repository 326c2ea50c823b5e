------------------------------- MODULE Datums --------------------------------
(***************************************************************************)
(* write, write-shared and read of icecreme (icecreme/builtins.c): what is *)
(* written to a port and read back, comments between data included.        *)
(*                                                                         *)
(* A text is a sequence of lexemes, tuples that begin with their shape.    *)
(* The characters of a string literal and the name of a character are kept *)
(* apart from what they stand for; the digits of a number are not.         *)
(***************************************************************************)
EXTENDS DatumGraphs, SequencesExt, FiniteSetsExt

CONSTANTS Written,       \* what a program writes: memory and datum
          Comment,     \* sequences of lexemes between data
          LLONG_MAX,   \* of strtoll
          MaxData      \* data written to one port

VARIABLES dt   \* data written, text and position of the port, what was read

-----------------------------------------------------------------------------
(* The writers                                                             *)

\* Characters that a string literal has a name for.
Escape == [quote |-> "quote", backslash |-> "backslash", newline |-> "n", tab |-> "t", return |-> "r"]

\* Fault: a backslash is written as it is.
EscapeMost(s) ==
  FlattenSeq([i \in DOMAIN s |-> IF s[i] \in DOMAIN Escape \ {"backslash"} THEN <<"backslash", Escape[s[i]]>> ELSE <<s[i]>>])

write_string_literal(s) ==
  FlattenSeq([i \in DOMAIN s |-> IF s[i] \in DOMAIN Escape THEN <<"backslash", Escape[s[i]]>> ELSE <<s[i]>>])

\* A character is written by name or as it is.
CharName == [space |-> "space", newline |-> "newline", tab |-> "tab", return |-> "return", nul |-> "null"]

write_char_literal(c) == IF c \in DOMAIN CharName THEN CharName[c] ELSE c

\* Numbers, booleans and ().
print_value(v) ==
  CASE v[1] = "int" -> <<<<"number", v[2], 1>>>>
    [] v[1] = "ratio" -> <<<<"number", v[2][1], v[2][2]>>>>
    [] v[1] = "bool" -> <<<<"#", v[2]>>>>
    [] v[1] = "nil" -> <<<<"(">>, <<")">>>>

RECURSIVE write_value(_, _)

\* The elements of a list, then its tail unless that is ().
RECURSIVE write_tail(_, _)
write_tail(m, v) ==
  CASE v[1] = "pair" -> write_value(m, m[v[2]][1]) \o write_tail(m, m[v[2]][2])
    [] v[1] = "nil" -> <<<<")">>>>
    [] OTHER -> <<<<".">>>> \o write_value(m, v) \o <<<<")">>>>

write_value(m, v) ==
  CASE v[1] = "str" -> <<<<"string", write_string_literal(v[3])>>>>
    [] v[1] = "sym" -> <<<<"symbol", v[3]>>>>
    [] v[1] = "char" -> <<<<"char", write_char_literal(v[2])>>>>
    [] v[1] = "pair" -> <<<<"(">>>> \o write_tail(m, v)
    [] v[1] = "vector" ->
         <<<<"#(">>>> \o FlattenSeq([i \in DOMAIN m[v[2]] |-> write_value(m, m[v[2]][i])]) \o <<<<")">>>>
    [] v[1] = "bytes" -> <<<<"#u8(">>>> \o [i \in DOMAIN v[2] |-> <<"number", v[2][i], 1>>] \o <<<<")">>>>
    [] OTHER -> print_value(v)

\* The pairs and vectors that are reached more than once.
share_mark(m, v) == Shared(m, v)

\* w is what was written, and the labels given so far, by address.
RECURSIVE write_value_shared(_, _, _, _)

Wrote(w, l) == [w EXCEPT !.out = Append(@, l)]
Closed(w) == Wrote(w, <<")">>)
Defined(w, a) == [out |-> Append(w.out, <<"def", Len(w.labels)>>), labels |-> Append(w.labels, a)]

\* The rest of a list; a labelled pair in its spine is written as a tail.
RECURSIVE write_spine(_, _, _, _)
write_spine(m, v, S, w) ==
  CASE v[1] = "pair" /\ v[2] \notin S -> write_spine(m, m[v[2]][2], S, write_value_shared(m, m[v[2]][1], S, w))
    [] v[1] = "nil" -> Closed(w)
    [] OTHER -> Closed(write_value_shared(m, v, S, Wrote(w, <<".">>)))

\* A value that is not, or no longer, to be labelled.
write_parts(m, v, S, w) ==
  CASE v[1] = "pair" -> write_spine(m, m[v[2]][2], S, write_value_shared(m, m[v[2]][1], S, Wrote(w, <<"(">>)))
    [] v[1] = "vector" ->
         Closed(FoldLeft(LAMBDA z, e : write_value_shared(m, e, S, z), Wrote(w, <<"#(">>), m[v[2]]))
    [] OTHER -> [w EXCEPT !.out = @ \o write_value(m, v)]

write_value_shared(m, v, S, w) ==
  LET Label(a) == (CHOOSE i \in DOMAIN w.labels : w.labels[i] = a) - 1
      labelled == IsContainer(v) /\ v[2] \in S
  IN IF labelled /\ v[2] \in Range(w.labels) THEN Wrote(w, <<"ref", Label(v[2])>>)
     ELSE write_parts(m, v, S, IF labelled THEN Defined(w, v[2]) ELSE w)

-----------------------------------------------------------------------------
(* The reader: where it is, whether it has given up, what it read          *)

Quit(r) == [r EXCEPT !.ok = FALSE]
Yields(r, v, n) == [r EXCEPT !.val = v, !.pos = @ + n]
Here(t, r) == IF r.pos > Len(t) THEN <<"eof">> ELSE t[r.pos]

RECURSIVE read_next_datum(_, _)

\* Past a block comment, depth deep in it.
RECURSIVE skip_block(_, _, _)
skip_block(t, r, depth) ==
  IF depth = 0 THEN r
  ELSE CASE Here(t, r) = <<"eof">> -> Quit(r)
         [] Here(t, r) = <<"#|">> -> skip_block(t, Yields(r, r.val, 1), depth + 1)
         [] Here(t, r) = <<"|#">> -> skip_block(t, Yields(r, r.val, 1), depth - 1)
         [] OTHER -> skip_block(t, Yields(r, r.val, 1), depth)

RECURSIVE read_skip_ws(_, _)

\* Spaces and line comments are lexemes of their own.
read_skip_ws(t, r) ==
  IF ~r.ok THEN r
  ELSE CASE Here(t, r) \in {<<"space">>, <<";">>} -> read_skip_ws(t, Yields(r, r.val, 1))
         [] Here(t, r) = <<"#|">> -> read_skip_ws(t, skip_block(t, Yields(r, r.val, 1), 1))
         [] Here(t, r) = <<"#;">> ->
              read_skip_ws(t, [read_next_datum(t, Yields(r, r.val, 1)) EXCEPT !.val = r.val])
         [] OTHER -> r

\* The data up to the closing parenthesis, and the tail.
RECURSIVE read_list_items(_, _, _)

\* After the datum d of a list; after the tail d, where only ) may follow.
NextItem(t, d, items) == IF d.ok THEN read_list_items(t, d, Append(items, d.val)) ELSE d
CloseList(t, e, items) == IF e.ok /\ Here(t, e) = <<")">> THEN Yields(e, <<items, e.val>>, 1) ELSE Quit(e)

ItemsAt(t, r, items) ==
  IF ~r.ok THEN r
  ELSE CASE Here(t, r) = <<")">> -> Yields(r, <<items, <<"nil", 0>>>>, 1)
         [] Here(t, r) = <<"eof">> -> Quit(r)
         [] Here(t, r) = <<".">> ->
              CloseList(t, read_skip_ws(t, read_next_datum(t, Yields(r, r.val, 1))), items)
         [] OTHER -> NextItem(t, read_next_datum(t, r), items)

read_list_items(t, start, items) == ItemsAt(t, read_skip_ws(t, start), items)

\* A list of its items and tail, at new addresses.
MakeList(r, x) ==
  FoldRight(LAMBDA item, y : [y EXCEPT !.mem = Append(@, <<item, y.val>>), !.val = <<"pair", Len(y.mem) + 1>>],
            x[1], [r EXCEPT !.val = x[2]])

\* Escapes are undone; any other character after a backslash is itself.
RECURSIVE read_string_literal(_)
read_string_literal(s) ==
  IF s = <<>> THEN <<>>
  ELSE IF s[1] # "backslash" THEN <<s[1]>> \o read_string_literal(Tail(s))
  ELSE LET e == s[2]
           c == CASE e = "n" -> "newline" [] e = "t" -> "tab" [] e = "r" -> "return" [] e = "a" -> "alarm" [] OTHER -> e
       IN <<c>> \o read_string_literal(SubSeq(s, 3, Len(s)))

read_char_literal(name) == IF name = "null" THEN "nul" ELSE name

\* strtoll: what does not fit becomes the nearest number that does.
strtoll(n) == IF n > LLONG_MAX THEN LLONG_MAX ELSE IF n < -LLONG_MAX - 1 THEN -LLONG_MAX - 1 ELSE n

read_token(n, d) == IF d = 1 THEN <<"int", strtoll(n)>> ELSE <<"ratio", <<strtoll(n), strtoll(d)>>>>

\* What the items x of a parenthesis become, unless reading them failed.
VectorOf(x) == [x EXCEPT !.mem = Append(@, x.val[1]), !.val = <<"vector", Len(x.mem) + 1>>]
BytesOf(x) ==
  IF \A i \in DOMAIN x.val[1] : x.val[1][i][1] = "int"
  THEN Yields(x, <<"bytes", [i \in DOMAIN x.val[1] |-> x.val[1][i][2]]>>, 0) ELSE Quit(x)
Become(kind, x) ==
  CASE ~x.ok -> x
    [] kind = "(" -> MakeList(x, x.val)
    [] kind = "#(" -> VectorOf(x)
    [] kind = "#u8(" -> BytesOf(x)
    [] kind = "'" -> MakeList(x, <<<<<<"sym", 0, "quote">>, x.val>>, <<"nil", 0>>>>)

\* #( and #u8(: the elements of the list that follows.
read_hash(t, r, l) ==
  CASE l[1] = "#" -> Yields(r, <<"bool", l[2]>>, 1)
    [] l[1] = "char" -> Yields(r, <<"char", read_char_literal(l[2])>>, 1)
    [] l[1] \in {"#(", "#u8("} -> Become(l[1], read_list_items(t, Yields(r, r.val, 1), <<>>))
    [] OTHER -> Quit(r)

DatumAt(t, r, l) ==
  CASE ~r.ok -> r
    [] l[1] = "eof" -> Yields(r, <<"eof", 0>>, 0)
    [] l[1] = "(" -> Become("(", read_list_items(t, Yields(r, r.val, 1), <<>>))
    [] l[1] = ")" \/ l[1] = "." -> Quit(r)
    [] l[1] = "string" -> Yields(r, <<"str", 0, read_string_literal(l[2])>>, 1)
    [] l[1] = "symbol" -> Yields(r, <<"sym", 0, l[2]>>, 1)
    [] l[1] = "number" -> Yields(r, read_token(l[2], l[3]), 1)
    [] l[1] = "'" -> Become("'", read_next_datum(t, Yields(r, r.val, 1)))
    [] OTHER -> read_hash(t, r, l)

ReadAt(t, r) == DatumAt(t, r, Here(t, r))
read_next_datum(t, start) == ReadAt(t, read_skip_ws(t, start))

-----------------------------------------------------------------------------
(* A port that is written to, and read from                                *)

DatumsInit == dt = [data |-> <<>>, text |-> <<>>, pos |-> 1, read |-> <<>>, ok |-> TRUE, shared |-> FALSE, comments |-> 0]

IsCyclic(d) == \E a \in Containers(d.mem, Root(d.v)) :
  a \in Containers(d.mem, UNION {Root(d.mem[a][i]) : i \in DOMAIN d.mem[a]})

\* write does not come to an end on a cycle, and is not called on one.
bi_write ==
  /\ dt.read = <<>> /\ ~dt.shared /\ Len(dt.data) < MaxData
  /\ \E d \in Written :
       /\ ~IsCyclic(d)
       /\ dt' = [dt EXCEPT !.data = Append(@, d), !.text = @ \o write_value(d.mem, d.v) \o <<<<"space">>>>]

bi_write_shared ==
  /\ dt.data = <<>>
  /\ \E d \in Written :
       dt' = [dt EXCEPT !.data = <<d>>, !.shared = TRUE,
                !.text = write_value_shared(d.mem, d.v, share_mark(d.mem, d.v), [out |-> <<>>, labels |-> <<>>]).out]

\* Somebody puts a comment between two lexemes.
AddComment ==
  /\ dt.read = <<>> /\ dt.data # <<>> /\ ~dt.shared /\ dt.comments < 1
  /\ \E i \in 1..(Len(dt.text) + 1), c \in Comment :
       dt' = [dt EXCEPT !.comments = 1, !.text = SubSeq(@, 1, i - 1) \o c \o SubSeq(@, i, Len(@))]

HasRead(r) == [dt EXCEPT !.ok = r.ok, !.pos = r.pos, !.read = Append(@, [mem |-> r.mem, v |-> r.val])]

bi_read ==
  /\ dt.ok /\ dt.data # <<>> /\ ~dt.shared /\ Len(dt.read) <= Len(dt.data)
  /\ dt' = HasRead(read_next_datum(dt.text, [pos |-> dt.pos, ok |-> TRUE, mem |-> <<>>, val |-> <<"eof", 0>>]))

DatumsNext == bi_write \/ bi_write_shared \/ AddComment \/ bi_read

-----------------------------------------------------------------------------
(* Properties                                                              *)

\* What was written to a port is read from it, datum by datum and then the
\* end, whatever comments are put between.
ReadBack ==
  dt.read # <<>> =>
    /\ dt.ok
    /\ \A k \in DOMAIN dt.read :
         IF k <= Len(dt.data)
         THEN Alike(dt.data[k].mem, dt.data[k].v, dt.read[k].mem, dt.read[k].v)
         ELSE dt.read[k].v = <<"eof", 0>>

\* What a text with labels stands for, by the report's rules: the memory,
\* the labels so far, where it ends.
RECURSIVE Denotes(_, _)
RECURSIVE VectorFrom(_, _, _)

\* d is an element of the vector, or of the list, at address a.
AddElement(t, d, a) == VectorFrom(t, [d EXCEPT !.mem[a] = Append(@, d.val)], a)
VectorFrom(t, r, a) == IF t[r.pos] = <<")">> THEN [r EXCEPT !.pos = @ + 1] ELSE AddElement(t, Denotes(t, r), a)

RECURSIVE ListFrom(_, _, _)
EndList(e, a, car) == [e EXCEPT !.mem[a] = <<car, e.val>>, !.pos = @ + 1]
AddPair(t, d, a, b) ==
  CASE t[d.pos] = <<")">> -> EndList([d EXCEPT !.val = <<"nil", 0>>], a, d.val)
    [] t[d.pos] = <<".">> -> EndList(Denotes(t, [d EXCEPT !.pos = @ + 1]), a, d.val)
    [] OTHER -> ListFrom(t, [d EXCEPT !.mem = Append([@ EXCEPT ![a] = <<d.val, <<"pair", b>>>>], <<>>)], b)
AfterItem(t, d, a) == AddPair(t, d, a, Len(d.mem) + 1)
ListFrom(t, r, a) == AfterItem(t, Denotes(t, r), a)

\* An atom or (), as the reader takes it.
AtomOf(r, x) == [r EXCEPT !.pos = x.pos, !.val = x.val]

\* The datum whose first lexeme is l, n lexemes on, and labelled if n = 2.
DenotesAt(t, r, l, n, a) ==
  LET value == <<IF l = <<"(">> THEN "pair" ELSE "vector", a>>
      inside == [r EXCEPT !.pos = @ + n, !.mem = Append(@, <<>>), !.labels = IF n = 2 THEN Append(@, value) ELSE @]
  IN CASE l[1] = "ref" -> [r EXCEPT !.pos = @ + 1, !.val = r.labels[l[2] + 1]]
       [] l = <<"(">> /\ t[r.pos + n] # <<")">> -> [ListFrom(t, inside, a) EXCEPT !.val = value]
       [] l = <<"#(">> -> [VectorFrom(t, inside, a) EXCEPT !.val = value]
       [] OTHER -> AtomOf(r, read_next_datum(t, r))

Denotes(t, r) ==
  LET def == t[r.pos][1] = "def"
  IN DenotesAt(t, r, IF def THEN t[r.pos + 1] ELSE t[r.pos], IF def THEN 2 ELSE 1, Len(r.mem) + 1)

StandsFor(d, r) == r.pos = Len(dt.text) + 1 /\ Same(d.mem, d.v, r.mem, r.val)

\* write-shared comes to an end on any datum, and its labels stand for
\* exactly the sharing and the cycles of it.
SharingWritten ==
  dt.shared =>
    StandsFor(dt.data[1], Denotes(dt.text, [pos |-> 1, ok |-> TRUE, mem |-> <<>>, labels |-> <<>>,
                                            val |-> <<"eof", 0>>]))

\* What the writers of builtins.c write stands for the datum written.
TextMeansDatum == ReadBack /\ SharingWritten

=============================================================================
