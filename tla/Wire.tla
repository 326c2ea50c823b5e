-------------------------------- MODULE Wire ---------------------------------
(***************************************************************************)
(* The wire format of actor messages (icecreme/actor.c): write_datum on    *)
(* the sender's thread, read_datum on the receiver's I/O thread, and what  *)
(* becomes of a message that is forwarded from node to node.               *)
(*                                                                         *)
(* A message is a tree, a tuple that begins with its kind.  A text is a    *)
(* sequence of lexemes, tuples that begin with their characters' shape:    *)
(* a number and a symbol are both plain words, a string, a record's tag    *)
(* and an actor reference all strings.                                     *)
(***************************************************************************)
EXTENDS Integers, Sequences, SequencesExt

CONSTANTS Message(_),     \* what a program at a node sends
          WNode, LocalNode, \* nodes with an address, and those of them started as 'local
          ProcessOf,      \* node -> the process that it runs in
          RecordTypes,    \* the names of record types, bound at every node
          MAX_DEPTH,      \* CREME_ACTOR_MAX_WIRE_DEPTH
          MAX_ITEMS,      \* room for the elements of a list in read_list
          MaxHops

VARIABLES wire

\* strtoll and strtod take these words whole.
Integer == {"7"}
Floating == {"0.5", "inf"}

Nil == <<"nil">>

-----------------------------------------------------------------------------
(* The writer                                                              *)

RECURSIVE write_datum(_, _, _)

\* The elements of a list, then its tail unless that is ().
RECURSIVE write_items(_, _, _)
write_items(v, at, fresh) ==
  CASE v = Nil -> <<>>
    [] v[1] = "pair" -> write_datum(v[2], at, fresh) \o write_items(v[3], at, fresh)
    [] OTHER -> <<<<".">>>> \o write_datum(v, at, fresh)

\* Fault: a reference that is passed on gets the address of the node that
\* passes it on.
AddressOfSender(v, at, fresh) == <<"string", "@ref", at, v[3]>>

\* A reference that was made here has the address of the sender's node; one
\* that came from elsewhere keeps its own.
write_ref(v, at, fresh) == <<"string", "@ref", IF fresh THEN at ELSE v[2], v[3]>>

write_datum(v, at, fresh) ==
  LET Each(s) == FlattenSeq([i \in DOMAIN s |-> write_datum(s[i], at, fresh)])
  IN CASE v[1] = "nil"  -> <<<<"(">>, <<")">>>>
       [] v[1] = "bool" -> <<<<"#", v[2]>>>>
       [] v[1] \in {"int", "float", "sym"} -> <<<<"word", v[2]>>>>
       [] v[1] = "char" -> <<IF v[2] \in {"a", "x"} THEN <<"#\\", v[2]>> ELSE <<"#\\x;", v[2]>>>>
       [] v[1] = "str"  -> <<<<"string">> \o Tail(v)>>
       [] v[1] = "pair" -> <<<<"(">>>> \o write_items(v, at, fresh) \o <<<<")">>>>
       [] v[1] = "vec"  -> <<<<"#(">>>> \o Each(Tail(v)) \o <<<<")">>>>
       [] v[1] = "rec"  -> <<<<"(">>, <<"string", "@record">>, <<"string", v[2]>>>>
                             \o Each(SubSeq(v, 3, Len(v))) \o <<<<")">>>>
       [] v[1] = "ref"  -> <<write_ref(v, at, fresh)>>

-----------------------------------------------------------------------------
(* The reader: what was read, and where it is then.  preader_fail gives    *)
(* the whole message up.                                                   *)

Failed == [ok |-> FALSE, v |-> Nil, pos |-> 0]
Got(v, pos) == [ok |-> TRUE, v |-> v, pos |-> pos]

\* An address is <<node, id>>.  A local:// one is looked up among the
\* nodes of this process.
make_ref_from_uri(uri, pos, here) ==
  IF uri[1] \in LocalNode /\ ProcessOf[uri[1]] # ProcessOf[here] THEN Failed
  ELSE Got(<<"ref">> \o uri, pos)

read_string(t, pos, here) ==
  LET text == Tail(t[pos]) IN
  IF text[1] = "@ref" THEN make_ref_from_uri(Tail(text), pos + 1, here)
  ELSE Got(<<"str">> \o text, pos + 1)

\* #\x begins a code in hex that ends with the next semicolon.
read_char(t, pos) ==
  IF t[pos][1] = "#\\x;" \/ t[pos][2] # "x" THEN Got(<<"char", t[pos][2]>>, pos + 1)
  ELSE LET ends == {i \in pos..Len(t) : t[i][1] = "#\\x;"}
       IN Got(<<"char", "some">>,
              IF ends = {} THEN Len(t) + 1 ELSE (CHOOSE i \in ends : \A j \in ends : i <= j) + 1)

read_word(t, pos) ==
  LET w == t[pos][2] IN
  Got(<<CASE w \in Integer -> "int" [] w \in Floating -> "float" [] OTHER -> "sym", w>>, pos + 1)

ListOf(items, tail) == FoldRight(LAMBDA x, rest : <<"pair", x, rest>>, items, tail)

\* A list that begins with "@record" is a record of a type known here.
Finish(items, tail, pos) ==
  IF tail = Nil /\ Len(items) >= 2 /\ items[1] = <<"str", "@record">>
  THEN IF items[2][1] = "str" /\ items[2][2] \in RecordTypes
       THEN Got(<<"rec", items[2][2]>> \o SubSeq(items, 3, Len(items)), pos)
       ELSE Failed
  ELSE Got(ListOf(items, tail), pos)

RECURSIVE read_datum(_, _, _, _)

\* pos is after the elements read so far.
RECURSIVE read_items(_, _, _, _, _)
read_items(t, pos, depth, items, here) ==
  IF pos > Len(t) THEN Failed
  ELSE CASE t[pos] = <<")">> -> Finish(items, Nil, pos + 1)
         [] t[pos] = <<".">> ->
              LET r == read_datum(t, pos + 1, depth, here)
              IN IF ~r.ok \/ r.pos > Len(t) THEN Failed
                 ELSE IF t[r.pos] # <<")">> THEN Failed
                 ELSE Finish(items, r.v, r.pos + 1)
         [] OTHER ->
              LET r == read_datum(t, pos, depth, here)
              IN IF Len(items) >= MAX_ITEMS \/ ~r.ok THEN Failed
                 ELSE read_items(t, r.pos, depth, Append(items, r.v), here)

read_list(t, pos, depth, here) ==
  IF depth > MAX_DEPTH THEN Failed ELSE read_items(t, pos + 1, depth, <<>>, here)

\* The elements of the list, as wire_list_len counts them.
RECURSIVE Elements(_)
Elements(v) == IF v[1] = "pair" THEN <<v[2]>> \o Elements(v[3]) ELSE <<>>

read_datum(t, pos, depth, here) ==
  IF pos > Len(t) THEN Failed
  ELSE CASE t[pos] = <<"(">> -> read_list(t, pos, depth + 1, here)
         [] t[pos] = <<"#(">> ->
              LET r == read_list(t, pos, depth + 1, here)
              IN IF r.ok THEN Got(<<"vec">> \o Elements(r.v), r.pos) ELSE r
         [] t[pos][1] = "#" -> Got(<<"bool", t[pos][2]>>, pos + 1)
         [] t[pos][1] = "string" -> read_string(t, pos, here)
         [] t[pos][1] \in {"#\\", "#\\x;"} -> read_char(t, pos)
         [] t[pos][1] = "word" -> read_word(t, pos)
         [] OTHER -> Failed

encode_message(v, at, fresh) == write_datum(v, at, fresh)
decode_message(t, here) == read_datum(t, 1, 0, here)

-----------------------------------------------------------------------------
(* A message and the nodes it is forwarded through                         *)

\* A program sends references to actors of its own node.
WireInit ==
  \E n \in WNode : \E v \in Message(n) :
    wire = [sent |-> v, held |-> v, at |-> n, text |-> <<>>, hops |-> 0, dropped |-> FALSE]

Encode ==
  /\ wire.text = <<>> /\ ~wire.dropped /\ wire.hops < MaxHops
  /\ wire' = [wire EXCEPT !.text = encode_message(wire.held, wire.at, wire.hops = 0)]

\* At a node of another process.
DecodeFrame ==
  /\ wire.text # <<>>
  /\ \E n \in WNode \ LocalNode :
       /\ ProcessOf[n] # ProcessOf[wire.at]
       /\ LET r == decode_message(wire.text, n)
          IN wire' = [wire EXCEPT !.held = IF r.ok THEN r.v ELSE @, !.dropped = ~r.ok, !.at = n,
                                  !.text = <<>>, !.hops = @ + 1]

WireNext == Encode \/ DecodeFrame

-----------------------------------------------------------------------------
(* Properties                                                              *)

RECURSIVE EndOf(_)
EndOf(v) == IF v[1] = "pair" THEN EndOf(v[3]) ELSE v

\* The data directly in a list, a vector or a record, and the number of
\* elements that it takes on the wire.
Parts(v) ==
  CASE v[1] = "pair" -> Append(Elements(v), EndOf(v))
    [] v[1] = "vec" -> Tail(v)
    [] v[1] = "rec" -> SubSeq(v, 3, Len(v))
    [] OTHER -> <<>>

Width(v) ==
  CASE v[1] = "pair" -> Len(Elements(v))
    [] v[1] = "rec" -> Len(v)
    [] OTHER -> Len(Parts(v))

Most(s) == FoldLeft(LAMBDA a, b : IF a > b THEN a ELSE b, 0, s)

\* How deep lists nest; the () that ends a list is not written.
RECURSIVE Nesting(_)
Nesting(v) ==
  IF v[1] \notin {"nil", "pair", "vec", "rec"} THEN 0
  ELSE 1 + Most([i \in DOMAIN Parts(v) |->
                   IF v[1] = "pair" /\ i = Len(Parts(v)) /\ Parts(v)[i] = Nil THEN 0 ELSE Nesting(Parts(v)[i])])

RECURSIVE Longest(_)
Longest(v) == Most(<<Width(v)>> \o [i \in DOMAIN Parts(v) |-> Longest(Parts(v)[i])])

RECURSIVE Refers(_)
\* Is there a reference to an actor of a 'local node?
Refers(v) ==
  (v[1] = "ref" /\ v[2] \in LocalNode) \/ \E i \in DOMAIN Parts(v) : Refers(Parts(v)[i])

Fits(v) == Nesting(v) <= MAX_DEPTH /\ Longest(v) <= MAX_ITEMS

\* What a node holds after any number of hops is what was sent: lists,
\* vectors, records and numbers come back as themselves, and a reference
\* means the same actor everywhere.
WireFaithful == wire.held = wire.sent

\* A message is given up only if it nests deeper or has a longer list than
\* the reader has room for, or has a reference that means nothing outside
\* its process; and then it is always given up.
DroppedForCause == wire.hops > 0 => (wire.dropped <=> (~Fits(wire.sent) \/ Refers(wire.sent)))

\* A message that goes through the wire format arrives as it was sent, or is
\* dropped for a reason that the format documents.
MessagesArrive == WireFaithful /\ DroppedForCause

=============================================================================
