------------------------------ MODULE MCLibrary ------------------------------
(***************************************************************************)
(* The builtin procedures of icecreme and what they work on: numbers and   *)
(* the instructions on them, lists, buffers and trees, data as text and in *)
(* chunks, the routes of the HTTP server.  A behaviour is about one of     *)
(* them, its subject, and the others rest.                                 *)
(***************************************************************************)
EXTENDS TreeList, VMOps, Lists, Buffers, Radix, Loader, Datums

VARIABLE subject

Subject == {"trees", "numbers", "instructions", "lists", "buffers", "routes", "loader", "data"}

-----------------------------------------------------------------------------
(* Instructions: the frames a program begins with.  Address 1 is the list  *)
(* (1), 2 a vector, 3 a bytevector, 4 a string.                            *)

SmallHeap == <<<<v_int(1), v_nil>>, <<v_int(0), v_nil>>, <<v_int(1)>>, <<v_char(1)>>>>

FirstRegister ==
  {v_int(-INT_MAX - 1), v_int(1), v_int(INT_MAX), <<"float", 1>>, v_nil, v_bool(FALSE), v_char(5),
   <<"pair", 1>>, <<"vector", 2>>, <<"bytevector", 3>>, <<"string", 4>>}

Frame(x, y, u) ==
  [regs |-> <<x, y, v_nil, v_nil, v_nil, v_nil, v_nil>>, ups |-> <<u>>, heap |-> SmallHeap,
   globals |-> [g \in {"g", "make-g", "g?", "g-x", "g-y", "set-g-x!"} |-> Unbound],
   ip |-> 0, ret |-> NoValue, err |-> FALSE]

Frames ==
  {Frame(x, y, u) : x \in FirstRegister,
                    y \in {v_int(0), v_int(INT_MAX), <<"float", 1>>, <<"pair", 1>>, v_char(5)},
                    u \in {v_int(1), <<"vector", 2>>, <<"bytevector", 3>>, <<"string", 4>>}}

NoFrame == [Frame(v_nil, v_nil, v_nil) EXCEPT !.err = TRUE]

-----------------------------------------------------------------------------
(* Routes: patterns that share prefixes, with parameters and a catch-all,  *)
(* and every path of up to four characters.                                *)

Patterns ==
  {<<"/", "a">>, <<"/", "a", "b">>, <<"/", "a", "a">>, <<"/", ":", "x">>, <<"/", ":", "y">>,
   <<"/", ":", "x", "/", "b">>, <<"/", "a", "/", ":", "x">>, <<"/", "*", "z">>,
   <<"/", ":", "x", "/", ":", "y">>}

Paths == UNION {[1..n -> {"/", "a", "b"}] : n \in 1..4}

-----------------------------------------------------------------------------
(* Data with sharing and cycles                                            *)

End == <<"nil", 0>>

Memory ==
  << <<<<"int", 1>>, <<"pair", 1>>>>,                       \* 1: a circular list
     <<<<"pair", 3>>, <<"pair", 3>>>>,                      \* 2: shared car and cdr
     <<<<"str", 0, <<"a", "quote", "backslash", "newline">>>>, End>>,
     <<<<"vector", 4>>, <<"pair", 2>>, <<"pair", 3>>>>,     \* 4: a vector in itself
     <<<<"int", -4>>, <<"pair", 6>>>>, <<<<"char", "nul">>, <<"pair", 7>>>>,
     <<<<"sym", 0, "f">>, <<"ratio", <<1, 3>>>>>>,          \* 5: an improper list
     <<<<"pair", 1>>, <<"pair", 9>>>>, <<<<"pair", 5>>, <<"pair", 8>>>>,
     <<<<"bytes", <<0, 3>>>>, End, <<"bool", "t">>, <<"char", "space">>>>,
     <<<<"int", 3>>, <<"pair", 12>>>>, <<<<"int", 2>>, <<"pair", 13>>>>, <<<<"pair", 12>>, End>> >>

WrittenData ==
  {[mem |-> Memory, v |-> v] :
     v \in ({"pair"} \X {1, 2, 3, 5, 8, 9, 11, 12}) \cup ({"vector"} \X {4, 10})
           \cup {<<"int", 3>>, End, <<"str", 0, <<"backslash", "n", "tab">>>>}}

Comments ==
  {<<<<"space">>, <<";">>>>,
   <<<<"#|">>, <<"(">>, <<"|#">>>>,
   <<<<"#|">>, <<"#|">>, <<"|#">>, <<")">>, <<"|#">>>>,
   <<<<"#;">>, <<"(">>, <<"#;">>, <<"symbol", "f">>, <<"'">>, <<"symbol", "f">>, <<")">>>>}

-----------------------------------------------------------------------------
(* Chunks: constants that share parts, nested chunks, a case table, a      *)
(* quasiquote template, and more names than there is room for.             *)

Operations ==
  [getglobal |-> 1, callglobal |-> 2, loadk |-> 3, quasiquote |-> 4, casedispatch |-> 5, closure |-> 6,
   move |-> 7]

Do(o, x, line) == [op |-> o, x |-> x, line |-> line]
Sym(n) == <<"sym", 0, n>>
Piece(instrs, consts, protos, qq, cases) ==
  [instrs |-> instrs, consts |-> consts, protos |-> protos, name |-> "main", qq |-> qq, cases |-> cases]
Whole(mem, chunk) ==
  [mem |-> mem, chunk |-> chunk, pool |-> <<"main", "f", "car", "g", "s">>, families |-> <<"g", "h">>]

Constants ==
  << <<<<"int", 1>>, <<"pair", 1>>>>,
     <<<<"pair", 3>>, <<"pair", 3>>>>,
     <<<<"str", 0, "s">>, End>>,
     <<<<"vector", 4>>, <<"pair", 2>>, <<"pair", 3>>>>,
     <<<<"int", 1>>, <<"pair", 6>>>>, <<<<"int", 2>>, <<"pair", 7>>>>, <<<<"int", 3>>, End>>,
     <<<<"pair", 1>>, <<"pair", 9>>>>, <<<<"pair", 2>>, <<"vector", 4>>>>,
     <<<<"int", 0>>, <<"pair", 11>>>>, <<<<"int", 0>>, <<"pair", 5>>>> >>

Quoting(v) ==
  Whole(Constants,
        Piece(<<Do("loadk", 0, 3), Do("move", 9, 0)>>,
              <<v, <<"str", 0, "s">>, <<"str", 0, "s">>, <<"pair", 2>>>>, <<>>, <<>>, <<>>))

Leaf ==
  Piece(<<Do("getglobal", 1, 0), Do("callglobal", 0, 5), Do("loadk", 1, 0)>>,
        <<Sym("f"), Sym("g"), <<"builtin", 0, "car">>>>, <<>>, <<>>, <<>>)

Switch ==
  Piece(<<Do("closure", 0, 1), Do("callglobal", 0, 0), Do("casedispatch", 0, 2)>>,
        <<Sym("car"), Sym("f")>>, <<Leaf>>, <<>>,
        <<[default |-> 3, entries |-> <<<<"int", 1, 2>>, <<"sym", "f", 1>>>>]>>)

Template ==
  <<"list", <<<<"hole">>, <<"const", <<"pair", 1>>>>, <<"vector", <<<<"hole">>>>>>>>, <<"const", End>>>>

Nested ==
  Piece(<<Do("quasiquote", 0, 0), Do("closure", 0, 0)>>, <<>>,
        <<Piece(<<Do("closure", 0, 0)>>, <<>>, <<Leaf>>, <<>>, <<>>)>>, <<Template>>, <<>>)

ManyNames ==
  Piece([k \in 1..4 |-> Do("getglobal", k - 1, 0)], <<Sym("f"), Sym("g"), Sym("s"), Sym("main")>>,
        <<>>, <<>>, <<>>)

Programs ==
  {Quoting(v) : v \in ({"pair"} \X {1, 2, 3, 8, 10, 11}) \cup {<<"vector", 4>>, <<"int", 7>>}}
  \cup {Whole(<<>>, ManyNames), Whole(<<>>, Switch), Whole(<<<<<<"pair", 1>>, End>>>>, Nested)}

-----------------------------------------------------------------------------

LibraryInit ==
  /\ subject \in Subject
  /\ TreeInit /\ NumbersInit /\ ListsInit /\ RadixInit /\ DatumsInit
  /\ IF subject = "instructions" THEN OpsInit ELSE cpu = NoFrame /\ executed = 0
  /\ IF subject = "buffers" THEN BuffersInit ELSE kind = "vector" /\ bufs = <<>>
  /\ LoaderInit
  /\ subject # "loader" => ld.program = Whole(<<>>, ManyNames)

libraryVars == <<subject, tlvars, numVars, opsVars, heap, bufVars, radixVars, ld, dt>>

LibraryNext ==
  /\ UNCHANGED subject
  /\ \/ /\ subject = "trees" /\ TreeNext
        /\ UNCHANGED <<numVars, opsVars, heap, bufVars, radixVars, ld, dt>>
     \/ /\ subject = "numbers" /\ NumbersNext
        /\ UNCHANGED <<tlvars, opsVars, heap, bufVars, radixVars, ld, dt>>
     \/ /\ subject = "instructions" /\ OpsNext
        /\ UNCHANGED <<tlvars, numVars, heap, bufVars, radixVars, ld, dt>>
     \/ /\ subject = "lists" /\ ListsNext
        /\ UNCHANGED <<tlvars, numVars, opsVars, bufVars, radixVars, ld, dt>>
     \/ /\ subject = "buffers" /\ BuffersNext
        /\ UNCHANGED <<tlvars, numVars, opsVars, heap, radixVars, ld, dt>>
     \/ /\ subject = "routes" /\ RadixNext
        /\ UNCHANGED <<tlvars, numVars, opsVars, heap, bufVars, ld, dt>>
     \/ /\ subject = "loader" /\ LoaderNext
        /\ UNCHANGED <<tlvars, numVars, opsVars, heap, bufVars, radixVars, dt>>
     \/ /\ subject = "data" /\ DatumsNext
        /\ UNCHANGED <<tlvars, numVars, opsVars, heap, bufVars, radixVars, ld>>

LibrarySpec == LibraryInit /\ [][LibraryNext]_libraryVars

-----------------------------------------------------------------------------

\* Lists that share tails or run in circles, and buffers whose ranges overlap
\* or leave the buffer: equal?, the walks and the copies of builtins.c agree
\* with what a list or a buffer is.
ListsAndBuffersAgree == ListsAgree /\ BuffersAgree
=============================================================================
