------------------------------ MODULE MCNetwork ------------------------------
(***************************************************************************)
(* What icecreme exchanges with the world: the connections of the HTTP     *)
(* multiplexer, and the messages between actor nodes.  A behaviour is      *)
(* about one of them, its subject, and the other rests.                    *)
(***************************************************************************)
EXTENDS MuxConn, Wire

VARIABLE subject

Subject == {"connections", "messages"}

-----------------------------------------------------------------------------
(* HTTP: what clients ask                                                  *)

Requests == <<
  Req("found", 1, <<>>, 0, 0, "none", 1),            \* 1 no body
  Req("found", 1, <<2>>, 2, 0, "none", 1),           \* 2 a body
  Req("none", 1, <<1>>, 1, 0, "close", 1),           \* 3 no route, the last one
  Req("aborts", 1, <<>>, 0, 0, "none", 0),           \* 4 HTTP/1.0, the handler aborts
  Req("found", 1, <<>>, 0, 2, "none", 1),            \* 5 chunked
  Req("found", 1, <<1, 0, 2>>, 2, 0, "none", 1),     \* 6 the length overflows
  Req("found", 1, <<9>>, 2, 0, "none", 1),           \* 7 the length is above the limit
  Req("found", 1, <<1, 10>>, 1, 0, "none", 1),       \* 8 the length is no number
  Req("malformed", 1, <<>>, 0, 0, "none", 1),        \* 9
  Req("found", 4, <<>>, 0, 0, "none", 1),            \* 10 the header is above the limit
  Req("aborts", 1, <<1>>, 1, 0, "keep-alive", 0) >>  \* 11 aborts, persistent

Scripts ==
  <<{<<1, 2>>, <<2, 3>>, <<11, 5>>, <<4, 1>>, <<6>>, <<9>>, <<8>>, <<10>>, <<7>>}, {<<1, 1>>}>>

-----------------------------------------------------------------------------
(* Messages: every shape of data two deep, and a list and a vector that    *)
(* are too long.  Nodes a and c run in one process.                        *)

Seven == <<"int", "7">>

Plain(n) ==
  {Nil, <<"bool", "t">>, Seven, <<"float", "0.5">>, <<"float", "inf">>, <<"sym", "a">>, <<"str", "a">>,
   <<"char", "a">>, <<"char", "lambda">>, <<"ref", n, "p">>}

Around(A, B) ==
  A \cup {<<"pair", x, y>> : x \in A, y \in B} \cup {<<"vec", x>> : x \in A}
    \cup {<<"vec", x, y>> : x \in A, y \in B} \cup {<<"rec", "point", x>> : x \in A}

Messages(n) ==
  Around(Around(Plain(n), {Nil, Seven, <<"ref", n, "p">>, <<"char", "lambda">>}),
         {Nil, Seven, <<"pair", Seven, Nil>>})
  \cup {<<"vec", Nil, Seven, Nil, Nil>>, <<"rec", "point", <<"vec", <<"vec", Nil>>>>>>}

Processes == [a |-> 1, c |-> 1, b |-> 2]

Records == {"point"}

-----------------------------------------------------------------------------

NetworkInit ==
  /\ subject \in Subject
  /\ MuxInit /\ WireInit
  /\ subject # "messages" => wire.sent = Nil /\ wire.at = "a"

networkVars == <<subject, muxVars, wire>>

NetworkNext ==
  /\ UNCHANGED subject
  /\ \/ subject = "connections" /\ MuxNext /\ UNCHANGED wire
     \/ subject = "messages" /\ WireNext /\ UNCHANGED muxVars

NetworkSpec == NetworkInit /\ [][NetworkNext]_networkVars /\ MuxFairness
=============================================================================
