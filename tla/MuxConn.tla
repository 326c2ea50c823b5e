------------------------------ MODULE MuxConn ------------------------------
(***************************************************************************)
(* One I/O loop of mux.c and the connections it serves: poll, accept, the  *)
(* read/parse/dispatch handler of a ready connection, keep-alive and the   *)
(* error answers.  mux-listen! without a pool runs this loop on the        *)
(* calling thread, every worker of a pool runs its own.                    *)
(*                                                                         *)
(* A byte of the stream is a piece <<k, part>> of request k.  A request's  *)
(* header takes two pieces or more, a body of n bytes n pieces, and a      *)
(* chunked body a size and a data piece per chunk and a last one.  Clients *)
(* send what they like of their script when they like.                     *)
(***************************************************************************)
EXTENDS Integers, Sequences, SequencesExt, FiniteSets

CONSTANTS MConn,              \* connections
          Request,            \* the requests: a sequence of records, see Req
          Script,             \* for each connection, the sequences of them that its client may send
          RECV,               \* pieces one recv takes at most (4096 bytes)
          MUX_MAX_HEADER_BYTES, MUX_MAX_BODY_BYTES, LONG_MAX,
          ReallocMoves,       \* may a growing buffer be moved?
          SplitChunks,        \* may a chunked body arrive in several reads?
          Pipelining          \* the connections whose clients do not await an answer

VARIABLES conn,      \* the Conn of each connection
          stream,      \* what the client has sent and nobody received
          script,    \* the requests the client sends
          nsent,     \* the pieces of them it has sent
          hungUp,    \* connections the client has closed
          slots,     \* pfds and pconns after slot 0: [conn, ready]
          pass,      \* the slot the loop is at; 0 before poll
          backlog,   \* connections waiting for accept
          answers    \* what each client was answered: [req, status, body]

\* A client that connects has something to ask.
ASSUME MuxAssumption ==
  /\ RECV \in Nat \ {0}
  /\ \A c \in MConn : <<>> \notin Script[c]

muxVars == <<conn, stream, script, nsent, hungUp, slots, pass, backlog, answers>>

-----------------------------------------------------------------------------
(* Requests                                                                 *)

\* route: the handler's answer, "none" for no route and "aborts" for a handler
\* or a middleware that does not return; length: the digits of Content-Length,
\* 10 for a character that is none; header: pieces before the end of the header.
Req(route, header, length, body, chunks, connection, minor) ==
  [route |-> route, header |-> header, length |-> length, body |-> body,
   chunks |-> chunks, connection |-> connection, minor |-> minor]

PiecesOf(k) ==
  LET r == Request[k]
  IN [i \in 1..r.header |-> <<k, "header">>]
       \o <<<<k, IF r.route = "malformed" THEN "junk" ELSE "end">>>>
       \o [i \in 1..r.body |-> <<k, "body">>]
       \o [i \in 1..2 * r.chunks |-> <<k, IF i % 2 = 1 THEN "size" ELSE "data">>]
       \o IF r.chunks = 0 THEN <<>> ELSE <<<<k, "last">>>>

\* The first piece of buf of a kind, 0 if there is none.
FirstPiece(buf, kinds) == SelectInSeq(buf, LAMBDA b : b[2] \in kinds)

\* picohttpparser: the length of the header, -1 for a malformed one, which one is
\* that begins with something else, -2 for one that is not complete.
phr_parse_request(buf) ==
  LET at == FirstPiece(buf, {"end", "junk"})
      malformed == buf[at][2] = "junk" \/ \E i \in 1..(at - 1) : buf[i][2] # "header"
  IN IF at = 0 THEN -2 ELSE IF malformed THEN -1 ELSE at

\* The decoder goes through the next piece of what it has been given.
DecodePiece(d, b) ==
  IF d.ret # -2 THEN d
  ELSE CASE d.decoder = "size" /\ b[2] = "size" -> [d EXCEPT !.decoder = "data"]
         [] d.decoder = "data" /\ b[2] # "last" -> [d EXCEPT !.decoder = "size", !.data = Append(@, b)]
         [] d.decoder = "size" /\ b[2] = "last" -> [d EXCEPT !.ret = 0]
         [] OTHER -> [d EXCEPT !.ret = -1]

\* The decoder reads buf from its start, in the state its last call left it in,
\* and keeps of it the data.  ret: 0 at the end of the body, -1 for what is no
\* chunk, -2 when there should be more.
phr_decode_chunked(decoder, buf) ==
  FoldLeft(DecodePiece, [ret |-> -2, decoder |-> decoder, data |-> <<>>], buf)

\* -1 on a non-digit, -2 on overflow
parse_long_len(digits) ==
  IF digits = <<>> THEN -1
  ELSE FoldLeft(LAMBDA v, d : CASE v < 0 -> v
                                [] v >= 0 /\ d = 10 -> -1
                                [] v > (LONG_MAX - 9) \div 10 -> -2
                                [] OTHER -> v * 10 + d,
                0, digits)

-----------------------------------------------------------------------------
(* The Conn                                                                 *)

NewConn ==
  [open |-> TRUE, buf |-> <<>>, cap |-> 0, dangling |-> FALSE, phase |-> "headers",
   header_len |-> 0, content_length |-> -1, chunked |-> FALSE, keep_alive |-> FALSE,
   chunk_body |-> <<>>, decoder |-> "size", req |-> 0]

\* sdscatlen doubles the room when it runs out; a buffer that moves leaves the
\* method, path and headers parsed from it pointing at where it was.
sdscatlen(c, bytes) ==
  LET n == Len(c.buf) + Len(bytes)
      grows == n > c.cap
  IN [c EXCEPT !.buf = @ \o bytes, !.cap = IF grows THEN 2 * n ELSE @,
               !.dangling = @ \/ (grows /\ ReallocMoves /\ c.phase = "body")]

\* What one recv takes, and what it leaves.
Received(bytes) == IF Len(bytes) < RECV THEN bytes ELSE SubSeq(bytes, 1, RECV)
Unread(bytes) == IF Len(bytes) < RECV THEN <<>> ELSE SubSeq(bytes, RECV + 1, Len(bytes))

conn_read_into(c, bytes) ==
  IF c.phase = "body" /\ c.chunked THEN [c EXCEPT !.chunk_body = @ \o bytes]
  ELSE sdscatlen(c, bytes)

\* What conn_advance returns: 1, 0 or -1 with the status already answered.
Advanced(c, r, status) == [c |-> c, r |-> r, status |-> status]

conn_error_response(c, status) == Advanced(c, -1, status)

\* The header has been parsed: length, encoding and persistence of the request.
TakeHeaders(c, pret) ==
  LET r == Request[c.buf[pret][1]]
      chunked == r.chunks > 0
  IN [c EXCEPT !.header_len = pret, !.req = c.buf[pret][1], !.dangling = FALSE,
               !.content_length = IF r.length = <<>> THEN -1 ELSE parse_long_len(r.length),
               !.chunked = chunked,
               !.keep_alive = ~chunked /\ (CASE r.connection = "close" -> FALSE
                                             [] r.connection = "keep-alive" -> TRUE
                                             [] OTHER -> r.minor >= 1),
               !.decoder = "size",
               !.chunk_body = IF chunked THEN SubSeq(c.buf, pret + 1, Len(c.buf)) ELSE @,
               !.phase = "body"]

AdvanceBody(c) ==
  IF c.chunked THEN
    LET d == phr_decode_chunked(c.decoder, c.chunk_body)
        t == [c EXCEPT !.chunk_body = d.data, !.decoder = d.decoder]
    IN IF Len(c.chunk_body) > MUX_MAX_BODY_BYTES THEN conn_error_response(c, 413)
       ELSE IF d.ret = -1 THEN conn_error_response(t, 400)
       ELSE IF d.ret = -2 THEN Advanced(t, 0, 0) ELSE Advanced(t, 1, 0)
  ELSE Advanced(c, IF c.content_length > 0 /\ Len(c.buf) < c.header_len + c.content_length THEN 0 ELSE 1, 0)

conn_advance(c) ==
  IF c.phase = "body" THEN AdvanceBody(c)
  ELSE LET pret == phr_parse_request(c.buf)
           t == TakeHeaders(c, pret)
       IN CASE pret = -2 /\ Len(c.buf) > MUX_MAX_HEADER_BYTES -> conn_error_response(c, 431)
            [] pret = -2 /\ Len(c.buf) <= MUX_MAX_HEADER_BYTES -> Advanced(c, 0, 0)
            [] pret = -1 -> conn_error_response(c, 400)
            [] OTHER -> IF t.content_length = -2 \/ t.content_length > MUX_MAX_BODY_BYTES
                        THEN conn_error_response(t, 413)
                        ELSE IF Request[t.req].length # <<>> /\ t.content_length < 0
                        THEN conn_error_response(t, 400)
                        ELSE AdvanceBody(t)

\* The body handed to the handler.
BodyOf(c) ==
  IF c.chunked THEN c.chunk_body
  ELSE IF c.content_length > 0 THEN SubSeq(c.buf, c.header_len + 1, c.header_len + c.content_length)
  ELSE <<>>

\* Fault: the body of the request before is left in front of the next one.
ResetHeaderOnly(c) ==
  [c EXCEPT !.buf = SubSeq(@, c.header_len + 1, Len(@)), !.phase = "headers"]

conn_reset_for_next_request(c) ==
  LET consumed == c.header_len + IF c.content_length > 0 THEN c.content_length ELSE 0
  IN [c EXCEPT !.buf = SubSeq(@, consumed + 1, Len(@)), !.phase = "headers"]

\* No route answers 404; the handler's own status; 500 in place of whatever was
\* written when the handler or a middleware aborts.
dispatch_request(k) == IF Request[k].route = "none" THEN 404 ELSE 200

dispatch_with_recovery(k) == IF Request[k].route = "aborts" THEN 500 ELSE dispatch_request(k)

\* A request read through a buffer that moved is whatever lies there now: 0.
write_response(c) ==
  [req |-> IF c.dangling THEN 0 ELSE c.req, body |-> BodyOf(c),
   status |-> IF c.dangling THEN 404 ELSE dispatch_with_recovery(c.req)]

error_answer(c, status) == [req |-> Head(c.buf)[1], status |-> status, body |-> <<>>]

-----------------------------------------------------------------------------
(* The poll set                                                             *)

\* The connections of cs get a slot each.
slots_add(s, cs) == s \o [i \in DOMAIN cs |-> [conn |-> cs[i], ready |-> FALSE]]

\* Fault: the last slot is discarded whichever one was to go.
RemoveLast(s, i) == Front(s)

\* Swap-remove: the last slot takes the place of slot i.
slots_remove(s, i) == Front([s EXCEPT ![i] = s[Len(s)]])

-----------------------------------------------------------------------------
(* The loop                                                                 *)

Readable(c) == stream[c] # <<>> \/ c \in hungUp

\* What poll returns for.
SomethingReady == backlog # <<>> \/ \E i \in DOMAIN slots : Readable(slots[i].conn)

\* poll returns, the ready slots are marked and the whole backlog is accepted.
PollAndAccept ==
  /\ pass = 0
  /\ SomethingReady
  /\ slots' = slots_add([i \in DOMAIN slots |-> [slots[i] EXCEPT !.ready = Readable(slots[i].conn)]],
                        backlog)
  /\ conn' = [c \in MConn |-> IF Contains(backlog, c) THEN NewConn ELSE conn[c]]
  /\ backlog' = <<>>
  /\ pass' = Len(slots')
  /\ UNCHANGED <<stream, script, nsent, hungUp, answers>>

\* Slots are visited from the last to the first.  The loop over a ready one
\* receives until there is no more, the peer is gone, or a request has been
\* answered; what the client sends meanwhile is received as well.
Current == slots[pass].conn

SkipSlot ==
  /\ pass > 0 /\ ~slots[pass].ready
  /\ pass' = pass - 1
  /\ UNCHANGED <<conn, stream, script, nsent, hungUp, slots, backlog, answers>>

\* recv says that there is nothing more for now, or ever.
ReadNothing ==
  /\ pass > 0 /\ slots[pass].ready /\ stream[Current] = <<>>
  /\ pass' = pass - 1
  /\ IF Current \in hungUp
     THEN conn' = [conn EXCEPT ![Current].open = FALSE] /\ slots' = slots_remove(slots, pass)
     ELSE UNCHANGED <<conn, slots>>
  /\ UNCHANGED <<stream, script, nsent, hungUp, backlog, answers>>

\* conn_read_into, conn_advance, and the answer if there is one.
ReadMore ==
  /\ pass > 0 /\ slots[pass].ready /\ stream[Current] # <<>>
  /\ stream' = [stream EXCEPT ![Current] = Unread(@)]
  /\ \E adv \in {conn_advance(conn_read_into(conn[Current], Received(stream[Current])))} :
       LET done == [adv.c EXCEPT !.chunk_body = <<>>]
           drop == adv.r = -1 \/ (adv.r = 1 /\ ~adv.c.keep_alive)
           c == IF adv.r # 1 THEN adv.c
                ELSE IF adv.c.keep_alive THEN conn_reset_for_next_request(done) ELSE done
           said == IF adv.r = 0 THEN <<>>
                   ELSE IF adv.r = 1 THEN <<write_response(adv.c)>>
                   ELSE <<error_answer(adv.c, adv.status)>>
       IN /\ conn' = [conn EXCEPT ![Current] = [c EXCEPT !.open = ~drop]]
          /\ answers' = [answers EXCEPT ![Current] = @ \o said]
          /\ slots' = IF drop THEN slots_remove(slots, pass) ELSE slots
          /\ pass' = IF adv.r = 0 THEN pass ELSE pass - 1
  /\ UNCHANGED <<script, nsent, hungUp, backlog>>

ServeSlot == SkipSlot \/ ReadNothing \/ ReadMore

-----------------------------------------------------------------------------
(* Clients                                                                  *)

\* The pieces of the first k requests of a script.
Stream(s, k) == FoldLeft(LAMBDA all, r : all \o PiecesOf(r), <<>>, SubSeq(s, 1, k))

Connect(c, s) ==
  /\ script[c] = <<>>
  /\ script' = [script EXCEPT ![c] = s]
  /\ backlog' = Append(backlog, c)
  /\ UNCHANGED <<conn, stream, nsent, hungUp, slots, pass, answers>>

Connected(c) == Contains(backlog, c) \/ conn[c].open

\* How far a client may have sent: a whole request beyond the answers it has.
Allowance(c) ==
  IF c \in Pipelining \/ Len(answers[c]) >= Len(script[c]) THEN Len(script[c])
  ELSE Len(answers[c]) + 1

\* A client sends one piece, or a whole chunked request in one packet.
Send(c) ==
  LET all == Stream(script[c], Allowance(c))
      k == all[nsent[c] + 1][1]
      n == IF Request[k].chunks > 0 /\ ~SplitChunks THEN Len(PiecesOf(k)) ELSE 1
  IN /\ Connected(c) /\ c \notin hungUp
     /\ nsent[c] < Len(all)
     /\ stream' = [stream EXCEPT ![c] = @ \o SubSeq(all, nsent[c] + 1, nsent[c] + n)]
     /\ nsent' = [nsent EXCEPT ![c] = @ + n]
     /\ UNCHANGED <<conn, script, hungUp, slots, pass, backlog, answers>>

HangUp(c) ==
  /\ Connected(c) /\ c \notin hungUp
  /\ hungUp' = hungUp \cup {c}
  /\ UNCHANGED <<conn, stream, script, nsent, slots, pass, backlog, answers>>

MuxInit ==
  /\ conn = [c \in MConn |-> [NewConn EXCEPT !.open = FALSE]]
  /\ stream = [c \in MConn |-> <<>>]
  /\ script = [c \in MConn |-> <<>>]
  /\ nsent = [c \in MConn |-> 0]
  /\ hungUp = {}
  /\ slots = <<>> /\ pass = 0 /\ backlog = <<>>
  /\ answers = [c \in MConn |-> <<>>]

MuxNext ==
  \/ PollAndAccept \/ ServeSlot
  \/ \E c \in MConn : Send(c) \/ HangUp(c) \/ \E s \in Script[c] : Connect(c, s)

\* What PollAndAccept and ServeSlot, and no other steps, do to pass and stream.
LoopTurns ==
  \/ /\ pass > 0 /\ pass' \in {pass, pass - 1}
     /\ stream' \in {stream, [stream EXCEPT ![Current] = Unread(@)]}
  \/ pass = 0 /\ SomethingReady /\ pass' \in 1..Cardinality(MConn) /\ UNCHANGED stream

\* The loop goes on whenever poll has something to return.
MuxFairness == WF_<<pass, stream>>(LoopTurns)

-----------------------------------------------------------------------------
(* Properties                                                              *)

\* What a request may be answered.  A header beyond the limit is refused unless
\* its end is in the same read that takes it past the limit.
Allowed(r) ==
  LET n == FoldLeft(LAMBDA v, d : 10 * v + d, 0, r.length)
      digits == \A i \in DOMAIN r.length : r.length[i] \in 0..9
      refused == IF ~digits THEN {400, 413} ELSE IF n > MUX_MAX_BODY_BYTES THEN {413} ELSE {}
      served == CASE r.route = "malformed" -> {400}
                  [] r.route = "none" -> {404}
                  [] r.route = "aborts" -> {500}
                  [] OTHER -> {200}
  IN (IF r.header >= MUX_MAX_HEADER_BYTES THEN {431} ELSE {})
       \cup IF r.route # "malformed" /\ refused # {} THEN refused ELSE served

Persistent(r) == r.chunks = 0 /\ (r.connection = "keep-alive" \/ (r.connection = "none" /\ r.minor = 1))

\* Every client gets one answer per request, in the order of its requests, each
\* with the status its request calls for; the handler saw the body of that very
\* request, however the bytes were cut into reads; and after an answer that ends
\* the connection there is no other.
AnswersAreRight ==
  \A c \in MConn :
    /\ Len(answers[c]) <= Len(script[c])
    /\ \A i \in DOMAIN answers[c] :
         LET a == answers[c][i]
             k == script[c][i]
             r == Request[k]
         IN /\ a.req = k
            /\ a.status \in Allowed(r)
            /\ a.status \in {200, 404, 500} =>
                 a.body = [j \in 1..r.body |-> <<k, "body">>] \o [j \in 1..r.chunks |-> <<k, "data">>]
            /\ i < Len(answers[c]) => Persistent(r) /\ a.status \in {200, 404, 500}

\* Every connection the server has not closed is watched through one slot, and
\* no slot is left of one it has closed.
SlotsAreConns ==
  \A c \in MConn :
    Cardinality({i \in DOMAIN slots : slots[i].conn = c}) = IF conn[c].open THEN 1 ELSE 0

\* A request of c is all on its way, and not answered.
Awaits(c) == \E k \in DOMAIN script[c] : nsent[c] >= Len(Stream(script[c], k)) /\ Len(answers[c]) < k

\* A client that awaits each answer before it sends the next request gets one:
\* once all of a request is on its way it is answered, or the connection ends.
RequestsAnswered == \A c \in MConn \ Pipelining : Awaits(c) ~> (~Awaits(c) \/ ~Connected(c))

\* The event loop of mux.c serves each connection as if it were alone.
ConnectionsApart == AnswersAreRight /\ SlotsAreConns

=============================================================================
