------------------------------- MODULE Ports -------------------------------
(***************************************************************************)
(* The ports of builtins.c (string, bytevector and file ports) and the     *)
(* zstd filter ports of zstd.c stacked on them.  Every read and write goes *)
(* through one dispatch on the port's kind; a filter port calls the same   *)
(* dispatch on the port it wraps, so stacks of filters form pipelines.     *)
(*                                                                         *)
(* One file is on disk.  A byte is a number: 1, and 2 for the newline;     *)
(* compressed bytes are numbers too, so that compressed data can be        *)
(* compressed again.  A write to an output FILE stays in its stdio buffer  *)
(* until a flush or the close.                                             *)
(*                                                                         *)
(* The program under study uses each port until it closes it, closes a     *)
(* filter before what it wraps, writes only to the outermost port of a     *)
(* stack and works on one stack at a time.  The code checks none of this   *)
(* for output ports.                                                       *)
(***************************************************************************)
EXTENDS Integers, Sequences, SequencesExt, FiniteSets

CONSTANTS BLOCK,       \* bytes the compressor gathers before it emits a block
          IN_CAP,      \* st->in_cap, the compressed bytes pulled at a time
          OUT_CAP,     \* p->cap of an input filter: decoded bytes per refill
          MaxStacks, MaxDepth, MaxWrites

VARIABLES io,      \* [ports, disk, bad]: bad once a freed FILE or context is used
          sent,    \* what the program wrote to each port
          writes   \* write calls so far

portVars == <<io, sent, writes>>

EOF == -1
Newline == 2
Nothing == <<>>

-----------------------------------------------------------------------------
(* libzstd, as zstd.c uses it: a block is its length and its bytes, and a   *)
(* frame ends with an empty block                                          *)

Head0 == 10
EncodedBlock(b) == <<Head0 + Len(b)>> \o b

\* ZSTD_compressStream2: the blocks emitted, and the bytes the context keeps.
ZSTD_compressStream2(kept, in, op) ==
  LET all == kept \o in
      n == Len(all) \div BLOCK
      whole == FlattenSeq([i \in 1..n |-> EncodedBlock(SubSeq(all, BLOCK * (i - 1) + 1, BLOCK * i))])
      tail == SubSeq(all, BLOCK * n + 1, Len(all))
      flushed == whole \o IF tail = Nothing THEN Nothing ELSE EncodedBlock(tail)
  IN CASE op = "continue" -> [out |-> whole, kept |-> tail]
       [] op = "flush"    -> [out |-> flushed, kept |-> Nothing]
       [] op = "end"      -> [out |-> flushed \o EncodedBlock(Nothing), kept |-> Nothing]

RECURSIVE Decode(_)
\* The bytes of the complete blocks at the front of raw, and what is left.
Decode(raw) ==
  IF raw = Nothing \/ Head(raw) < Head0 \/ Len(raw) < 1 + Head(raw) - Head0
  THEN [out |-> Nothing, rest |-> raw]
  ELSE LET n == Head(raw) - Head0
           more == Decode(SubSeq(raw, n + 2, Len(raw)))
       IN [out |-> SubSeq(raw, 2, n + 1) \o more.out, rest |-> more.rest]

\* ZSTD_decompressStream takes all its input and hands out at most OUT_CAP bytes.
ZSTD_decompressStream(ctx, in) ==
  LET d == Decode(ctx.raw \o in)
      ready == ctx.ready \o d.out
      n == IF Len(ready) < OUT_CAP THEN Len(ready) ELSE OUT_CAP
  IN [out |-> SubSeq(ready, 1, n),
      ctx |-> [raw |-> d.rest, ready |-> SubSeq(ready, n + 1, Len(ready))]]

-----------------------------------------------------------------------------
(* State                                                                    *)

Port(kind, buf, wrapped, state) ==
  [kind |-> kind, buf |-> buf, pos |-> 0, closed |-> FALSE, freed |-> FALSE,
   wrapped |-> wrapped, state |-> state]

With(s, p, port) == [s EXCEPT !.ports[p] = port]
Bad(s) == [s EXCEPT !.bad = TRUE]

port_is_input(port) == port.kind \in {"input_string", "input_file", "input_filter"}
port_is_output(port) == port.kind \in {"output_string", "output_file", "output_filter"}

\* What an input port without a filter reads.
Content(s, p) == IF s.ports[p].kind = "input_file" THEN s.disk ELSE s.ports[p].buf

-----------------------------------------------------------------------------
(* Writing                                                                  *)

fwrite(s, p, bytes) ==
  IF s.ports[p].freed THEN Bad(s) ELSE With(s, p, [s.ports[p] EXCEPT !.buf = @ \o bytes])

fflush(s, p) ==
  IF s.ports[p].freed THEN Bad(s)
  ELSE [With(s, p, [s.ports[p] EXCEPT !.buf = Nothing]) EXCEPT !.disk = @ \o s.ports[p].buf]

fclose(s, p) ==
  LET out == IF s.ports[p].kind = "output_file" THEN fflush(s, p) ELSE s
  IN IF s.ports[p].freed THEN Bad(s) ELSE With(out, p, [out.ports[p] EXCEPT !.freed = TRUE])

RECURSIVE creme_port_write_bytes(_, _, _)

zstd_compress_drive(s, p, in, op) ==
  LET z == ZSTD_compressStream2(s.ports[p].state, in, op)
      t == With(s, p, [s.ports[p] EXCEPT !.state = z.kept])
  IN IF s.ports[p].freed THEN Bad(s)
     ELSE IF z.out = Nothing THEN t ELSE creme_port_write_bytes(t, s.ports[p].wrapped, z.out)

zstd_compress_on_write(s, p, bytes) == zstd_compress_drive(s, p, bytes, "continue")
zstd_compress_on_flush(s, p) == zstd_compress_drive(s, p, Nothing, "flush")

\* ZSTD_freeCCtx and ZSTD_freeDCtx
FreeContext(s, p) ==
  IF s.ports[p].freed THEN Bad(s) ELSE With(s, p, [s.ports[p] EXCEPT !.freed = TRUE])

zstd_compress_on_close(s, p) == FreeContext(zstd_compress_drive(s, p, Nothing, "end"), p)

creme_port_write_bytes(s, p, bytes) ==
  CASE s.ports[p].kind = "output_filter" -> zstd_compress_on_write(s, p, bytes)
    [] s.ports[p].kind = "output_file"   -> fwrite(s, p, bytes)
    [] s.ports[p].kind = "output_string" -> With(s, p, [s.ports[p] EXCEPT !.buf = @ \o bytes])
    [] OTHER -> s

\* display and newline go through this copy of the same dispatch.
write_bytes_to_port(s, p, bytes) == creme_port_write_bytes(s, p, bytes)

bi_write_string(s, p, bytes) == creme_port_write_bytes(s, p, bytes)
bi_write_char(s, p, c) == write_bytes_to_port(s, p, <<c>>)
bi_newline(s, p) == write_bytes_to_port(s, p, <<Newline>>)
bi_write_u8(s, p, b) == creme_port_write_bytes(s, p, <<b>>)
bi_write_bytevector(s, p, bytes, first, last) ==
  creme_port_write_bytes(s, p, SubSeq(bytes, first + 1, last))

RECURSIVE port_flush(_, _)
port_flush(s, p) ==
  CASE s.ports[p].kind = "output_filter" ->
         port_flush(zstd_compress_on_flush(s, p), s.ports[p].wrapped)
    [] s.ports[p].kind = "input_filter" -> port_flush(s, s.ports[p].wrapped)
    [] s.ports[p].kind = "output_file" -> fflush(s, p)
    [] OTHER -> s

Closed(s, p) == With(s, p, [s.ports[p] EXCEPT !.closed = TRUE])

zstd_decompress_on_close(s, p) == FreeContext(s, p)

RECURSIVE port_close(_, _)
port_close(s, p) ==
  CASE s.ports[p].closed -> s
    [] ~s.ports[p].closed /\ s.ports[p].kind = "output_filter" ->
         port_close(Closed(zstd_compress_on_close(s, p), p), s.ports[p].wrapped)
    [] ~s.ports[p].closed /\ s.ports[p].kind = "input_filter" ->
         port_close(Closed(zstd_decompress_on_close(s, p), p), s.ports[p].wrapped)
    [] ~s.ports[p].closed /\ s.ports[p].kind \in {"input_file", "output_file"} ->
         Closed(fclose(s, p), p)
    [] OTHER -> Closed(s, p)

-----------------------------------------------------------------------------
(* Reading: every operator returns the new state and what was read          *)

Read(s, v) == [s |-> s, v |-> v]

RECURSIVE creme_port_read_char(_, _)

RECURSIVE zstd_pull(_, _, _, _)
PullOn(r, p, got, cap) ==
  IF r.v = EOF THEN Read(r.s, got) ELSE zstd_pull(r.s, p, Append(got, r.v), cap)

zstd_pull(s, p, got, cap) ==
  IF Len(got) >= cap THEN Read(s, got) ELSE PullOn(creme_port_read_char(s, p), p, got, cap)

RECURSIVE zstd_decompress_refill(_, _, _)
\* The staging buffer holds what was pulled; nothing is the end of the port below.
Staged(pull, p) ==
  IF pull.v = Nothing
  THEN zstd_decompress_refill(With(pull.s, p, [pull.s.ports[p] EXCEPT !.state.eof = TRUE]), p, Nothing)
  ELSE zstd_decompress_refill(pull.s, p, pull.v)

Decompressed(s, p, z) ==
  CASE z.out # Nothing ->
         Read(With(s, p, [s.ports[p] EXCEPT !.state.ctx = z.ctx, !.buf = z.out, !.pos = 0]), TRUE)
    [] z.out = Nothing /\ s.ports[p].state.eof -> Read(With(s, p, [s.ports[p] EXCEPT !.state.ctx = z.ctx]), FALSE)
    [] OTHER -> Staged(zstd_pull(With(s, p, [s.ports[p] EXCEPT !.state.ctx = z.ctx]), s.ports[p].wrapped,
                                 Nothing, IN_CAP), p)

\* in is what the staging buffer holds; TRUE when there are bytes to read.
zstd_decompress_refill(s, p, in) ==
  IF s.ports[p].freed THEN Read(Bad(s), FALSE)
  ELSE Decompressed(s, p, ZSTD_decompressStream(s.ports[p].state.ctx, in))

filter_refill(s, p) ==
  IF s.ports[p].kind = "input_filter" THEN zstd_decompress_refill(s, p, Nothing) ELSE Read(s, FALSE)

\* The buffer-empty check of every read: is there a byte at pos?
Ready(s, p) ==
  IF s.ports[p].pos < Len(Content(s, p)) THEN Read(s, TRUE) ELSE filter_refill(s, p)

CharAt(r, p) == Read(r.s, IF r.v THEN Content(r.s, p)[r.s.ports[p].pos + 1] ELSE EOF)

creme_port_peek_char(s, p) == CharAt(Ready(s, p), p)

Skip(s, p, n) == With(s, p, [s.ports[p] EXCEPT !.pos = @ + n])

Consumed(r, p) == Read(IF r.v = EOF THEN r.s ELSE Skip(r.s, p, 1), r.v)

creme_port_read_char(s, p) == Consumed(creme_port_peek_char(s, p), p)

bi_read_char(s, p) == creme_port_read_char(s, p)
bi_peek_char(s, p) == creme_port_peek_char(s, p)
bi_read_u8(s, p) == creme_port_read_char(s, p)
bi_peek_u8(s, p) == creme_port_peek_char(s, p)

\* At most n of the bytes that are in the buffer.
InBuffer(s, p, n) ==
  LET bytes == Content(s, p)
      pos == s.ports[p].pos
  IN SubSeq(bytes, pos + 1, IF n < Len(bytes) - pos THEN pos + n ELSE Len(bytes))

RECURSIVE Take(_, _, _, _)
TakeOn(s, p, got, more, n) == Take(Skip(s, p, Len(more)), p, got \o more, n)

\* The loop of read-bytevector and read-bytevector!: what is in the buffer, then
\* what the next refill brings, until there are n bytes or no more.
TakeFrom(r, p, got, n) ==
  IF r.v THEN TakeOn(r.s, p, got, InBuffer(r.s, p, n - Len(got)), n) ELSE Read(r.s, got)

Take(s, p, got, n) == IF Len(got) >= n THEN Read(s, got) ELSE TakeFrom(Ready(s, p), p, got, n)

\* No byte where some were asked for is the end of file.
OrEOF(r, n) == Read(r.s, IF r.v = Nothing /\ n > 0 THEN <<EOF>> ELSE r.v)

\* Fault: what one refill brings is taken to be all there is.
OneBuffer(r, n, p) ==
  IF r.v THEN Read(Skip(r.s, p, Len(InBuffer(r.s, p, n))), InBuffer(r.s, p, n)) ELSE Read(r.s, Nothing)
TakeOneBuffer(s, n, p) == OrEOF(OneBuffer(Ready(s, p), n, p), n)

bi_read_bytevector(s, n, p) == OrEOF(Take(s, p, Nothing, n), n)

\* The bytes read replace those of bv from first on; the count, or the end.
ReadInto(r, bv, first, last) ==
  Read(r.s, [bv |-> SubSeq(bv, 1, first) \o r.v \o SubSeq(bv, first + Len(r.v) + 1, Len(bv)),
             n |-> IF r.v = Nothing /\ last > first THEN EOF ELSE Len(r.v)])

bi_read_bytevector_bang(s, bv, p, first, last) == ReadInto(Take(s, p, Nothing, last - first), bv, first, last)

\* Fewer than k characters are consumed and the answer is the end of file.
AllOrEOF(r, k) == Read(r.s, IF Len(r.v) < k THEN <<EOF>> ELSE r.v)

bi_read_string(s, k, p) == AllOrEOF(Take(s, p, Nothing, k), k)

\* The bytes before the first newline.
LineOf(bytes) ==
  LET at == SelectInSeq(bytes, LAMBDA c : c = Newline)
  IN IF at = 0 THEN bytes ELSE SubSeq(bytes, 1, at - 1)

LineFrom(r, p) ==
  LET rest == SubSeq(Content(r.s, p), r.s.ports[p].pos + 1, Len(Content(r.s, p)))
      line == LineOf(rest)
  IN IF ~r.v THEN Read(r.s, <<EOF>>)
     ELSE Read(Skip(r.s, p, IF Len(line) < Len(rest) THEN Len(line) + 1 ELSE Len(line)), line)

\* A FILE is read by getline; the other ports have the rest of one buffer.
bi_read_line(s, p) == LineFrom(Ready(s, p), p)

-----------------------------------------------------------------------------
(* Opening                                                                  *)

Sinks == {p \in DOMAIN io.ports : io.ports[p].wrapped = 0}

Open(port) ==
  /\ io' = [io EXCEPT !.ports = Append(@, port)]
  /\ sent' = Append(sent, Nothing)
  /\ UNCHANGED writes

\* One stack is open at a time: two of them share nothing but the file.
NoneOpen ==
  /\ Cardinality(Sinks) < MaxStacks
  /\ \A p \in DOMAIN io.ports : io.ports[p].closed

bi_open_output_string == NoneOpen /\ Open(Port("output_string", Nothing, 0, Nothing))

\* "w" truncates the file
bi_open_output_file ==
  /\ NoneOpen
  /\ io' = [io EXCEPT !.ports = Append(@, Port("output_file", Nothing, 0, Nothing)), !.disk = Nothing]
  /\ sent' = Append(sent, Nothing)
  /\ UNCHANGED writes

bi_open_input_string(bytes) == NoneOpen /\ Open(Port("input_string", bytes, 0, Nothing))

bi_open_input_file == NoneOpen /\ Open(Port("input_file", Nothing, 0, Nothing))

Wrapped(p) == \E q \in DOMAIN io.ports : io.ports[q].wrapped = p

\* The ports of a stack are opened one after the other.
Shallow == \A s \in Sinks : Len(io.ports) - s <= MaxDepth - 1 \/ \E t \in Sinks : t > s

bi_zstd_open_output_port(p) ==
  /\ port_is_output(io.ports[p]) /\ ~io.ports[p].closed /\ ~Wrapped(p) /\ sent[p] = Nothing /\ Shallow
  /\ Open(Port("output_filter", Nothing, p, Nothing))

RECURSIVE Remaining(_)
\* What is left to read from an open port, by the meaning of the stack.
Remaining(p) ==
  LET port == io.ports[p]
      here == SubSeq(Content(io, p), port.pos + 1, Len(Content(io, p)))
  IN IF port.kind # "input_filter" THEN here
     ELSE here \o port.state.ctx.ready \o Decode(port.state.ctx.raw \o Remaining(port.wrapped)).out

\* The decoder aborts on anything but compressed data.
bi_zstd_open_input_port(p) ==
  /\ port_is_input(io.ports[p]) /\ ~io.ports[p].closed /\ ~Wrapped(p) /\ Shallow
  /\ Decode(Remaining(p)).rest = Nothing
  /\ Open(Port("input_filter", Nothing, p,
               [ctx |-> [raw |-> Nothing, ready |-> Nothing], eof |-> FALSE]))

-----------------------------------------------------------------------------
(* The program                                                              *)

Usable(p) == ~io.ports[p].closed /\ ~Wrapped(p)

Write(p, bytes, after) ==
  /\ writes < MaxWrites /\ writes' = writes + 1
  /\ port_is_output(io.ports[p]) /\ Usable(p)
  /\ io' = after
  /\ sent' = [sent EXCEPT ![p] = @ \o bytes]

Flush(p) == Usable(p) /\ io' = port_flush(io, p) /\ UNCHANGED <<sent, writes>>

bi_close_port(p) ==
  /\ \A q \in DOMAIN io.ports : io.ports[q].wrapped = p => io.ports[q].closed
  /\ io' = port_close(io, p)
  /\ UNCHANGED <<sent, writes>>

\* Applies proc, which writes, and closes; an escape from proc skips the close.
bi_call_with_port(p, b, escapes) ==
  LET s == bi_write_u8(io, p, b)
  IN Write(p, <<b>>, IF escapes THEN s ELSE port_close(s, p))

Readable(p) == port_is_input(io.ports[p]) /\ Usable(p)

ReadStep(p, after) == Readable(p) /\ io' = after /\ UNCHANGED <<sent, writes>>

\* (file-append path data)
bi_file_append(bytes) ==
  /\ \A p \in DOMAIN io.ports : io.ports[p].closed
  /\ writes < MaxWrites /\ writes' = writes + 1
  /\ io' = [io EXCEPT !.disk = @ \o bytes]
  /\ UNCHANGED sent

RECURSIVE bi_file_lines(_)
bi_file_lines(bytes) ==
  LET line == LineOf(bytes)
  IN IF bytes = Nothing THEN Nothing
     ELSE <<line>> \o bi_file_lines(SubSeq(bytes, Len(line) + 2, Len(bytes)))

PortsInit ==
  /\ io = [ports |-> Nothing, disk |-> Nothing, bad |-> FALSE]
  /\ sent = Nothing
  /\ writes = 0

PortsNext ==
  \/ bi_open_output_string \/ bi_open_output_file \/ bi_open_input_file
  \/ bi_file_append(<<1, Newline>>)
  \/ \E p \in DOMAIN io.ports :
       \/ io.ports[p].kind = "output_string" /\ io.ports[p].closed /\ bi_open_input_string(io.ports[p].buf)
       \/ bi_zstd_open_output_port(p) \/ bi_zstd_open_input_port(p)
       \/ Write(p, <<1, Newline, 1>>, bi_write_string(io, p, <<1, Newline, 1>>))
       \/ Write(p, <<1>>, bi_write_char(io, p, 1))
       \/ Write(p, <<Newline>>, bi_newline(io, p))
       \/ Write(p, <<1, 1>>, bi_write_bytevector(io, p, <<1, 1, Newline>>, 0, 2))
       \/ \E e \in BOOLEAN : bi_call_with_port(p, 1, e)
       \/ Flush(p) \/ bi_close_port(p)
       \/ ReadStep(p, bi_read_char(io, p).s)
       \/ ReadStep(p, bi_peek_char(io, p).s)
       \/ ReadStep(p, bi_read_u8(io, p).s)
       \/ ReadStep(p, bi_peek_u8(io, p).s)
       \/ ReadStep(p, bi_read_line(io, p).s)
       \/ ReadStep(p, bi_read_string(io, 2, p).s)

-----------------------------------------------------------------------------
(* Properties                                                              *)

FirstOf(s, n) == SubSeq(s, 1, IF n < Len(s) THEN n ELSE Len(s))

\* Every reader, through any stack of filters and wherever the decoded blocks
\* begin and end, gives the next bytes of the decoded stream, once each and in
\* order, and says end of file exactly when there are none.
ReadersAgree ==
  \A p \in {q \in DOMAIN io.ports : Readable(q)} :
    LET left == Remaining(p)
        c == IF left = Nothing THEN EOF ELSE Head(left)
        next == bi_read_char(io, p)
    IN /\ bi_peek_char(io, p).v = c /\ next.v = c
       /\ bi_read_char(bi_peek_char(io, p).s, p).v = c
       /\ bi_peek_char(next.s, p).v = IF Len(left) < 2 THEN EOF ELSE left[2]
       /\ \A n \in 0..4 :
            LET got == FirstOf(left, n)
                bang == bi_read_bytevector_bang(io, <<0, 0, 0, 0>>, p, 0, n)
                k == Len(got)
            IN /\ bi_read_bytevector(io, n, p).v = (IF k = 0 /\ n > 0 THEN <<EOF>> ELSE got)
               /\ bi_read_string(io, n, p).v = (IF k < n THEN <<EOF>> ELSE got)
               /\ bang.v.n = (IF k = 0 /\ n > 0 THEN EOF ELSE k)
               /\ FirstOf(bang.v.bv, k) = got
               /\ \A j \in k + 1..4 : bang.v.bv[j] = 0
               /\ bi_peek_char(bi_read_bytevector(io, n, p).s, p).v =
                    IF Len(left) > n THEN left[n + 1] ELSE EOF

RECURSIVE DecodedThrough(_, _)
\* The bytes that reached the sink under p, decoded back up to p.
DecodedThrough(s, p) ==
  CASE s.ports[p].kind = "output_filter" -> Decode(DecodedThrough(s, s.ports[p].wrapped)).out
    [] s.ports[p].kind = "output_file"   -> s.disk
    [] s.ports[p].kind = "output_string" -> s.ports[p].buf

\* Flushing the outermost port of a stack, or closing it, puts everything the
\* program wrote to it so far within reach of a reader: no byte stays in a
\* compressor or in a stdio buffer, and the stack decodes to exactly the
\* bytes written, in order.
FlushReachesSink ==
  \A p \in {q \in DOMAIN io.ports : port_is_output(io.ports[q]) /\ Usable(q)} :
    /\ DecodedThrough(port_flush(io, p), p) = sent[p]
    /\ DecodedThrough(port_close(io, p), p) = sent[p]

\* Closing cascades to the handle and happens once: whatever the order in which
\* the ports of a stack are closed, again and again, no FILE and no compression
\* context is used or freed after it was freed, and a closed filter leaves
\* nothing open under it.
ClosedOnce ==
  /\ ~io.bad
  /\ \A p \in DOMAIN io.ports :
       io.ports[p].closed /\ io.ports[p].wrapped # 0 => io.ports[io.ports[p].wrapped].closed
  /\ \A p \in DOMAIN io.ports :
       io.ports[p].closed /\ io.ports[p].kind \notin {"input_string", "output_string"}
         => io.ports[p].freed

RECURSIVE LinesFrom(_, _)
LinesFrom(s, p) ==
  LET r == bi_read_line(s, p)
  IN IF r.v = <<EOF>> THEN Nothing ELSE <<r.v>> \o LinesFrom(r.s, p)

\* Reading a port line by line gives the lines that file-lines gives of the
\* same bytes, on every port that has no filter.
LinesAgree ==
  \A p \in {q \in DOMAIN io.ports : Readable(q) /\ io.ports[q].kind # "input_filter"} :
    LinesFrom(io, p) = bi_file_lines(Remaining(p))

\* Ports neither lose, repeat nor reorder bytes: not between buffers and
\* filters, not between readers of different kinds, and not on close.
PortsAreStreams == ReadersAgree /\ FlushReachesSink /\ ClosedOnce /\ LinesAgree

=============================================================================
