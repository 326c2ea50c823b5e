------------------------------ MODULE Buffers ------------------------------
(***************************************************************************)
(* Vectors, strings and bytevectors of icecreme (builtins.c): indexed      *)
(* access, ranges, copies into a buffer that may be the source itself,     *)
(* conversions and comparisons.                                            *)
(*                                                                         *)
(* A character is a number; a string keeps its low byte only, as the code  *)
(* does, and a byte has BYTE values.  The letters are 1 and 2 (upper case) *)
(* and 3 and 4 (lower case).  An index is an int64 that a range casts to a *)
(* 32-bit int: Int32 wraps at INT_LIMIT.  Offsets count from 0, as in C.   *)
(***************************************************************************)
EXTENDS Integers, Sequences, SequencesExt

CONSTANTS BYTE,       \* 256
          INT_LIMIT,  \* 2^31
          Char,       \* the characters stored
          MaxLen,     \* the longest buffer
          MaxIndex    \* the largest index tried

ASSUME ByteAssumption == BYTE \in Nat \ {0} /\ INT_LIMIT \in Nat \ {0}

VARIABLES kind,  \* "vector", "string" or "bytevector"
          bufs   \* two buffers of that kind

bufVars == <<kind, bufs>>

\* A call that aborts; no element and no range is negative.
failed == <<-1>>

Int32(n) == ((n + INT_LIMIT) % (2 * INT_LIMIT)) - INT_LIMIT

\* What a buffer keeps of a value: a string and a bytevector one byte.
Narrowed(k, c) == IF k = "vector" THEN c ELSE c % BYTE

-----------------------------------------------------------------------------
(* Single elements: the index is compared as the int64 it is.              *)

InBuffer(b, idx) == idx >= 0 /\ idx < Len(b)

bi_vector_ref(b, idx) == IF InBuffer(b, idx) THEN b[idx + 1] ELSE failed
bi_string_ref(b, idx) == IF InBuffer(b, idx) THEN b[idx + 1] ELSE failed
bi_bytevector_u8_ref(b, idx) == IF InBuffer(b, idx) THEN b[idx + 1] ELSE failed

bi_vector_set(b, idx, x) ==
  IF InBuffer(b, idx) THEN [b EXCEPT ![idx + 1] = x] ELSE failed

bi_string_set(b, idx, c) ==
  IF InBuffer(b, idx) THEN [b EXCEPT ![idx + 1] = Narrowed("string", c)] ELSE failed

\* The one store that refuses a value outside a byte.
bi_bytevector_u8_set(b, idx, n) ==
  IF InBuffer(b, idx) /\ n < BYTE THEN [b EXCEPT ![idx + 1] = n] ELSE failed

bi_make_vector(n, fill) == [i \in 1..n |-> fill]
bi_make_string(n, fill) == [i \in 1..n |-> Narrowed("string", fill)]
bi_make_bytevector(n, fill) == IF fill < BYTE THEN [i \in 1..n |-> fill] ELSE failed
bi_string_ctor(cs) == [i \in DOMAIN cs |-> Narrowed("string", cs[i])]
bi_bytevector(ns) == IF \A i \in DOMAIN ns : ns[i] < BYTE THEN ns ELSE failed

-----------------------------------------------------------------------------
(* Ranges.  range is the optional [start [end]] of a call, as a sequence.  *)

vector_range_args(len, range) ==
  LET first == IF Len(range) >= 1 THEN Int32(range[1]) ELSE 0
      last == IF Len(range) >= 2 THEN Int32(range[2]) ELSE len
  IN IF first < 0 \/ last > len \/ first > last THEN failed ELSE <<first, last>>

byte_range_args(len, range) == vector_range_args(len, range)

Part(b, r) == IF r = failed THEN failed ELSE SubSeq(b, r[1] + 1, r[2])

bi_vector_copy(b, range) == Part(b, vector_range_args(Len(b), range))
bi_bytevector_copy(b, range) == Part(b, byte_range_args(Len(b), range))
bi_string_copy(b, range) == Part(b, byte_range_args(Len(b), range))
bi_substring(b, range) == Part(b, byte_range_args(Len(b), range))

\* The conversions between strings, bytevectors and vectors copy a range
\* too; a vector holds whole characters, a string their low bytes.
bi_utf8_to_string(b, range) == Part(b, byte_range_args(Len(b), range))
bi_string_to_utf8(b, range) == Part(b, byte_range_args(Len(b), range))
bi_string_to_vector(b, range) == Part(b, byte_range_args(Len(b), range))

bi_vector_to_string(b, range) ==
  LET p == Part(b, byte_range_args(Len(b), range))
  IN IF p = failed THEN failed ELSE bi_string_ctor(p)

bi_string_to_list(b) == b
bi_list_to_string(cs) == bi_string_ctor(cs)

Filled(b, r, x) ==
  IF r = failed THEN failed
  ELSE [i \in DOMAIN b |-> IF i > r[1] /\ i <= r[2] THEN x ELSE b[i]]

bi_vector_fill(b, x, range) == Filled(b, vector_range_args(Len(b), range), x)
bi_string_fill_bang(b, c, range) ==
  Filled(b, byte_range_args(Len(b), range), Narrowed("string", c))

bi_vector_append(a, b) == a \o b
bi_bytevector_append(a, b) == a \o b
bi_string_append(a, b) == a \o b

-----------------------------------------------------------------------------
(* Copies into a buffer                                                    *)

\* C's memmove: as if through a buffer of its own.
memmove(to, at, from, r) ==
  [i \in DOMAIN to |->
    IF i > at /\ i <= at + r[2] - r[1] THEN from[r[1] + i - at] ELSE to[i]]

Fits32(to, at, r) == r # failed /\ at >= 0 /\ at + r[2] - r[1] <= Len(to)

\* One element after the other in the given order; a source that is the
\* destination itself is read as the loop has left it.
CopyLoop(to, at, from, first, order, same) ==
  FoldLeft(LAMBDA b, i : [b EXCEPT ![at + i + 1] = IF same THEN b[first + i + 1]
                                                   ELSE from[first + i + 1]],
           to, order)

\* Fault: always from the first element on.
ForwardCopy(to, at, from, range, same) ==
  LET r == vector_range_args(Len(from), range)
  IN IF ~Fits32(to, at, r) THEN failed
     ELSE CopyLoop(to, at, from, r[1], [i \in 1..(r[2] - r[1]) |-> i - 1], same)

bi_vector_copy_bang(to, at, from, range, same) ==
  LET r == vector_range_args(Len(from), range)
      n == r[2] - r[1]
  IN IF ~Fits32(to, at, r) THEN failed
     ELSE CopyLoop(to, at, from, r[1],
                   IF same /\ at > r[1] THEN [i \in 1..n |-> n - i]
                   ELSE [i \in 1..n |-> i - 1], same)

bi_bytevector_copy_bang(to, at, from, range) ==
  LET r == byte_range_args(Len(from), range)
  IN IF Fits32(to, at, r) THEN memmove(to, at, from, r) ELSE failed

bi_string_copy_bang(to, at, from, range) ==
  LET r == byte_range_args(Len(from), range)
  IN IF Fits32(to, at, r) THEN memmove(to, at, from, r) ELSE failed

\* The element-wise maps stop at the shortest argument; the procedure here
\* returns its first argument.
Shorter(a, b) == IF Len(a) < Len(b) THEN Len(a) ELSE Len(b)
bi_vector_map(a, b) == SubSeq(a, 1, Shorter(a, b))
bi_string_map(a, b) == bi_string_ctor(SubSeq(a, 1, Shorter(a, b)))

\* The arguments of each call, in order; a character is read as a byte.
bi_vector_for_each(a, b) == [i \in 1..Shorter(a, b) |-> <<a[i], b[i]>>]
bi_string_for_each(a, b) == [i \in 1..Shorter(a, b) |-> <<a[i] % BYTE, b[i] % BYTE>>]

-----------------------------------------------------------------------------
(* Characters and comparisons                                              *)

bi_char_downcase(c) == IF c \in {1, 2} THEN c + 2 ELSE c
bi_char_upcase(c) == IF c \in {3, 4} THEN c - 2 ELSE c
bi_char_foldcase(c) == bi_char_downcase(c)

\* A C char is signed: it is negative from half a byte on.
Signed(c) == IF c % BYTE >= BYTE \div 2 THEN (c % BYTE) - BYTE ELSE c % BYTE

creme_ascii_lower(c) == bi_char_downcase(Signed(c))

ChainOf(ok(_), Cmp(_, _), args) ==
  \A i \in 1..(Len(args) - 1) : ok(Cmp(args[i], args[i + 1]))

\* The five answers to a comparison's sign.
str_lt(c) == c < 0
str_gt(c) == c > 0
str_le(c) == c <= 0
str_ge(c) == c >= 0
sci_eq(c) == c = 0

CharDiff(a, b) == a - b
bi_char_eq(args) == ChainOf(sci_eq, CharDiff, args)
bi_char_lt(args) == ChainOf(str_lt, CharDiff, args)
bi_char_gt(args) == ChainOf(str_gt, CharDiff, args)
bi_char_le(args) == ChainOf(str_le, CharDiff, args)
bi_char_ge(args) == ChainOf(str_ge, CharDiff, args)

char_ci_chain(ok(_), args) ==
  ChainOf(ok, LAMBDA a, b : creme_ascii_lower(a) - creme_ascii_lower(b), args)

\* The first difference decides, then the lengths.
FirstDiff(a, b, Key(_)) ==
  LET diffs == SelectSeq([i \in 1..Shorter(a, b) |-> i],
                         LAMBDA i : Key(a[i]) # Key(b[i]))
  IN IF diffs # <<>> THEN Key(a[diffs[1]]) - Key(b[diffs[1]]) ELSE Len(a) - Len(b)

string_pair_cmp(a, b) == FirstDiff(a, b, LAMBDA c : c)
string_ci_pair_cmp(a, b) == FirstDiff(a, b, creme_ascii_lower)

string_chain(ok(_), args) == ChainOf(ok, string_pair_cmp, args)
string_ci_chain(ok(_), args) == ChainOf(ok, string_ci_pair_cmp, args)

bi_string_eq(args) == \A i \in 1..(Len(args) - 1) : args[i] = args[i + 1]

-----------------------------------------------------------------------------
(* The machine                                                             *)

Index == (-1)..MaxIndex
RangeArg == {<<>>} \cup {<<a>> : a \in Index} \cup {<<a, b>> : a, b \in Index}

buffer_ref(b, idx) ==
  CASE kind = "vector" -> bi_vector_ref(b, idx)
    [] kind = "string" -> bi_string_ref(b, idx)
    [] OTHER -> bi_bytevector_u8_ref(b, idx)

buffer_set(b, idx, x) ==
  CASE kind = "vector" -> bi_vector_set(b, idx, x)
    [] kind = "string" -> bi_string_set(b, idx, x)
    [] OTHER -> bi_bytevector_u8_set(b, idx, x)

Copy(b, range) ==
  CASE kind = "vector" -> bi_vector_copy(b, range)
    [] kind = "string" -> bi_string_copy(b, range)
    [] OTHER -> bi_bytevector_copy(b, range)

CopyBang(to, at, from, range, same) ==
  CASE kind = "vector" -> bi_vector_copy_bang(to, at, from, range, same)
    [] kind = "string" -> bi_string_copy_bang(to, at, from, range)
    [] OTHER -> bi_bytevector_copy_bang(to, at, from, range)

Fill(b, x, range) ==
  CASE kind = "vector" -> bi_vector_fill(b, x, range)
    [] kind = "string" -> bi_string_fill_bang(b, x, range)
    [] OTHER -> failed

Made1(n, x) ==
  CASE kind = "vector" -> bi_make_vector(n, x)
    [] kind = "string" -> bi_make_string(n, x)
    [] OTHER -> bi_make_bytevector(n, x)

\* What the other procedures make of two buffers.
Derived(a, b, range) ==
  CASE kind = "vector" ->
         {bi_vector_append(a, b), bi_vector_map(a, b),
          bi_string_to_vector(bi_list_to_string(a), range)}
    [] kind = "string" ->
         {bi_string_append(a, b), bi_string_map(a, b), bi_substring(a, range),
          bi_utf8_to_string(a, range), bi_vector_to_string(bi_string_to_list(a), range)}
    [] OTHER -> {bi_bytevector_append(a, b), bi_bytevector(a), bi_string_to_utf8(a, range)}

BuffersInit == kind \in {"vector", "string", "bytevector"} /\ bufs = <<<<>>, <<>>>>

\* A call that aborts changes nothing.
Replace(w, b) ==
  /\ b # failed
  /\ Len(b) <= MaxLen
  /\ bufs' = [bufs EXCEPT ![w] = b]
  /\ UNCHANGED kind

BuffersNext ==
  \E w, s \in {1, 2}, range \in RangeArg, x \in Char :
    \/ \E n \in 0..MaxLen : range = <<>> /\ s = 1 /\ Replace(w, Made1(n, x))
    \/ \E idx \in Index : range = <<>> /\ s = 1 /\ Replace(w, buffer_set(bufs[w], idx, x))
    \/ s = w /\ Replace(w, Fill(bufs[w], x, range))
    \/ Replace(w, Copy(bufs[s], range))
    \/ \E b \in Derived(bufs[s], bufs[3 - s], range) : Replace(w, b)
    \/ \E at \in Index : Replace(w, CopyBang(bufs[w], at, bufs[s], range, s = w))

-----------------------------------------------------------------------------
(* Properties                                                              *)

\* Whether a range as written lies in a buffer of that length.
InRange(len, range) ==
  LET first == IF Len(range) >= 1 THEN range[1] ELSE 0
      last == IF Len(range) >= 2 THEN range[2] ELSE len
  IN 0 <= first /\ first <= last /\ last <= len

\* A call is answered exactly when its range lies in the buffer, and then
\* with the elements of that range: no index is read around a boundary.
RangesAreChecked ==
  \A s \in DOMAIN bufs, range \in RangeArg :
    LET part == Copy(bufs[s], range)
    IN /\ (part # failed) <=> InRange(Len(bufs[s]), range)
       /\ part # failed =>
            \A i \in DOMAIN part :
              part[i] = buffer_ref(bufs[s], i - 1 + (IF range = <<>> THEN 0 ELSE range[1]))

\* copy! behaves as if the source range had been copied out first, also when
\* source and destination are one buffer and the ranges overlap either way,
\* and it touches nothing outside the destination range.
CopyAsIfThroughCopy ==
  \A s \in DOMAIN bufs, at \in Index, range \in RangeArg :
    LET out == CopyBang(bufs[1], at, bufs[s], range, s = 1)
        part == Copy(bufs[s], range)
    IN out # failed =>
         /\ Len(out) = Len(bufs[1])
         /\ SubSeq(out, at + 1, at + Len(part)) = part
         /\ \A i \in DOMAIN out :
              (i <= at \/ i > at + Len(part)) => out[i] = bufs[1][i]

Ascii(b) == \A i \in DOMAIN b : b[i] < BYTE \div 2

\* The string orders are total orders, string-ci<? is one on the lowered
\* strings, and on ASCII strings both agree with the order of characters.
StringOrders ==
  kind = "string" =>
    LET a == bufs[1]
        b == bufs[2]
        lower(s) == [i \in DOMAIN s |-> bi_char_foldcase(s[i])]
        raise(s) == [i \in DOMAIN s |-> bi_char_upcase(s[i])]
    IN /\ string_chain(str_lt, <<a, b>>) # string_chain(str_ge, <<a, b>>)
       /\ string_chain(str_gt, <<a, b>>) # string_chain(str_le, <<a, b>>)
       /\ bi_string_eq(<<a, b>>) <=> string_chain(str_le, <<a, b, a>>)
       /\ string_ci_chain(sci_eq, <<a, b>>) <=> lower(a) = lower(b)
       /\ string_ci_chain(sci_eq, <<a, raise(a)>>)
       /\ Ascii(a) /\ Ascii(b) =>
            (string_ci_chain(str_lt, <<a, b>>) <=>
             string_chain(str_lt, <<lower(a), lower(b)>>))
       /\ Len(a) = 1 /\ Len(b) = 1 =>
            /\ bi_char_lt(<<a[1], b[1]>>) <=> string_chain(str_lt, <<a, b>>)
            /\ bi_char_gt(<<a[1], b[1]>>) # bi_char_le(<<a[1], b[1]>>)
            /\ bi_char_eq(<<a[1], b[1]>>) <=> bi_char_ge(<<a[1], b[1], a[1]>>)
            /\ char_ci_chain(str_lt, <<a[1], b[1]>>) <=> string_ci_chain(str_lt, <<a, b>>)

\* for-each calls its procedure with the elements that map maps, in their
\* order and none beyond the shortest argument.
ForEachVisits ==
  Len(bufs) = 2 /\ kind # "bytevector" =>
    LET a == bufs[1]
        b == bufs[2]
        calls == IF kind = "vector" THEN bi_vector_for_each(a, b) ELSE bi_string_for_each(a, b)
    IN /\ [i \in DOMAIN calls |-> calls[i][1]] = IF kind = "vector" THEN bi_vector_map(a, b) ELSE bi_string_map(a, b)
       /\ [i \in DOMAIN calls |-> calls[i][2]] = IF kind = "vector" THEN bi_vector_map(b, a) ELSE bi_string_map(b, a)

\* The ranges, copies and orders of vectors, strings and bytevectors agree with
\* those of sequences.
BuffersAgree == RangesAreChecked /\ CopyAsIfThroughCopy /\ StringOrders /\ ForEachVisits

=============================================================================
