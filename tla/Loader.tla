------------------------------- MODULE Loader --------------------------------
(***************************************************************************)
(* Bytecode files: the compiler's writer (compile/chunk_serializer.cr) and *)
(* the loader of icecreme (icecreme/loader.c), that must rebuild what was  *)
(* written, and must refuse what is truncated or damaged.                  *)
(*                                                                         *)
(* The body of a file is a sequence of numbers.  A chunk is a record whose *)
(* data are tuples that begin with their kind; pairs, vectors and strings  *)
(* are behind addresses in a memory, as sharing and cycles matter.  Of an  *)
(* instruction's operands only the one that indexes a pool is kept, and of *)
(* its position the line; the string pool is a sequence of names, and the  *)
(* descriptors of upvalues are left out.                                   *)
(***************************************************************************)
EXTENDS DatumGraphs, SequencesExt, FiniteSetsExt

CONSTANTS Program,          \* what the compiler produces: memory and chunk
          OpCode,           \* operation -> its number
          LABELS_CAP,       \* CREME_DATUM_LABELS_CAP
          MAX_COUNT,        \* CREME_LOADER_MAX_COUNT
          MAX_DATUM_DEPTH, MAX_QQ_DEPTH, MAX_CHUNK_DEPTH,
          GLOBALS_CAP,
          Damage            \* numbers that damaged ones turn into

VARIABLES ld   \* program, file, whether it is intact, globals, result

TAG_INT == 0
TAG_SYM == 4
TAG_STR == 5
TAG_NIL == 7
TAG_PAIR == 9
TAG_VECTOR == 10
TAG_BUILTIN == 12
TAG_LABEL_DEF == 13
TAG_LABEL_REF == 14

QQ_CONST == 0
QQ_HOLE == 1
QQ_LIST_TAG == 3
QQ_VECTOR_TAG == 4

CDK_INT == 0
CDK_SYM == 2

-----------------------------------------------------------------------------
(* The writer                                                              *)

\* The containers that count_datum_visits meets more than once.
count_datum_visits(mem, v) == Shared(mem, v)

IndexOf(s, x) == CHOOSE i \in DOMAIN s : s[i] = x

\* w is what was written, and the shared containers among it in order.
RECURSIVE write_datum_rec(_, _, _, _, _)
write_datum_rec(mem, v, shared, pool, w) ==
  LET Pooled(tag) == [w EXCEPT !.out = @ \o <<tag, IndexOf(pool, v[3]) - 1>>]
      known == IsContainer(v) /\ v[2] \in Range(w.labels)
      labelled == IF IsContainer(v) /\ v[2] \in shared
                  THEN [out |-> w.out \o <<TAG_LABEL_DEF, Len(w.labels)>>, labels |-> Append(w.labels, v[2])]
                  ELSE w
      Each(first) == FoldLeft(LAMBDA x, item : write_datum_rec(mem, item, shared, pool, x),
                              [labelled EXCEPT !.out = @ \o first], mem[v[2]])
  IN CASE known -> [w EXCEPT !.out = @ \o <<TAG_LABEL_REF, IndexOf(w.labels, v[2]) - 1>>]
       [] v[1] = "int" -> [w EXCEPT !.out = @ \o <<TAG_INT, v[2]>>]
       [] v[1] = "nil" -> [w EXCEPT !.out = @ \o <<TAG_NIL>>]
       [] v[1] = "sym" -> Pooled(TAG_SYM)
       [] v[1] = "str" -> Pooled(TAG_STR)
       [] v[1] = "builtin" -> Pooled(TAG_BUILTIN)
       [] v[1] = "pair" /\ ~known -> Each(<<TAG_PAIR>>)
       [] v[1] = "vector" /\ ~known -> Each(<<TAG_VECTOR, Len(mem[v[2]])>>)

write_datum(mem, v, pool) ==
  write_datum_rec(mem, v, count_datum_visits(mem, v), pool, [out |-> <<>>, labels |-> <<>>]).out

RECURSIVE write_qq_template(_, _, _)
write_qq_template(mem, t, pool) ==
  LET Items == FlattenSeq([i \in DOMAIN t[2] |-> write_qq_template(mem, t[2][i], pool)])
  IN CASE t[1] = "const" -> <<QQ_CONST>> \o write_datum(mem, t[2], pool)
       [] t[1] = "hole" -> <<QQ_HOLE>>
       [] t[1] = "list" -> <<QQ_LIST_TAG, Len(t[2])>> \o Items \o write_qq_template(mem, t[3], pool)
       [] t[1] = "vector" -> <<QQ_VECTOR_TAG, Len(t[2])>> \o Items

\* An entry is <<kind, number or name, target>>.
write_case_dispatch_table(t, pool) ==
  <<t.default, Len(t.entries)>> \o
  FlattenSeq([i \in DOMAIN t.entries |->
    LET e == t.entries[i]
    IN IF e[1] = "int" THEN <<CDK_INT, e[2], e[3]>> ELSE <<CDK_SYM, IndexOf(pool, e[2]) - 1, e[3]>>])

RECURSIVE write_chunk(_, _, _)
write_chunk(mem, c, pool) ==
  LET Counted(s, Write(_)) == <<Len(s)>> \o FlattenSeq([i \in DOMAIN s |-> Write(s[i])])
      Instr(ins) == <<OpCode[ins.op], ins.x>> \o (IF ins.line = 0 THEN <<0>> ELSE <<1, ins.line>>)
      Datum(v) == write_datum(mem, v, pool)
      Proto(p) == write_chunk(mem, p, pool)
      Qq(t) == write_qq_template(mem, t, pool)
      Table(t) == write_case_dispatch_table(t, pool)
  IN Counted(c.instrs, Instr) \o Counted(c.consts, Datum) \o Counted(c.protos, Proto)
       \o <<IndexOf(pool, c.name) - 1>> \o Counted(c.qq, Qq) \o Counted(c.cases, Table)

serialize(p) ==
  [version |-> 1, families |-> p.families, pool |-> p.pool, body |-> write_chunk(p.mem, p.chunk, p.pool)]

-----------------------------------------------------------------------------
(* The reader: where it is, whether it has given up, what it read last     *)

Reader(globals) ==
  [pos |-> 1, ok |-> TRUE, val |-> 0, mem |-> <<>>, labels |-> <<>>, globals |-> globals,
   datum_depth |-> 0, qq_depth |-> 0, chunk_depth |-> 0]

\* creme_abort: the load is given up.
Refuse(r) == [r EXCEPT !.ok = FALSE, !.val = 0]

Gives(r, v) == [r EXCEPT !.val = v]

must_read(f, r) ==
  IF ~r.ok \/ r.pos > Len(f.body) THEN Refuse(r) ELSE [r EXCEPT !.val = f.body[r.pos], !.pos = @ + 1]

read_count(f, r) ==
  LET n == must_read(f, r) IN IF n.ok /\ n.val \notin 0..MAX_COUNT THEN Refuse(n) ELSE n

read_pooled_string(f, r) ==
  LET i == must_read(f, r)
  IN IF i.ok /\ i.val \in 0..(Len(f.pool) - 1) THEN Gives(i, f.pool[i.val + 1]) ELSE Refuse(i)

\* Nothing to add without a label.
datum_label_add(r, id, v) ==
  IF id < 0 THEN r
  ELSE IF Len(r.labels) >= LABELS_CAP THEN Refuse(r)
  ELSE [r EXCEPT !.labels = Append(@, <<id, v>>)]

datum_label_find(r, id) ==
  LET k == SelectInSeq(r.labels, LAMBDA l : l[1] = id)
  IN IF k = 0 THEN Refuse(r) ELSE Gives(r, r.labels[k][2])

\* Builtins are looked up by name; one that is not there becomes ().
resolve_builtin_const(r, name) ==
  IF name \in Range(r.globals) THEN <<"builtin", 0, name>> ELSE <<"nil", 0>>

RECURSIVE read_datum_rec(_, _)

\* Data one after the other, into the container at address a.
RECURSIVE read_into(_, _, _, _, _)
Into(f, x, a, i, n) ==
  read_into(f, [x EXCEPT !.mem[a] = IF x.ok THEN Append(@, x.val) ELSE @], a, i + 1, n)

read_into(f, r, a, i, n) ==
  IF ~r.ok \/ i > n THEN r ELSE Into(f, read_datum_rec(f, r), a, i, n)

\* A container is labelled before its contents are read, as they may refer
\* to it.
read_container(f, r, kind, id, n) ==
  LET a == Len(r.mem) + 1
      x == read_into(f, datum_label_add([r EXCEPT !.mem = Append(@, <<>>)], id, <<kind, a>>), a, 1, n)
  IN Gives(x, <<kind, a>>)

\* A string can be changed in place, so that each gets storage of its own.
copy_string(r, s) == [r EXCEPT !.mem = Append(@, <<>>), !.val = <<"str", Len(r.mem) + 1, s>>]

read_datum_rec_impl(f, r) ==
  LET first == must_read(f, r)
      id == must_read(f, first)
      defined == first.ok /\ first.val = TAG_LABEL_DEF
      t == IF defined THEN must_read(f, id) ELSE first
      def_id == IF defined THEN id.val ELSE -1
      Labelled(x) == IF x.ok THEN datum_label_add(x, def_id, x.val) ELSE x
      s == read_pooled_string(f, t)
      n == read_count(f, t)
      i == must_read(f, t)
  IN IF ~t.ok THEN Refuse(t)
     ELSE IF ~defined /\ t.val = TAG_LABEL_REF THEN (IF i.ok THEN datum_label_find(i, i.val) ELSE i)
     ELSE CASE t.val = TAG_INT -> Labelled(IF i.ok THEN Gives(i, <<"int", i.val>>) ELSE i)
            [] t.val = TAG_NIL -> Labelled(Gives(t, <<"nil", 0>>))
            [] t.val = TAG_SYM -> Labelled(IF s.ok THEN Gives(s, <<"sym", 0, s.val>>) ELSE s)
            [] t.val = TAG_STR -> Labelled(IF s.ok THEN copy_string(s, s.val) ELSE s)
            [] t.val = TAG_BUILTIN -> Labelled(IF s.ok THEN Gives(s, resolve_builtin_const(s, s.val)) ELSE s)
            [] t.val = TAG_PAIR -> read_container(f, t, "pair", def_id, 2)
            [] t.val = TAG_VECTOR -> IF n.ok THEN read_container(f, n, "vector", def_id, n.val) ELSE n
            [] OTHER -> Refuse(t)

read_datum_rec(f, r) ==
  IF ~r.ok \/ r.datum_depth >= MAX_DATUM_DEPTH THEN Refuse(r)
  ELSE [read_datum_rec_impl(f, [r EXCEPT !.datum_depth = @ + 1]) EXCEPT !.datum_depth = @ - 1]

\* Fault: labels of the data before are still known.
KeepLabels(f, r) == read_datum_rec(f, [r EXCEPT !.datum_depth = 0])

\* The scope of a label is the outermost datum that it appears in.
read_datum(f, r) == read_datum_rec(f, [r EXCEPT !.labels = <<>>, !.datum_depth = 0])

-----------------------------------------------------------------------------
(* Chunks                                                                  *)

RECURSIVE read_one(_, _, _)

\* n things of a kind, as a sequence.
RECURSIVE read_many(_, _, _, _, _)
More(f, x, what, n, got) == read_many(f, x, what, n, IF x.ok THEN Append(got, x.val) ELSE got)

read_many(f, r, what, n, got) ==
  IF ~r.ok THEN r
  ELSE IF Len(got) = n THEN Gives(r, got)
  ELSE More(f, read_one(f, r, what), what, n, got)

read_counted(f, r, what) ==
  LET n == read_count(f, r) IN IF n.ok THEN read_many(f, n, what, n.val, <<>>) ELSE n

Tagged(x, kind) == IF x.ok THEN Gives(x, <<kind, x.val>>) ELSE x

\* The items of a list are followed by its tail.
WithTail(items, tail) ==
  IF items.ok /\ tail.ok THEN Gives(tail, <<"list", items.val, tail.val>>) ELSE Refuse(items)
ThenTail(f, items) == WithTail(items, read_one(f, items, "qq"))

\* What follows the tag t of a template.
QqAfter(f, t) ==
  CASE ~t.ok -> t
    [] t.ok /\ t.val = QQ_CONST -> Tagged(read_datum(f, t), "const")
    [] t.ok /\ t.val = QQ_HOLE -> Gives(t, <<"hole">>)
    [] t.ok /\ t.val = QQ_LIST_TAG -> ThenTail(f, read_counted(f, t, "qq"))
    [] t.ok /\ t.val = QQ_VECTOR_TAG -> Tagged(read_counted(f, t, "qq"), "vector")
    [] OTHER -> Refuse(t)

read_qq_template(f, r) ==
  IF ~r.ok \/ r.qq_depth >= MAX_QQ_DEPTH THEN Refuse(r)
  ELSE [QqAfter(f, must_read(f, [r EXCEPT !.qq_depth = @ + 1])) EXCEPT !.qq_depth = @ - 1]

read_case_entry(f, r) ==
  LET t == must_read(f, r)
      k == IF t.ok /\ t.val = CDK_INT THEN must_read(f, t)
           ELSE IF t.ok /\ t.val = CDK_SYM THEN read_pooled_string(f, t)
           ELSE Refuse(t)
      e == must_read(f, k)
  IN IF k.ok /\ e.ok THEN Gives(e, <<IF t.val = CDK_INT THEN "int" ELSE "sym", k.val, e.val>>) ELSE Refuse(e)

TableOf(d, es) ==
  IF d.ok /\ es.ok THEN Gives(es, [default |-> d.val, entries |-> es.val]) ELSE Refuse(es)
TableAfter(f, d) == TableOf(d, read_counted(f, d, "entry"))

read_case_dispatch_table(f, r) == TableAfter(f, must_read(f, r))

read_instruction(f, r) ==
  LET op == must_read(f, r)
      x == must_read(f, op)
      has == must_read(f, x)
      line == IF has.ok /\ has.val # 0 THEN must_read(f, has) ELSE Gives(has, 0)
  IN IF line.ok /\ op.val \in Range(OpCode) THEN Gives(line, [op |-> op.val, x |-> x.val, line |-> line.val])
     ELSE Refuse(line)

\* A position is written when it changes: without one it is that of the
\* instruction before.
inherit_positions(instrs) ==
  FoldLeft(LAMBDA done, ins :
             Append(done, IF ins.line = 0 /\ done # <<>> THEN [ins EXCEPT !.line = Last(done).line] ELSE ins),
           <<>>, instrs)

\* The parts of a chunk in the order of the file: field and kind.
Parts ==
  <<<<"instrs", "instruction">>, <<"consts", "datum">>, <<"protos", "chunk">>, <<"name", "name">>,
    <<"qq", "qq">>, <<"cases", "table">>>>

WithPart(x, c, field) == IF x.ok THEN Gives(x, [c EXCEPT ![field] = x.val]) ELSE x

\* The next part; r.val is the chunk so far.
read_part(f, r, part) ==
  WithPart(IF part[2] = "name" THEN read_pooled_string(f, r) ELSE read_counted(f, r, part[2]), r.val, part[1])

WithPositions(x) == IF x.ok THEN [x EXCEPT !.val.instrs = inherit_positions(@)] ELSE x

read_chunk_impl(f, r) ==
  LET empty == [field \in {p[1] : p \in Range(Parts)} |-> <<>>]
  IN WithPositions(FoldLeft(LAMBDA x, part : read_part(f, x, part), Gives(r, empty), Parts))

read_chunk(f, r) ==
  IF ~r.ok \/ r.chunk_depth >= MAX_CHUNK_DEPTH THEN Refuse(r)
  ELSE [read_chunk_impl(f, [r EXCEPT !.chunk_depth = @ + 1]) EXCEPT !.chunk_depth = @ - 1]

read_one(f, r, what) ==
  CASE what = "datum" -> read_datum(f, r)
    [] what = "qq" -> read_qq_template(f, r)
    [] what = "instruction" -> read_instruction(f, r)
    [] what = "chunk" -> read_chunk(f, r)
    [] what = "entry" -> read_case_entry(f, r)
    [] what = "table" -> read_case_dispatch_table(f, r)

-----------------------------------------------------------------------------
(* What is checked and resolved after reading                              *)

check_pool_index(i, s) == i \in 0..(Len(s) - 1)

\* The pool that an operation's operand indexes.
PoolOf(c, op) ==
  CASE op = OpCode["loadk"] -> c.consts
    [] op = OpCode["quasiquote"] -> c.qq
    [] op = OpCode["casedispatch"] -> c.cases
    [] op = OpCode["closure"] -> c.protos
    [] OTHER -> c.consts

RECURSIVE validate_chunk(_)
validate_chunk(c) ==
  /\ \A i \in DOMAIN c.instrs :
       LET ins == c.instrs[i]
       IN ins.op \in {OpCode[o] : o \in {"loadk", "quasiquote", "casedispatch", "closure"}} =>
            check_pool_index(ins.x, PoolOf(c, ins.op))
  /\ \A i \in DOMAIN c.protos : validate_chunk(c.protos[i])

global_name_const(c, x) ==
  IF check_pool_index(x, c.consts) /\ c.consts[x + 1][1] \in {"sym", "str"} THEN <<c.consts[x + 1][3]>> ELSE <<>>

\* creme_global_intern, on the names of the global table.
intern(g, name) == IF name \in Range(g) \/ Len(g) >= GLOBALS_CAP THEN g ELSE Append(g, name)

\* Each operand that names a global becomes its slot; what was interned
\* before an error stays.
RECURSIVE resolve_chunk(_, _)
resolve_chunk(c, start) ==
  LET Step(z, i) ==
        LET ins == c.instrs[i]
            name == global_name_const(c, ins.x)
            g == IF name = <<>> THEN z.g ELSE intern(z.g, name[1])
        IN IF ~z.ok \/ ins.op \notin {OpCode["getglobal"], OpCode["callglobal"]} THEN z
           ELSE IF name = <<>> THEN [z EXCEPT !.ok = FALSE]
           ELSE IF name[1] \notin Range(g) THEN [z EXCEPT !.ok = FALSE]
           ELSE [z EXCEPT !.g = g, !.c.instrs[i].x = IndexOf(g, name[1]) - 1]
      Nested(z, i) ==
        LET p == resolve_chunk(z.c.protos[i], z.g)
        IN IF z.ok THEN [ok |-> p.ok, g |-> p.g, c |-> [z.c EXCEPT !.protos[i] = p.c]] ELSE z
      own == FoldLeft(Step, [ok |-> TRUE, g |-> start, c |-> c], [i \in DOMAIN c.instrs |-> i])
  IN FoldLeft(Nested, own, [i \in DOMAIN c.protos |-> i])

check_magic_and_version(f) == f.version = 1

Resolved(r, z) == [ok |-> z.ok, g |-> z.g, c |-> z.c, mem |-> r.mem]

\* creme_load_from_bytes: read, check, resolve.
CheckedLoad(f, r, globals) ==
  IF check_magic_and_version(f) /\ r.ok /\ validate_chunk(r.val)
  THEN Resolved(r, resolve_chunk(r.val, globals))
  ELSE [ok |-> FALSE, g |-> globals, c |-> 0, mem |-> <<>>]

creme_load(f, globals) == CheckedLoad(f, read_chunk(f, Reader(globals)), globals)

\* The builtins of a family that is required are registered by name.
creme_register_required_builtins(g, families) == FoldLeft(intern, g, families)

-----------------------------------------------------------------------------

LoaderInit ==
  \E p \in Program :
    ld = [program |-> p, file |-> serialize(p), intact |-> TRUE, globals |-> <<"car">>, loads |-> 0,
          result |-> [ok |-> FALSE, g |-> <<>>, c |-> 0, mem |-> <<>>]]

\* The file is cut short, one number in it is another, or it is of another
\* version.
DamageFile ==
  /\ ld.intact /\ ld.loads = 0
  /\ \/ \E i \in DOMAIN ld.file.body, x \in Damage :
          ld' = [ld EXCEPT !.intact = FALSE, !.file.body[i] = x]
     \/ \E n \in 0..(Len(ld.file.body) - 1) :
          ld' = [ld EXCEPT !.intact = FALSE, !.file.body = SubSeq(@, 1, n)]
     \/ ld' = [ld EXCEPT !.intact = FALSE, !.file.version = 2]

\* load-chunk-bytes: what the chunk requires is registered after loading it.
bi_load_chunk_bytes ==
  /\ ld.loads = 0
  /\ LET r == creme_load(ld.file, ld.globals)
     IN ld' = [ld EXCEPT !.loads = 1, !.result = r,
                         !.globals = IF r.ok THEN creme_register_required_builtins(r.g, ld.file.families) ELSE r.g]

\* Another program is loaded into the same VM.
LoadAnother ==
  /\ ld.loads = 1 /\ ld.intact
  /\ \E p \in Program :
       ld' = [ld EXCEPT !.globals = creme_load(serialize(p), ld.globals).g, !.loads = 2]

LoaderNext == DamageFile \/ bi_load_chunk_bytes \/ LoadAnother

-----------------------------------------------------------------------------
(* Properties                                                              *)

RECURSIVE SameTemplate(_, _, _, _)
SameTemplate(m, t, n, u) ==
  /\ t[1] = u[1]
  /\ t[1] = "const" => Same(m, t[2], n, u[2])
  /\ t[1] = "list" => SameTemplate(m, t[3], n, u[3])
  /\ t[1] \in {"list", "vector"} =>
       Len(t[2]) = Len(u[2]) /\ \A i \in DOMAIN t[2] : SameTemplate(m, t[2][i], n, u[2][i])

\* The line of an instruction: the last one written up to it.
LineAt(instrs, i) ==
  LET L == {k \in 1..i : instrs[k].line # 0} IN IF L = {} THEN 0 ELSE instrs[Max(L)].line

GlobalOps == {"getglobal", "callglobal"}

RECURSIVE SameChunk(_, _, _, _, _)
SameChunk(m, c, n, d, g) ==
  /\ Len(c.instrs) = Len(d.instrs)
  /\ \A i \in DOMAIN c.instrs :
       /\ OpCode[c.instrs[i].op] = d.instrs[i].op /\ d.instrs[i].line = LineAt(c.instrs, i)
       /\ IF c.instrs[i].op \in GlobalOps THEN g[d.instrs[i].x + 1] = c.consts[c.instrs[i].x + 1][3]
          ELSE d.instrs[i].x = c.instrs[i].x
  /\ Len(c.consts) = Len(d.consts) /\ \A i \in DOMAIN c.consts : Same(m, c.consts[i], n, d.consts[i])
  /\ Len(c.qq) = Len(d.qq) /\ \A i \in DOMAIN c.qq : SameTemplate(m, c.qq[i], n, d.qq[i])
  /\ c.cases = d.cases /\ c.name = d.name
  /\ Len(c.protos) = Len(d.protos) /\ \A i \in DOMAIN c.protos : SameChunk(m, c.protos[i], n, d.protos[i], g)

\* A file that was not damaged is loaded as the chunk that was written:
\* constants with their sharing and cycles, templates, jump tables, nested
\* chunks and positions, and every global operand the slot of its name,
\* also when more has been loaded since.
LoadedIsWritten ==
  (ld.intact /\ ld.result.ok) =>
     SameChunk(ld.program.mem, ld.program.chunk, ld.result.mem, ld.result.c, ld.globals)

RECURSIVE AllChunks(_)
AllChunks(c) == {c} \cup UNION {AllChunks(c.protos[i]) : i \in DOMAIN c.protos}

\* No two strings of the constants of a loaded chunk share their
\* characters, so that string-set! on one leaves the others alone.
StringsApart ==
  ld.result.ok =>
    LET m == ld.result.mem
        Inside == {e \in UNION {{<<a, i>> : i \in DOMAIN m[a]} : a \in DOMAIN m} : m[e[1]][e[2]][1] = "str"}
    IN /\ \A d, e \in Inside : d # e => m[d[1]][d[2]][2] # m[e[1]][e[2]][2]
       /\ \A c \in AllChunks(ld.result.c) : \A i \in DOMAIN c.consts :
            c.consts[i][1] = "str" =>
              /\ \A j \in DOMAIN c.consts \ {i} : c.consts[j][1] = "str" => c.consts[i][2] # c.consts[j][2]
              /\ \A e \in Inside : c.consts[i][2] # m[e[1]][e[2]][2]

\* Whatever was done to the file: what is loaded indexes its pools and the
\* global table within their bounds.
LoadedIsSafe ==
  ld.result.ok => \A c \in AllChunks(ld.result.c) : \A i \in DOMAIN c.instrs :
    LET ins == c.instrs[i] IN
    CASE ins.op \in {OpCode[o] : o \in GlobalOps} -> ins.x \in 0..(Len(ld.globals) - 1)
      [] ins.op \in {OpCode[o] : o \in {"loadk", "quasiquote", "casedispatch", "closure"}} ->
           ins.x + 1 \in DOMAIN PoolOf(c, ins.op)
      [] OTHER -> TRUE

\* How deep the reader goes for a datum: a container is gone into once.
RECURSIVE Descend(_, _, _)
Descend(m, v, seen) ==
  IF ~IsContainer(v) THEN [d |-> 1, seen |-> seen]
  ELSE IF v[2] \in seen THEN [d |-> 1, seen |-> seen]
  ELSE LET z == FoldLeft(LAMBDA x, item : LET y == Descend(m, item, x.seen) IN [d |-> Max({x.d, y.d}), seen |-> y.seen],
                         [d |-> 0, seen |-> seen \cup {v[2]}], m[v[2]])
       IN [z EXCEPT !.d = @ + 1]

RECURSIVE TemplateDepth(_)
TemplateDepth(t) ==
  IF t[1] \notin {"list", "vector"} THEN 1
  ELSE 1 + Max({TemplateDepth(t[2][i]) : i \in DOMAIN t[2]} \cup (IF t[1] = "list" THEN {TemplateDepth(t[3])} ELSE {0}))

RECURSIVE TemplateData(_)
TemplateData(t) ==
  CASE t[1] = "const" -> {t[2]}
    [] t[1] = "hole" -> {}
    [] OTHER -> UNION ({TemplateData(t[2][i]) : i \in DOMAIN t[2]} \cup (IF t[1] = "list" THEN {TemplateData(t[3])} ELSE {}))

RECURSIVE ChunkDepth(_)
ChunkDepth(c) == 1 + Max({0} \cup {ChunkDepth(c.protos[i]) : i \in DOMAIN c.protos})

GlobalsOf(c) ==
  {c.consts[c.instrs[i].x + 1][3] : i \in {k \in DOMAIN c.instrs : c.instrs[k].op \in GlobalOps}}

\* The limits of the loader, said of a program.
TooMuch(p) ==
  LET C == AllChunks(p.chunk)
      data == UNION {Range(c.consts) \cup UNION {TemplateData(c.qq[i]) : i \in DOMAIN c.qq} : c \in C}
  IN \/ \E v \in data : \/ Cardinality(Shared(p.mem, v)) > LABELS_CAP
                        \/ Descend(p.mem, v, {}).d > MAX_DATUM_DEPTH
     \/ \E c \in C : \E i \in DOMAIN c.qq : TemplateDepth(c.qq[i]) > MAX_QQ_DEPTH
     \/ ChunkDepth(p.chunk) > MAX_CHUNK_DEPTH
     \/ Cardinality({"car"} \cup UNION {GlobalsOf(c) : c \in C}) > GLOBALS_CAP

\* A file that was not damaged is refused only for a limit, and then
\* always: a list costs one level for each of its elements, a datum one
\* label for each part that it shares, however often.
RefusedForCause == (ld.intact /\ ld.loads > 0) => (ld.result.ok <=> ~TooMuch(ld.program))

\* What is loaded is what was compiled, and a file that is not is refused.
LoaderSound == LoadedIsWritten /\ StringsApart /\ LoadedIsSafe /\ RefusedForCause

=============================================================================
