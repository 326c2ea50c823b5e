----------------------------- MODULE DatumGraphs -----------------------------
(***************************************************************************)
(* Scheme data as graphs.  A datum is a tuple that begins with its kind;   *)
(* <<"pair", a>> and <<"vector", a>> have their contents, a sequence of    *)
(* data, at address a of a memory; <<"sym", 0, name>>, <<"str", a, name>>  *)
(* and <<"builtin", 0, name>> have a name; the rest a value.               *)
(***************************************************************************)
EXTENDS Integers, Sequences, FiniteSets

IsContainer(v) == v[1] \in {"pair", "vector"}

\* The containers that a datum reaches.
RECURSIVE Containers(_, _)
Containers(mem, S) ==
  LET more == S \cup UNION {{mem[a][i][2] : i \in {k \in DOMAIN mem[a] : IsContainer(mem[a][k])}} : a \in S}
  IN IF more = S THEN S ELSE Containers(mem, more)

Root(v) == IF IsContainer(v) THEN {v[2]} ELSE {}

\* The containers that are reached more than once from v.
Shared(mem, v) ==
  LET R == Containers(mem, Root(v))
      Visits(a) == Cardinality({e \in UNION {{<<b, i>> : i \in DOMAIN mem[b]} : b \in R} :
                                  IsContainer(mem[e[1]][e[2]]) /\ mem[e[1]][e[2]][2] = a})
                   + (IF Root(v) = {a} THEN 1 ELSE 0)
  IN {a \in R : Visits(a) >= 2}

\* Pairs of data that must be the same for two data to be.
RECURSIVE Walk(_, _, _)
Walk(m, n, S) ==
  LET Inside(e) == IF IsContainer(e[1]) /\ IsContainer(e[2])
                   THEN {<<m[e[1][2]][i], n[e[2][2]][i]>> : i \in DOMAIN m[e[1][2]] \cap DOMAIN n[e[2][2]]}
                   ELSE {}
      more == S \cup UNION {Inside(e) : e \in S}
  IN IF more = S THEN S ELSE Walk(m, n, more)

\* Data that equal? does not tell apart.
Alike(m, v, n, w) ==
  \A e \in Walk(m, n, {<<v, w>>}) :
    /\ e[1][1] = e[2][1]
    /\ e[1][1] \in {"sym", "str", "builtin"} => e[1][3] = e[2][3]
    /\ ~IsContainer(e[1]) /\ e[1][1] # "str" => e[1][2] = e[2][2]
    /\ IsContainer(e[1]) => Len(m[e[1][2]]) = Len(n[e[2][2]])

\* The same datum in memory m and in memory n, sharing and cycles included.
Same(m, v, n, w) ==
  LET C == {e \in Walk(m, n, {<<v, w>>}) : IsContainer(e[1])}
  IN Alike(m, v, n, w) /\ \A d, e \in C : d[1][2] = e[1][2] <=> d[2][2] = e[2][2]

=============================================================================
