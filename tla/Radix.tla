------------------------------- MODULE Radix -------------------------------
(***************************************************************************)
(* The byte-radix trie of radix.c, which the HTTP multiplexer routes with  *)
(* and (creme radix) exports.  A key is a sequence of characters; ":"      *)
(* starts a parameter that runs to the next "/", "*" one that runs to the  *)
(* end of the path.  A node is a record of its characters, its kind, its   *)
(* payload (0 for none) and its children in order.                         *)
(***************************************************************************)
EXTENDS Integers, Sequences, SequencesExt, FiniteSets

CONSTANTS Pattern,           \* the keys that may be registered
          Path,              \* the paths looked up
          RADIX_MAX_PARAMS,  \* parameters a lookup has room for
          MaxRoutes          \* calls of radix-tree-set!

ASSUME RoomForOne == RADIX_MAX_PARAMS \in Nat

VARIABLES trie,    \* the trie node
          count,   \* RadixTree.count
          added    \* what was registered, in order: <<pattern, payload>>

radixVars == <<trie, count, added>>

NORMAL == 0
NAMED == 1
GLOB == 2

new_node(key, rkind) == [key |-> key, kind |-> rkind, payload |-> 0, children |-> <<>>]

append_child(node, child) == [node EXCEPT !.children = Append(@, child)]

\* Insertion sort by kind: stable.
sort_children(node) ==
  LET Of(k) == SelectSeq(node.children, LAMBDA c : c.kind = k)
  IN [node EXCEPT !.children = Of(NORMAL) \o Of(NAMED) \o Of(GLOB)]

\* Fault: the shared prefix keeps the payload of the longer key.
SplitKeepsPayload(child, common) ==
  [child EXCEPT !.key = SubSeq(@, 1, common),
                !.children = <<[child EXCEPT !.key = SubSeq(@, common + 1, Len(@))]>>]

\* The node for the first common characters; the rest, with its children
\* and payload, becomes its only child.
split_node(child, common) ==
  [new_node(SubSeq(child.key, 1, common), NORMAL) EXCEPT
    !.children = <<[child EXCEPT !.key = SubSeq(@, common + 1, Len(@)), !.kind = NORMAL]>>]

\* Two literals share their common prefix; parameters are equal or have
\* nothing in common.
node_common(child, key, rkind) ==
  IF child.kind # NORMAL \/ rkind # NORMAL
  THEN IF child.kind = rkind /\ child.key = key THEN Len(key) ELSE 0
  ELSE Len(LongestCommonPrefix({child.key, key}))

\* insert_token followed by the rest of radix_tree_add's loop: each token is
\* inserted below the node of the one before it, and the last one takes the
\* payload.
RECURSIVE insert_token(_, _, _)
insert_token(node, tokens, payload) ==
  IF tokens = <<>> THEN [node EXCEPT !.payload = payload]
  ELSE
    LET key == tokens[1].key
        rkind == tokens[1].kind
        shared == SelectSeq([i \in 1..Len(node.children) |-> i],
                            LAMBDA i : node_common(node.children[i], key, rkind) > 0)
    IN IF shared = <<>>
       THEN sort_children(append_child(node,
              insert_token(new_node(key, rkind), Tail(tokens), payload)))
       ELSE LET child == node.children[shared[1]]
                common == node_common(child, key, rkind)
                rest == [tokens[1] EXCEPT !.key = SubSeq(key, common + 1, Len(key))]
                prefix == IF common = Len(child.key) THEN child
                          ELSE split_node(child, common)
                left == IF common = Len(key) THEN Tail(tokens) ELSE <<rest>> \o Tail(tokens)
            IN [node EXCEPT !.children[shared[1]] = insert_token(prefix, left, payload)]

\* The characters up to the next one of a set, or all.
UpTo(key, stops) ==
  LET at == SelectInSeq(key, LAMBDA c : c \in stops)
  IN IF at = 0 THEN Len(key) ELSE at - 1

RECURSIVE TokensOf(_)
TokensOf(key) ==
  IF key = <<>> THEN <<>>
  ELSE LET n == CASE key[1] = ":" -> 1 + UpTo(Tail(key), {"/"})
                  [] key[1] = "*" -> Len(key)
                  [] OTHER -> 1 + UpTo(Tail(key), {":", "*"})
           rkind == IF key[1] = ":" THEN NAMED ELSE IF key[1] = "*" THEN GLOB ELSE NORMAL
       IN <<[key |-> SubSeq(key, 1, n), kind |-> rkind]>>
          \o TokensOf(SubSeq(key, n + 1, Len(key)))

-----------------------------------------------------------------------------
(* Lookup                                                                  *)

Found(payload, params) == [payload |-> payload, params |-> params]

\* A parameter is recorded while there is room.
Capture(params, child, value) ==
  IF Len(params) < RADIX_MAX_PARAMS
  THEN Append(params, <<Tail(child.key), value>>) ELSE params

\* A branch that finds nothing gives its parameters back.
RollBack(tried, saved) == IF tried.payload # 0 THEN tried ELSE Found(0, saved)

RECURSIVE find_rec(_, _, _)
find_rec(node, path, params) ==
  LET Try(r, child) ==
        LET named == UpTo(path, {"/"})
            cut == CASE child.kind = NORMAL -> Len(child.key)
                     [] child.kind = NAMED -> named
                     [] OTHER -> Len(path)
            rest == SubSeq(path, cut + 1, Len(path))
        IN IF r.payload # 0 THEN r
           ELSE IF child.kind = NORMAL
           THEN IF IsPrefix(child.key, path) THEN find_rec(child, rest, r.params) ELSE r
           ELSE RollBack(find_rec(child, rest,
                                  Capture(r.params, child, SubSeq(path, 1, cut))),
                         r.params)
  IN IF path = <<>> THEN Found(node.payload, params)
     ELSE FoldLeft(Try, Found(0, params), node.children)

radix_tree_find(path) == find_rec(trie, path, <<>>)

bi_radix_tree_ref(path) == radix_tree_find(path).payload

\* The payload and the parameters, consed up and so the last one first.
bi_radix_tree_match(path) ==
  LET f == radix_tree_find(path)
  IN IF f.payload = 0 THEN <<>> ELSE <<f.payload, Reverse(f.params)>>

-----------------------------------------------------------------------------

radix_tree_new == trie = new_node(<<>>, NORMAL) /\ count = 0

RadixInit == radix_tree_new /\ added = <<>>

RECURSIVE PayloadAt(_, _)
PayloadAt(node, tokens) ==
  IF tokens = <<>> THEN node.payload
  ELSE LET hit == SelectSeq(node.children, LAMBDA c :
                    LET common == node_common(c, tokens[1].key, tokens[1].kind)
                    IN common > 0 /\ common = Len(c.key))
           left == IF hit = <<>> THEN 0 ELSE Len(tokens[1].key) - Len(hit[1].key)
       IN IF hit = <<>> THEN 0
          ELSE PayloadAt(hit[1],
                 IF left = 0 THEN Tail(tokens)
                 ELSE <<[tokens[1] EXCEPT !.key = SubSeq(@, Len(@) - left + 1, Len(@))]>>
                      \o Tail(tokens))

\* radix-tree-set!: the payloads are numbered, so that each call's is new.
radix_tree_add(key) ==
  /\ Len(added) < MaxRoutes
  /\ trie' = insert_token(trie, TokensOf(key), Len(added) + 1)
  /\ count' = IF PayloadAt(trie, TokensOf(key)) = 0 THEN count + 1 ELSE count
  /\ added' = Append(added, <<key, Len(added) + 1>>)

RadixNext == \E key \in Pattern : radix_tree_add(key)

-----------------------------------------------------------------------------
(* Properties                                                              *)

\* The patterns registered, and the payload each was given last.
Registered == {added[i][1] : i \in DOMAIN added}
PayloadOf(p) ==
  added[CHOOSE i \in DOMAIN added :
          added[i][1] = p /\ \A j \in DOMAIN added : added[j][1] = p => j <= i][2]

\* A pattern read on its own, character by character: how it matches a path
\* and what it captures, or none.
RECURSIVE MatchOf(_, _)
MatchOf(tokens, path) ==
  LET t == tokens[1]
      cut == CASE t.kind = NORMAL -> Len(t.key)
               [] t.kind = NAMED -> UpTo(path, {"/"})
               [] OTHER -> Len(path)
      rest == MatchOf(Tail(tokens), SubSeq(path, cut + 1, Len(path)))
  IN CASE tokens = <<>> -> [ok |-> path = <<>>, params |-> <<>>]
       [] tokens # <<>> /\ path = <<>> -> [ok |-> FALSE, params |-> <<>>]
       [] OTHER -> IF t.kind = NORMAL
                   THEN IF IsPrefix(t.key, path) THEN rest ELSE [ok |-> FALSE, params |-> <<>>]
                   ELSE [ok |-> rest.ok,
                         params |-> <<<<Tail(t.key), SubSeq(path, 1, cut)>>>> \o rest.params]

Matching(path) == {p \in Registered : MatchOf(TokensOf(p), path).ok}

\* The pattern's literal characters and parameters as one sequence of ranks.
RankOf(p) ==
  FoldLeft(LAMBDA ranks, t : ranks \o IF t.kind = NORMAL
                                      THEN [i \in DOMAIN t.key |-> NORMAL] ELSE <<t.kind>>,
           <<>>, TokensOf(p))

Beats(p, q) ==
  LET common == Len(LongestCommonPrefix({RankOf(p), RankOf(q)}))
  IN common < Len(RankOf(p)) /\ common < Len(RankOf(q))
     /\ RankOf(p)[common + 1] < RankOf(q)[common + 1]

\* A lookup finds a route exactly when some registered pattern matches the
\* path, and it finds the one whose first differing part is the more static:
\* whatever the order of registration, and however the trie was split.
BestRouteFound ==
  \A path \in Path :
    LET found == bi_radix_tree_ref(path)
        best == {p \in Matching(path) : \A q \in Matching(path) : ~Beats(q, p)}
    IN IF Matching(path) = {} THEN found = 0
       ELSE found \in {PayloadOf(p) : p \in best}

\* The parameters of a match are those of the pattern it found, with nothing
\* left over from branches that were tried and given up.
ParamsAreTheRoutes ==
  \A path \in Path :
    LET m == bi_radix_tree_match(path)
    IN m # <<>> =>
         \E p \in Matching(path) :
           /\ PayloadOf(p) = m[1]
           /\ Reverse(m[2]) = SubSeq(MatchOf(TokensOf(p), path).params, 1,
                 IF Len(MatchOf(TokensOf(p), path).params) < RADIX_MAX_PARAMS
                 THEN Len(MatchOf(TokensOf(p), path).params) ELSE RADIX_MAX_PARAMS)

\* radix-tree-count is the number of patterns registered, each once.
CountsPatterns == count = Cardinality(Registered)

\* The trie of radix.c routes as the list of its patterns would.
TrieRoutes == BestRouteFound /\ ParamsAreTheRoutes /\ CountsPatterns

=============================================================================
