--------------------------- MODULE QueryMatching ----------------------------
(***************************************************************************)
(* What a query matches, twice: by definition, paper by paper              *)
(* (reference.py), and as the engine compiles and counts it (compile.py,   *)
(* tantivy_engine.py, exclusions.py).                                      *)
(*                                                                         *)
(* A paper has its tokens per text field and one value per filter field.   *)
(* A Tantivy query is the set of papers it matches; scores are left out.   *)
(***************************************************************************)
EXTENDS QueryTrees, FiniteSetsExt

CONSTANTS
  Docs,       \* paper -> [tokens: text field -> tokens, value: filter field -> value]
  Texts,      \* the text fields
  Allowed     \* item -> the tokens it matches: a term's own, a wildcard's expansions

IsTerm(item) == Allowed[item] = {item}
Papers == DOMAIN Docs
Tokens(d, f) == Docs[d].tokens[f]
Searched(field) == IF field = AnyField THEN Texts ELSE {field}

-----------------------------------------------------------------------------
(* reference.py *)
Occurrences(tokens, leaf) ==
  {start \in 1 .. Len(tokens) - Len(leaf.items) + 1 :
     \A j \in DOMAIN leaf.items : tokens[start + j - 1] \in Allowed[leaf.items[j]]}

NearIn(tokens, n) ==
  \E a \in Occurrences(tokens, n.left), b \in Occurrences(tokens, n.right) :
    \/ a <= b /\ b - (a + Len(n.left.items)) \in 0 .. n.distance
    \/ b < a /\ a - (b + Len(n.right.items)) \in 0 .. n.distance

RECURSIVE Matches(_, _)
Matches(d, n) ==
  CASE n.k = "and" -> \A i \in DOMAIN n.children : Matches(d, n.children[i])
    [] n.k = "or" -> \E i \in DOMAIN n.children : Matches(d, n.children[i])
    [] n.k = "not" -> ~Matches(d, n.child)
    [] n.k = "filter" -> Docs[d].value[n.field] \in n.values
    [] n.k = "near" -> \E f \in Searched(n.left.field) : NearIn(Tokens(d, f), n)
    [] n.k = "leaf" -> \E f \in Searched(n.field) : Occurrences(Tokens(d, f), n) # {}
    [] OTHER -> TRUE  \* no tree: every paper

MatchIds(n) == {d \in Papers : Matches(d, n)}

-----------------------------------------------------------------------------
(***************************************************************************)
(* A Tantivy Boolean query: with no MUST and no SHOULD it matches nothing, *)
(* whatever it excludes.                                                   *)
(***************************************************************************)
Boolean(musts, shoulds, nots) ==
  (IF musts # {} THEN {d \in Papers : \A m \in musts : d \in m} ELSE UNION shoulds) \ UNION nots

TermQuery(f, tokens) == {d \in Papers : \E i \in DOMAIN Tokens(d, f) : Tokens(d, f)[i] \in tokens}

(* A phrase query of two terms: in order with up to `slop` tokens between, reversed at two more. *)
SlopQuery(f, a, b, slop) ==
  {d \in Papers :
     \E i, j \in DOMAIN Tokens(d, f) :
       /\ Tokens(d, f)[i] = a /\ Tokens(d, f)[j] = b
       /\ IF i < j THEN j - i - 1 <= slop ELSE i - j + 1 <= slop}

PhraseQuery(f, items) ==
  {d \in Papers : \E at \in 0 .. Len(Tokens(d, f)) - Len(items) :
     \A i \in DOMAIN items : Tokens(d, f)[at + i] = items[i]}

-----------------------------------------------------------------------------
(***************************************************************************)
(* The position-verified clauses: candidates hold every item of the        *)
(* clause, and their tokens are checked from where a first item occurs.    *)
(***************************************************************************)
StartsIn(tokens, items) ==
  {at \in DOMAIN tokens :
     /\ tokens[at] \in Allowed[items[1]]
     /\ at + Len(items) - 1 <= Len(tokens)
     /\ \A k \in DOMAIN items : tokens[at + k - 1] \in Allowed[items[k]]}

(* The right operand starts within `distance` after the left ends, or ends within it before. *)
WithinForward(tokens, n) ==
  \E a \in StartsIn(tokens, n.left.items), b \in StartsIn(tokens, n.right.items) :
    b \in a + Len(n.left.items) .. a + Len(n.left.items) + n.distance
Within(tokens, n) ==
  LET wl == Len(n.left.items)
      wr == Len(n.right.items)
  IN  \E a \in StartsIn(tokens, n.left.items), b \in StartsIn(tokens, n.right.items) :
        b \in (a + wl .. a + wl + n.distance) \cup (a - n.distance - wr .. a - wr)

Candidates(f, items) == Boolean({TermQuery(f, Allowed[items[i]]) : i \in DOMAIN items}, {}, {})

LeafQuery(n, f) ==
  CASE n.k = "leaf" ->
         IF Len(n.items) = 1 THEN TermQuery(f, Allowed[n.items[1]])
         ELSE IF \A i \in DOMAIN n.items : IsTerm(n.items[i]) THEN PhraseQuery(f, n.items)
         ELSE {d \in Candidates(f, n.items) : StartsIn(Tokens(d, f), n.items) # {}}
    [] OTHER ->
         LET items == n.left.items \o n.right.items
             a == items[1]
             b == items[2]
         IN  IF Len(items) = 2 /\ IsTerm(a) /\ IsTerm(b) /\ a # b
             THEN Boolean({}, {SlopQuery(f, a, b, n.distance), SlopQuery(f, b, a, n.distance)}, {})
             ELSE {d \in Candidates(f, items) : Within(Tokens(d, f), n)}

RECURSIVE Compiled(_)
Compiled(n) ==
  CASE n.k \in {"and", "or"} ->
         LET parts == {Compiled(n.children[i]) : i \in DOMAIN n.children}
         IN  IF n.k = "and" THEN Boolean(parts, {}, {}) ELSE Boolean({}, parts, {})
    [] n.k = "not" -> Boolean({Papers}, {}, {Compiled(n.child)})
    [] n.k = "filter" -> {d \in Papers : Docs[d].value[n.field] \in n.values}
    [] n.k = "nil" -> Papers
    [] OTHER ->
         LET field == IF n.k = "near" THEN n.left.field ELSE n.field
         IN  Boolean({}, {LeafQuery(n, f) : f \in Searched(field)}, {})

-----------------------------------------------------------------------------
(***************************************************************************)
(* facets: the top-level filters on the fields aggregated `over` are set   *)
(* aside, the base is collected once, counted per combination of values,   *)
(* and a field is counted over the combinations every other field's        *)
(* filters pass.                                                           *)
(***************************************************************************)
Combos(base, over) ==
  LET of(d) == [f \in over |-> Docs[d].value[f]]
      found == Compiled(Combine("and", base))
  IN  [c \in {of(d) : d \in found} |-> Cardinality({d \in found : of(d) = c})]

Passes(n, value) == IF n.k = "not" THEN value \notin n.child.values ELSE value \in n.values

Facet(ast, field, over) ==
  LET tops == Conjuncts(ast)
      aside == {c \in ToSet(tops) : ClauseField(c) \in over}
      combos == Combos(SelectSeq(tops, LAMBDA c : ClauseField(c) \notin over), over)
      kept == {c \in DOMAIN combos :
                 \A n \in aside : ClauseField(n) # field => Passes(n, c[ClauseField(n)])}
  IN  [v \in Vocabulary[field] |-> MapThenSumSet(LAMBDA c : combos[c], {c \in kept : c[field] = v})]

(***************************************************************************)
(* excluded: what each default in turn removed from the identified papers, *)
(* by value, and what all of them did.                                     *)
(***************************************************************************)
With(n, field) == Combine("and", Conjuncts(n) \o <<Filter(field, Defaults[field])>>)
RemovedBy(identified, field, over) ==
  LET counts == Facet(With(identified, field), field, over)
  IN  [v \in Vocabulary[field] \ Defaults[field] |-> counts[v]]

Sum(counts) == MapThenSumSet(LAMBDA v : counts[v], DOMAIN counts)

BucketsOfAll(identified, fields, over) == [i \in DOMAIN fields |-> RemovedBy(identified, fields[i], over)]

RECURSIVE Buckets(_, _, _)
Buckets(passed, fields, over) ==
  IF fields = <<>> THEN <<>>
  ELSE <<RemovedBy(passed, fields[1], over)>> \o Buckets(With(passed, fields[1]), Tail(fields), over)

Excluded(read, over) ==
  LET fields == SelectSeq(DefaultOrder, LAMBDA f : f \in read.defaults)
      identified == IF fields = <<>> THEN 0
                    ELSE Sum(Facet(With(read.identification, fields[1]), fields[1], over))
  IN  [removed |-> IF fields = <<>> THEN 0 ELSE identified - Cardinality(Compiled(read.effective)),
       buckets |-> Buckets(read.identification, fields, over), fields |-> fields]
=============================================================================
