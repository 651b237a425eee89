----------------------------- MODULE QueryTrees -----------------------------
(***************************************************************************)
(* Query trees (ast.py) and what is done with one before it is run: its    *)
(* canonical form and how that prints (canonical.py), the default filters  *)
(* (defaults.py), its concept groups (groups.py).                          *)
(*                                                                         *)
(* A leaf is a term, a wildcard (an item that allows several tokens) or a  *)
(* phrase (several items).  A filter's values are the set it admits, so    *)
(* sorting and merging them says nothing; a fixed order of a set stands    *)
(* for the order filters and NEAR operands are printed in.  A typed node   *)
(* also says which lexemes it spans (`at`); canonical nodes do not.        *)
(***************************************************************************)
EXTENDS Integers, Sequences, FiniteSets, SequencesExt

CONSTANTS
  Vocabulary,   \* filter field -> the values it can take
  Defaults,     \* DEFAULT_CLAUSES: default field -> the values it admits
  DefaultOrder  \* its fields, in order

ASSUME TreesAssumption ==
  /\ DOMAIN Defaults = ToSet(DefaultOrder)
  /\ \A f \in DOMAIN Defaults : f \in DOMAIN Vocabulary /\ Defaults[f] \subseteq Vocabulary[f]

Nil == [k |-> "nil"]
AnyField == ""  \* an unfielded leaf searches every text field
FilterFields == DOMAIN Vocabulary

Leaf(items, field) == [k |-> "leaf", items |-> items, field |-> field]
Filter(field, values) == [k |-> "filter", field |-> field, values |-> values]
Not(child) == [k |-> "not", child |-> child]

(* No node, the only one, or all of them joined. *)
Combine(kind, nodes) ==
  CASE nodes = <<>> -> Nil
    [] Len(nodes) = 1 -> nodes[1]
    [] OTHER -> [k |-> kind, children |-> nodes]

Conjuncts(n) == IF n = Nil THEN <<>> ELSE IF n.k = "and" THEN n.children ELSE <<n>>

(* The field of a filter clause, `field:` or `NOT field:`. *)
ClauseField(n) ==
  LET inner == IF n.k = "not" THEN n.child ELSE n
  IN  IF inner.k = "filter" THEN inner.field ELSE AnyField

-----------------------------------------------------------------------------
(***************************************************************************)
(* canonicalize: children first, then nested groups of the same kind       *)
(* flattened; in an OR the positive filters of one field are one, in an    *)
(* AND the text comes before the filters; repeated branches go.            *)
(***************************************************************************)
Flatten(kind, canon) ==
  FlattenSeq([i \in DOMAIN canon |-> IF canon[i].k = kind THEN canon[i].children ELSE <<canon[i]>>])

Dedupe(nodes) ==
  FoldLeft(LAMBDA seen, n : IF Contains(seen, n) THEN seen ELSE Append(seen, n), <<>>, nodes)

MergeFilters(nodes) ==
  LET merged(seen, n) ==
        LET same == {i \in DOMAIN seen : n.k = "filter" /\ seen[i].k = "filter" /\ seen[i].field = n.field}
        IN  IF same = {} THEN Append(seen, n)
            ELSE LET i == CHOOSE i \in same : TRUE
                 IN  [seen EXCEPT ![i].values = @ \cup n.values]
  IN  FoldLeft(merged, <<>>, nodes)

TextFirst(nodes) ==
  LET text(n) == ClauseField(n) = AnyField
  IN  SelectSeq(nodes, text) \o SetToSeq({n \in ToSet(nodes) : ~text(n)})

Tidy(kind, nodes) == Dedupe(IF kind = "or" THEN MergeFilters(nodes) ELSE TextFirst(nodes))

Sorted(l, r) == CHOOSE pair \in {<<l, r>>, <<r, l>>} : TRUE

RECURSIVE Canonical(_)
Canonical(n) ==
  CASE n.k = "leaf" -> Leaf(n.items, n.field)
    [] n.k = "filter" -> Filter(n.field, n.values)
    [] n.k = "near" ->
         LET pair == Sorted(Canonical(n.left), Canonical(n.right))
         IN  [k |-> "near", left |-> pair[1], right |-> pair[2], distance |-> n.distance]
    [] n.k = "not" ->
         LET child == Canonical(n.child) IN IF child.k = "not" THEN child.child ELSE Not(child)
    [] OTHER ->
         LET flat == Flatten(n.k, [i \in DOMAIN n.children |-> Canonical(n.children[i])])
         IN  Combine(n.k, Tidy(n.k, flat))

-----------------------------------------------------------------------------
(***************************************************************************)
(* apply_defaults: the default of a field with no top-level clause of its  *)
(* own is added; a field whose only clause is the default has the default. *)
(***************************************************************************)
RECURSIVE NestedFilter(_, _)
NestedFilter(n, f) ==
  CASE n.k = "filter" -> n.field = f
    [] n.k = "not" -> NestedFilter(n.child, f)
    [] n.k \in {"and", "or"} -> \E i \in DOMAIN n.children : NestedFilter(n.children[i], f)
    [] OTHER -> FALSE

Own(conjuncts, f) == SelectSeq(conjuncts, LAMBDA c : ClauseField(c) = f)

IsDefault(c) == c.k = "filter" /\ c.field \in DOMAIN Defaults /\ c.values = Defaults[c.field]

HasDefault(own) == own = <<>> \/ (Len(own) = 1 /\ IsDefault(own[1]))

ApplyDefaults(ast) ==
  LET conjuncts == Conjuncts(Canonical(ast))
      own(f) == Own(conjuncts, f)
      defaults == {f \in DOMAIN Defaults : HasDefault(own(f))}
      missing == SelectSeq(DefaultOrder, LAMBDA f : own(f) = <<>>)
      added == [i \in DOMAIN missing |-> Filter(missing[i], Defaults[missing[i]])]
      effective == Canonical(Combine("and", conjuncts \o added))
      kept == SelectSeq(Conjuncts(effective), LAMBDA c : ~(IsDefault(c) /\ ClauseField(c) \in defaults))
  IN  [effective |-> effective, identification |-> Combine("and", kept), defaults |-> defaults]

-----------------------------------------------------------------------------
(* Lexemes, as the lexer yields them. *)
Word(items) == [k |-> "WORD", items |-> items]
Phrase(items) == [k |-> "PHRASE", items |-> items]
Field(name) == [k |-> "FIELD", name |-> name]
Near(n) == [k |-> "NEAR", n |-> n]
Mark(kind) == <<[k |-> kind]>>  \* LPAREN, RPAREN, AND, OR or NOT

Joined(operator, parts) ==
  FlattenSeq([i \in DOMAIN parts |-> IF i = 1 THEN parts[i] ELSE Mark(operator) \o parts[i]])
Grouped(lexemes) == Mark("LPAREN") \o lexemes \o Mark("RPAREN")

RenderValues(values) ==
  Joined("OR", LET ordered == SetToSeq(values) IN [i \in DOMAIN ordered |-> <<Word(<<ordered[i]>>)>>])

(***************************************************************************)
(* render: every group parenthesised, a prefix on every fielded leaf, a    *)
(* phrase as one, two values or more grouped.                              *)
(***************************************************************************)
RECURSIVE Render(_)
Render(n) ==
  CASE n.k = "leaf" ->
         (IF n.field = AnyField THEN <<>> ELSE <<Field(n.field)>>)
           \o (IF Len(n.items) = 1 THEN <<Word(n.items)>> ELSE <<Phrase(n.items)>>)
    [] n.k = "near" -> Grouped(Render(n.left) \o <<Near(n.distance)>> \o Render(n.right))
    [] n.k = "not" -> Mark("NOT") \o Render(n.child)
    [] n.k = "filter" ->
         <<Field(n.field)>> \o (IF Cardinality(n.values) = 1 THEN RenderValues(n.values)
                                ELSE Grouped(RenderValues(n.values)))
    [] OTHER ->
         Grouped(Joined(IF n.k = "and" THEN "AND" ELSE "OR",
                        [i \in DOMAIN n.children |-> Render(n.children[i])]))

-----------------------------------------------------------------------------
(* groups.py: the conjuncts that search text and are not negated, and everything else. *)
RECURSIVE SearchesText(_)
SearchesText(n) ==
  CASE n.k = "filter" -> FALSE
    [] n.k = "not" -> SearchesText(n.child)
    [] n.k \in {"and", "or"} -> \E i \in DOMAIN n.children : SearchesText(n.children[i])
    [] OTHER -> TRUE

IsGroup(c) == c.k # "not" /\ SearchesText(c)
Groups(effective) == SelectSeq(Conjuncts(effective), IsGroup)
Kept(effective) == SelectSeq(Conjuncts(effective), LAMBDA c : ~IsGroup(c))
Without(effective, g) ==
  Combine("and", SelectSeq(Groups(effective), LAMBDA c : c # g) \o Kept(effective))
=============================================================================
