---------------------------- MODULE QueryParsing ----------------------------
(***************************************************************************)
(* The query parser (parser.py): recursive descent over the lexemes, NOT   *)
(* before AND before OR, two operands side by side an AND.  It never stops *)
(* at a mistake: it reports it, once, and reads on, and a query with any   *)
(* error has no tree.                                                      *)
(*                                                                         *)
(* The parser's state is a record: `i` the next lexeme, `errors` the codes *)
(* reported, `covered` the lexemes an error points at, `depth` the nesting *)
(* and `readings` the parenthesised readings its warnings offer.  A span   *)
(* is a pair of lexeme positions, the second past the end.  Each rule      *)
(* returns its node, or Nil, and the state after it.  Native mode, and     *)
(* queries the lexer has no error of its own for.                          *)
(***************************************************************************)
EXTENDS QueryTrees

CONSTANTS
  TextFields,
  MaxDepth,  \* MAX_DEPTH
  MaxLength  \* MAX_QUERY_LENGTH, in lexemes

ASSUME ParsingAssumption ==
  /\ TextFields \cap FilterFields = {}
  /\ MaxDepth \in Nat /\ MaxLength \in Nat

At(q, st, kinds) == st.i \in DOMAIN q /\ q[st.i].k \in kinds
Starts(q, st) == At(q, st, {"WORD", "PHRASE", "LPAREN", "FIELD", "NOT"})
Advance(st) == [st EXCEPT !.i = @ + 1]

Error(st, code, first, end) ==
  [st EXCEPT !.errors = Append(@, code), !.covered = @ \cup (first .. end - 1)]
Reported(st, first, end) == (first .. end - 1) \cap st.covered # {}
ErrorUnless(st, code, first, end) ==
  IF Reported(st, first, end) THEN st ELSE Error(st, code, first, end)

(* Past MAX_DEPTH the parser gives up: the code alone decides the answer, so reading on is harmless. *)
Enter(st) ==
  LET in == [Advance(st) EXCEPT !.depth = @ + 1]
  IN  IF in.depth > MaxDepth THEN Error(in, "too deep", st.i, st.i + 1) ELSE in
Leave(st) == [st EXCEPT !.depth = @ - 1]

Result(n, st) == [n |-> n, st |-> st]
Placed(n, first, end) == IF n = Nil THEN Nil ELSE [at |-> <<first, end>>] @@ n
Respan(n, first, end) == IF n = Nil THEN Nil ELSE [n EXCEPT !.at = <<first, end>>]
Join(kind, nodes) ==
  IF Len(nodes) < 2 THEN Combine(kind, nodes)
  ELSE Placed(Combine(kind, nodes), nodes[1].at[1], Last(nodes).at[2])

(* Past the operator at `i`: whether an operand follows it, operators straight after it skipped. *)
RECURSIVE SkipOperators(_, _)
SkipOperators(q, st) == IF At(q, st, {"AND", "OR"}) THEN SkipOperators(q, Advance(st)) ELSE st
AfterOperator(q, st) ==
  LET next == Advance(st)
  IN  IF Starts(q, next) THEN next
      ELSE SkipOperators(q, Error(next, "expected term", st.i, st.i + 1))

-----------------------------------------------------------------------------
RECURSIVE OrExpr(_, _, _), NotExpr(_, _, _), Primary(_, _, _), SkipNears(_, _, _)

(***************************************************************************)
(* and_expr, as its children and whether it had more than one.             *)
(***************************************************************************)
RECURSIVE AndChildren(_, _, _, _)
AfterChild(q, f, child, before) ==
  LET children == Append(before, child.n)
      next == IF At(q, child.st, {"AND"}) THEN AfterOperator(q, child.st) ELSE child.st
  IN  IF Starts(q, next) THEN AndChildren(q, f, next, children)
      ELSE [n |-> Join("and", SelectSeq(children, LAMBDA c : c # Nil)),
            compound |-> Len(children) > 1, st |-> next]
AndChildren(q, f, st, before) == AfterChild(q, f, NotExpr(q, f, st), before)

RECURSIVE OrBranches(_, _, _, _)
AfterBranch(q, f, branch, before) ==
  LET branches == Append(before, branch)
      next == IF At(q, branch.st, {"OR"}) THEN AfterOperator(q, branch.st) ELSE branch.st
  IN  IF At(q, branch.st, {"OR"}) /\ Starts(q, next) THEN OrBranches(q, f, next, branches)
      ELSE [branches |-> branches, st |-> next]
OrBranches(q, f, st, before) == AfterBranch(q, f, AndChildren(q, f, st, <<>>), before)

(***************************************************************************)
(* mixed_and_or: the reading of a level that mixes AND and OR, each AND    *)
(* group parenthesised; offered only if the whole level parsed.            *)
(***************************************************************************)
Typed(q, n) == SubSeq(q, n.at[1], n.at[2] - 1)
Reading(q, branches) ==
  Joined("OR", [i \in DOMAIN branches |->
    IF branches[i].compound THEN Grouped(Typed(q, branches[i].n)) ELSE Typed(q, branches[i].n)])

OfferedAnyway(st, level, parsed) == parsed # <<>>
Offered(st, level, parsed) == parsed = level.branches /\ ~Reported(level.st, st.i, level.st.i)

Mixed(q, st, level) ==
  LET parsed == SelectSeq(level.branches, LAMBDA b : b.n # Nil)
  IN  IF /\ Len(level.branches) > 1 /\ \E i \in DOMAIN level.branches : level.branches[i].compound
         /\ Offered(st, level, parsed)
      THEN [level.st EXCEPT !.readings = @ \cup
              {[at |-> <<parsed[1].n.at[1], Last(parsed).n.at[2]>>, reading |-> Reading(q, parsed)]}]
      ELSE level.st

WholeLevel(q, st, level) ==
  LET nodes == [i \in DOMAIN level.branches |-> level.branches[i].n]
  IN  Result(Join("or", SelectSeq(nodes, LAMBDA n : n # Nil)), Mixed(q, st, level))
OrExpr(q, f, st) == WholeLevel(q, st, OrBranches(q, f, st, <<>>))

-----------------------------------------------------------------------------
(* near_or_primary: NEAR joins two leaves of one field, once. *)
SkipNears(q, f, st) ==
  IF ~At(q, st, {"NEAR"}) THEN st
  ELSE LET next == Advance(st)
       IN  SkipNears(q, f, IF Starts(q, next) THEN Primary(q, f, next).st ELSE next)

Failed(st, r) ==
  /\ r.n = Nil /\ r.st.i # st.i
  /\ Len(r.st.errors) > Len(st.errors) \/ Reported(r.st, st.i, r.st.i)

OneNear(q, f, n, st) ==
  IF At(q, st, {"NEAR"}) THEN Result(Nil, SkipNears(q, f, Error(st, "bad near", st.i, st.i + 1)))
  ELSE Result(n, st)

Pair(q, f, st, left, right) ==
  LET op == left.st.i
      leaves == left.n.k = "leaf" /\ right.n.k = "leaf"
      pairs == leaves /\ left.n.field = right.n.field
      excused == ~leaves /\ (Failed(st, left) \/ Failed(Advance(left.st), right))
  IN  OneNear(q, f,
        IF ~pairs THEN Nil
        ELSE [k |-> "near", left |-> left.n, right |-> right.n, distance |-> q[op].n,
              at |-> <<left.n.at[1], right.n.at[2]>>],
        IF pairs \/ excused THEN right.st ELSE Error(right.st, "bad near", op, op + 1))

AfterLeft(q, f, st, left) ==
  LET next == Advance(left.st)
  IN  IF ~At(q, left.st, {"NEAR"}) THEN left
      ELSE Pair(q, f, st, left, IF Starts(q, next) THEN Primary(q, f, next) ELSE Result(Nil, next))
NearOrPrimary(q, f, st) == AfterLeft(q, f, st, Primary(q, f, st))

Negated(st, child) ==
  Result(IF child.n = Nil THEN Nil ELSE Placed(Not(child.n), st.i, child.n.at[2]), Leave(child.st))
NotExpr(q, f, st) ==
  LET in == Enter(st)
  IN  IF ~At(q, st, {"NOT"}) THEN NearOrPrimary(q, f, st)
      ELSE IF Starts(q, in) THEN Negated(st, NotExpr(q, f, in))
      ELSE Result(Nil, Leave(Error(in, "expected term", st.i, st.i + 1)))

Closed(q, st, inner) ==
  LET out == IF At(q, inner.st, {"RPAREN"}) THEN Advance(inner.st)
             ELSE Error(inner.st, "unbalanced", st.i, st.i + 1)
  IN  Result(Respan(inner.n, st.i, out.i), Leave(out))
Group(q, f, st) ==
  LET in == Enter(st)
  IN  IF At(q, in, {"RPAREN"}) THEN Result(Nil, Leave(Error(Advance(in), "empty group", st.i, in.i + 1)))
      ELSE Closed(q, st, OrExpr(q, f, in))

-----------------------------------------------------------------------------
(***************************************************************************)
(* filter: one value, or a group of values joined by OR.                   *)
(***************************************************************************)
ValueOf(name, v) ==
  IF v.k = "WORD" /\ Len(v.items) = 1 THEN ToSet(v.items) \cap Vocabulary[name] ELSE {}

RECURSIVE SkipGroup(_, _, _)
SkipGroup(q, st, depth) ==
  IF st.i \notin DOMAIN q THEN st
  ELSE CASE At(q, st, {"LPAREN"}) -> SkipGroup(q, Advance(st), depth + 1)
         [] At(q, st, {"RPAREN"}) -> IF depth = 0 THEN Advance(st) ELSE SkipGroup(q, Advance(st), depth - 1)
         [] OTHER -> SkipGroup(q, Advance(st), depth)

(* The value at `i`, and the state after it. *)
Value(q, name, st) ==
  LET values == ValueOf(name, q[st.i])
  IN  [values |-> values,
       st |-> IF values # {} THEN Advance(st)
              ELSE ErrorUnless(Advance(st), "unknown value", st.i, st.i + 1)]

RECURSIVE GroupedValues(_, _, _, _, _, _)
GroupedValues(q, name, st, field, lp, before) ==
  LET syntax(at) == Result(Nil, SkipGroup(q, ErrorUnless(at, "filter syntax", at.i, at.i + 1), 0))
      unclosed(at) == Result(Nil, Error(at, "unbalanced", lp, lp + 1))
  IN
  IF st.i \notin DOMAIN q THEN unclosed(st)
  ELSE IF ~At(q, st, {"WORD", "PHRASE"}) THEN syntax(st)
  ELSE
    LET value == Value(q, name, st)
        values == before \cup value.values
    IN  CASE value.st.i \notin DOMAIN q -> unclosed(value.st)
          [] At(q, value.st, {"RPAREN"}) ->
               LET out == Advance(value.st)
               IN  Result(IF Reported(out, lp, out.i) THEN Nil
                          ELSE Placed(Filter(name, values), field, out.i), out)
          [] At(q, value.st, {"OR"}) -> GroupedValues(q, name, Advance(value.st), field, lp, values)
          [] OTHER -> syntax(value.st)

FilterTerm(q, name, field, st) ==
  CASE At(q, st, {"LPAREN"}) ->
         LET in == Advance(st)
         IN  IF At(q, in, {"RPAREN"})
             THEN Result(Nil, Error(Advance(in), "empty group", st.i, in.i + 1))
             ELSE GroupedValues(q, name, in, field, st.i, {})
    [] At(q, st, {"WORD", "PHRASE"}) ->
         LET value == Value(q, name, st)
         IN  Result(IF value.values = {} THEN Nil
                    ELSE Placed(Filter(name, value.values), field, value.st.i), value.st)
    [] OTHER -> Result(Nil, Error(st, "expected term", field, field + 1))

(* field_term: a text field applies to every leaf of what follows; `source:` is Scholar's. *)
FieldTerm(q, outer, st) ==
  LET name == q[st.i].name
      next == Advance(st)
      nested == IF outer \notin {AnyField, name} THEN Error(next, "nested field", st.i, st.i + 1) ELSE next
  IN  CASE name \in FilterFields -> FilterTerm(q, name, st.i, next)
        [] name \in TextFields ->
             IF At(q, nested, {"WORD", "PHRASE", "LPAREN"})
             THEN LET inner == Primary(q, name, nested)
                  IN  Result(IF inner.n = Nil THEN Nil ELSE Respan(inner.n, st.i, inner.n.at[2]), inner.st)
             ELSE Result(Nil, Error(nested, "expected term", st.i, st.i + 1))
        [] OTHER ->
             LET out == Error(next, "compat only", st.i, st.i + 1)
             IN  Result(Nil, IF At(q, out, {"WORD", "PHRASE"}) THEN Advance(out) ELSE out)

(* primary: a word or a phrase with no letter or digit in it searches for nothing. *)
Primary(q, f, st) ==
  LET out == Advance(st) IN
  CASE st.i \notin DOMAIN q -> Result(Nil, st)
    [] At(q, st, {"LPAREN"}) -> Group(q, f, st)
    [] At(q, st, {"FIELD"}) -> FieldTerm(q, f, st)
    [] At(q, st, {"WORD", "PHRASE"}) ->
         IF q[st.i].items = <<>> THEN Result(Nil, ErrorUnless(out, "empty term", st.i, out.i))
         ELSE Result(Placed(Leaf(q[st.i].items, f), st.i, out.i), out)
    [] At(q, st, {"NEAR"}) -> Result(Nil, Error(out, "bad near", st.i, out.i))
    [] At(q, st, {"AND", "OR"}) -> Result(Nil, Error(out, "expected term", st.i, out.i))
    [] OTHER -> Result(Nil, st)

-----------------------------------------------------------------------------
(***************************************************************************)
(* run: what is left after the first expression is a mistake, never        *)
(* dropped in silence; then a query with no positive part is refused.      *)
(***************************************************************************)
RECURSIVE Positive(_)
Positive(n) ==
  CASE n.k = "not" -> n.child.k = "not" /\ Positive(n.child.child)
    [] n.k = "and" -> \E i \in DOMAIN n.children : Positive(n.children[i])
    [] n.k = "or" -> \A i \in DOMAIN n.children : Positive(n.children[i])
    [] OTHER -> TRUE

Unexpected(q, st) ==
  IF At(q, st, {"RPAREN"}) THEN Error(Advance(st), "unbalanced", st.i, st.i + 1)
  ELSE ErrorUnless(Advance(st), "expected term", st.i, st.i + 1)

RECURSIVE Rest(_, _)
Rest(q, st) ==
  IF st.i \notin DOMAIN q THEN st
  ELSE LET next == Unexpected(q, st)
       IN  Rest(q, IF Starts(q, next) THEN OrExpr(q, AnyField, next).st ELSE next)

Judged(n, st) ==
  Result(n, IF n # Nil /\ st.errors = <<>> /\ ~Positive(n)
            THEN Error(st, "all negative", n.at[1], n.at[2]) ELSE st)

AfterFirst(q, first) == Judged(first.n, Rest(q, first.st))

Start == [i |-> 1, errors |-> <<>>, covered |-> {}, depth |-> 0, readings |-> {}]
Run(q) ==
  IF q = <<>> THEN Result(Nil, Error(Start, "expected term", 1, 2))
  ELSE AfterFirst(q, OrExpr(q, AnyField, Start))

(***************************************************************************)
(* parse: an over-long query is refused unread, and one whose canonical    *)
(* form is over-long after; with no error, the tree and what is run.       *)
(***************************************************************************)
Refused(codes, readings) ==
  [ast |-> Nil, errors |-> codes, effective |-> Nil, identification |-> Nil, defaults |-> {},
   readings |-> readings]

Answer(ast, readings, applied) ==
  [ast |-> ast, errors |-> {}, effective |-> applied.effective,
   identification |-> applied.identification, defaults |-> applied.defaults, readings |-> readings]
Accepted(ast, readings, applied) ==
  IF Len(Render(applied.effective)) > MaxLength THEN Refused({"too long"}, readings)
  ELSE Answer(ast, readings, applied)

Answered(run) ==
  IF run.st.errors # <<>> THEN Refused(ToSet(run.st.errors), run.st.readings)
  ELSE IF run.n = Nil THEN Refused({"expected term"}, run.st.readings)
  ELSE Accepted(run.n, run.st.readings, ApplyDefaults(run.n))

Parse(q) == IF Len(q) > MaxLength THEN Refused({"too long"}, {}) ELSE Answered(Run(q))
=============================================================================
