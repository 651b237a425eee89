--------------------------- MODULE FilterClauses ----------------------------
(***************************************************************************)
(* Each filter field's top-level clause in a query, the one a facet click  *)
(* may rewrite (clauses.py), and the click itself: a splice over the       *)
(* clause, or the whole query wrapped with the clause beside it.           *)
(***************************************************************************)
EXTENDS QueryParsing

Clause(f, values) == <<Field(f)>> \o Grouped(RenderValues(values))
Splice(q, span, lexemes) == SubSeq(q, 1, span[1] - 1) \o lexemes \o SubSeq(q, span[2], Len(q))
Wrap(q, fields, values) ==
  Joined("AND", <<Grouped(q)>> \o [i \in DOMAIN fields |-> Clause(fields[i], values[fields[i]])])

(* The top-level conjuncts as written: AND groups flattened, nothing else. *)
RECURSIVE Written(_)
Written(n) ==
  IF n.k = "and" THEN FlattenSeq([i \in DOMAIN n.children |-> Written(n.children[i])]) ELSE <<n>>

(* Why a query after the widest click on `fields` cannot be written, or "" if it can. *)
ReadReason(read, fields) ==
  IF "too deep" \in read.errors THEN "too_deep"
  ELSE IF "too long" \in read.errors THEN "too_long"
  ELSE IF read.effective = Nil THEN "unparsable_edit"
  ELSE IF \E f \in fields : Own(Conjuncts(read.effective), f) # <<Filter(f, Vocabulary[f])>>
  THEN "multiple_clauses"
  ELSE ""
EditReason(edited, fields) == ReadReason(Parse(edited), fields)

Unspanned(reason) == [span |-> <<>>, reason |-> reason]

(***************************************************************************)
(* The wraps of the fields with no clause: all at once, and one by one     *)
(* only when that cannot be made.                                          *)
(***************************************************************************)
Alone(together, q, fields, f) ==
  IF together \in {"", "too_deep"} \/ Cardinality(fields) = 1 THEN together
  ELSE EditReason(Wrap(q, <<f>>, Vocabulary), {f})
WrapReason(q, fields, f) ==
  Alone(EditReason(Wrap(q, SetToSeq(fields), Vocabulary), fields), q, fields, f)

Spliced(reason, span) ==
  IF reason = "multiple_clauses" THEN Unspanned(reason) ELSE [span |-> span, reason |-> reason]

Report(q, ast, f, bare) ==
  LET own == Own(Conjuncts(Canonical(ast)), f)
      written == SelectSeq(Written(ast), LAMBDA c : ClauseField(Canonical(c)) = f)
  IN  IF Len(own) > 1 \/ Len(written) > 1 THEN Unspanned("multiple_clauses")
      ELSE IF own = <<>> /\ f \in bare
      THEN [span |-> <<Len(q) + 1, Len(q) + 1>>, reason |-> WrapReason(q, bare, f)]
      ELSE IF own = <<>> \/ written = <<>> THEN Unspanned("nested")
      ELSE IF own[1].k = "not" THEN [span |-> written[1].at, reason |-> "negated"]
      ELSE Spliced(EditReason(Splice(q, written[1].at, Clause(f, Vocabulary[f])), {f}), written[1].at)

(* The fields with no clause anywhere. *)
Bare(ast) == {f \in FilterFields : ~NestedFilter(Canonical(ast), f)}

(* What a click writes: the clause grouped, even for one value. *)
ClickedInPlace(q, f, report, values) == Splice(q, report.span, Clause(f, values))
Clicked(q, f, report, values) ==
  IF report.span[1] > Len(q) THEN Wrap(q, <<f>>, [g \in {f} |-> values])
  ELSE Splice(q, report.span, Clause(f, values))
=============================================================================
