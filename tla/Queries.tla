------------------------------ MODULE Queries -------------------------------
(***************************************************************************)
(* A query as it is written: typed lexeme by lexeme, from nothing or on to *)
(* what was pasted, parsed after each, and edited by the program itself: a *)
(* facet click rewrites one clause of it, a warning's reading replaces a   *)
(* level of it, and a saved search replays its canonical form.  `read` is  *)
(* what the parser answers.                                                *)
(***************************************************************************)
EXTENDS FilterClauses, QueryMatching

CONSTANT Themes  \* [pasted: where typing starts, lexemes: what is typed, typed: the length it stops at]

ASSUME QueriesAssumption == Texts = TextFields /\ \A t \in Themes : t.typed \in Nat

VARIABLES theme, q, read, did
vars == <<theme, q, read, did>>

Typing == [edit |-> "typing"]

Init ==
  /\ theme \in Themes
  /\ q = theme.pasted /\ read = Parse(theme.pasted) /\ did = Typing

Writes(edited, edit) == q' = edited /\ read' = Parse(edited) /\ did' = edit /\ UNCHANGED theme

Type ==
  /\ did = Typing /\ Len(q) < theme.typed
  /\ \E l \in theme.lexemes : Writes(Append(q, l), Typing)

Click ==
  /\ did = Typing /\ read.ast # Nil
  /\ \E f \in FilterFields :
       \E report \in {Report(q, read.ast, f, Bare(read.ast))} :
         /\ report.reason = ""
         /\ \E values \in SUBSET Vocabulary[f] \ {{}} :
              Writes(Clicked(q, f, report, values), [edit |-> "click", f |-> f, values |-> values])

LoadReading ==
  /\ did = Typing
  /\ \E w \in read.readings : Writes(Splice(q, w.at, w.reading), [edit |-> "reading"])

Replay ==
  /\ did = Typing /\ read.ast # Nil
  /\ Writes(Render(read.effective), [edit |-> "replay"])

Next == Type \/ Click \/ LoadReading \/ Replay

Spec == Init /\ [][Next]_vars

-----------------------------------------------------------------------------
(***************************************************************************)
(* Every word and phrase of a query that parses is in its tree: a mistake  *)
(* is never passed over by searching for the rest (`run`).                 *)
(***************************************************************************)
RECURSIVE LeafItems(_)
LeafItems(n) ==
  CASE n.k = "leaf" -> <<n.items>>
    [] n.k = "near" -> <<n.left.items, n.right.items>>
    [] n.k = "not" -> LeafItems(n.child)
    [] n.k \in {"and", "or"} -> FlattenSeq([i \in DOMAIN n.children |-> LeafItems(n.children[i])])
    [] OTHER -> <<>>

RECURSIVE FilterValues(_)
FilterValues(n) ==
  CASE n.k = "filter" -> {<<v>> : v \in n.values}
    [] n.k = "not" -> FilterValues(n.child)
    [] n.k \in {"and", "or"} -> UNION {FilterValues(n.children[i]) : i \in DOMAIN n.children}
    [] OTHER -> {}

NothingDropped ==
  read.ast # Nil =>
    \A i \in DOMAIN q : q[i].k \in {"WORD", "PHRASE"} =>
      q[i].items \in ToSet(LeafItems(read.ast)) \cup FilterValues(read.ast)

(***************************************************************************)
(* What the engine runs matches what was typed: nothing typed is dropped,  *)
(* and the papers are those of the tree as typed, judged one by one, and   *)
(* of the default of every field the query has no top-level clause of.     *)
(* Neither the canonical form, nor the compilation (compile.py), nor the   *)
(* position checks change it.                                              *)
(***************************************************************************)
RunsWhatWasTyped ==
  /\ NothingDropped
  /\ read.ast # Nil =>
       Compiled(read.effective) =
         {d \in MatchIds(read.ast) : \A f \in DOMAIN Defaults :
            Own(Conjuncts(Canonical(read.ast)), f) = <<>> => Docs[d].value[f] \in Defaults[f]}

(***************************************************************************)
(* The exclusion buckets sum to the records the defaults removed, so the   *)
(* internal error `excluded` keeps for the contrary is never raised; and   *)
(* aggregating over fewer fields gives the same counts.                    *)
(***************************************************************************)
ExclusionsAddUp ==
  read.ast # Nil =>
    LET out == Excluded(read, DOMAIN Defaults)
    IN  /\ out = Excluded(read, FilterFields)
        /\ MapThenSumSet(LAMBDA i : Sum(out.buckets[i]), DOMAIN out.buckets) = out.removed
        /\ out.removed = Cardinality(MatchIds(read.identification)) - Cardinality(MatchIds(read.effective))

(***************************************************************************)
(* "so it must itself be a valid query (`parse(canonical)` accepted and    *)
(* idempotent)" (parser.py:862-864; spec 02:561, spec 04:1177): whatever   *)
(* is saved replays as the search it was.                                  *)
(***************************************************************************)
ReplaysTheSame ==
  [][did'.edit = "replay" =>
       /\ read'.effective = read.effective
       /\ read'.identification = read.identification /\ read'.defaults = read.defaults]_vars

(***************************************************************************)
(* How deep the groups and NOTs of a tree nest once it is rendered.        *)
(***************************************************************************)
RECURSIVE Nesting(_)
Nesting(n) ==
  CASE n.k = "not" -> 1 + Nesting(n.child)
    [] n.k \in {"and", "or"} -> 1 + Max({Nesting(n.children[i]) : i \in DOMAIN n.children})
    [] n.k = "near" -> 1
    [] OTHER -> 0

(***************************************************************************)
(* A canonical form fails to replay as the search it was exactly when its  *)
(* groups and NOTs, the one around it all with them, nest deeper than a    *)
(* query may: never for its length, and never as another search.           *)
(***************************************************************************)
ReplaysUnlessTooDeep ==
  [][did'.edit = "replay" =>
       IF Nesting(read.effective) > MaxDepth THEN read'.errors = {"too deep"}
       ELSE /\ read'.effective = read.effective
            /\ read'.identification = read.identification /\ read'.defaults = read.defaults]_vars

(***************************************************************************)
(* Loading a warning's reading changes neither the search nor the mistakes *)
(* the query has, unless the parentheses take it past a limit; and that    *)
(* level is no longer warned about.                                        *)
(***************************************************************************)
ReadingsKeepMeaning ==
  [][did'.edit = "reading" =>
       \/ read'.errors \cap {"too deep", "too long"} # {}
       \/ /\ read'.effective = read.effective /\ read'.errors = read.errors
          /\ Cardinality(read'.readings) < Cardinality(read.readings)]_vars

(***************************************************************************)
(* A click the server allowed gives a query whose one clause of the field  *)
(* is the clicked one, every other conjunct as it was (`filter_clauses`).  *)
(***************************************************************************)
ClicksEditOneClause ==
  [][did'.edit = "click" =>
       ToSet(Conjuncts(read'.effective)) =
         {c \in ToSet(Conjuncts(read.effective)) : ClauseField(c) # did'.f}
           \cup {Filter(did'.f, did'.values)}]_vars
=============================================================================
