----------------------------- MODULE MCQueries ------------------------------
(***************************************************************************)
(* Short queries from small alphabets, each chosen for one part of the     *)
(* grammar, against papers that tell its trees apart.                      *)
(***************************************************************************)
EXTENDS Queries, TLC

MCTextFields == {"title", "abstract"}
MCVocabulary == [track |-> {"main", "workshop"}, status |-> {"accepted", "rejected"}]
MCDefaults == [track |-> {"main"}, status |-> {"accepted"}]
MCDefaultOrder == <<"track", "status">>
MCAllowed == [a |-> {"a"}, b |-> {"b"}, w |-> {"a", "c"}, main |-> {"main"}, workshop |-> {"workshop"},
  rejected |-> {"rejected"}]

Doc(title, abstract, track, status) ==
  [tokens |-> [title |-> title, abstract |-> abstract], value |-> [track |-> track, status |-> status]]
MCDocs == <<
  Doc(<<"a", "b">>, <<>>, "main", "accepted"),
  Doc(<<"b">>, <<"a">>, "main", "accepted"),
  Doc(<<"b", "a">>, <<"c">>, "main", "rejected"),
  Doc(<<"c", "x", "b">>, <<"main">>, "workshop", "accepted"),
  Doc(<<"b", "x", "c">>, <<"a">>, "workshop", "rejected"),
  Doc(<<"c">>, <<"b">>, "main", "accepted"),
  Doc(<<"x">>, <<>>, "main", "accepted"),
  Doc(<<"a">>, <<>>, "workshop", "accepted") >>

A == Word(<<"a">>)
B == Word(<<"b">>)
W == Word(<<"w">>)
Main == Word(<<"main">>)
Workshop == Word(<<"workshop">>)
Rejected == Word(<<"rejected">>)
Plus == Word(<<>>)
Or == [k |-> "OR"]
And == [k |-> "AND"]
Negation == [k |-> "NOT"]
Parens == {[k |-> "LPAREN"], [k |-> "RPAREN"]}

Theme(lexemes, typed) == [pasted |-> <<>>, lexemes |-> lexemes, typed |-> typed]
Pasted(query, lexemes, more) ==
  [pasted |-> query, lexemes |-> lexemes, typed |-> Len(query) + more]

Deep(l) == Grouped(Grouped(Grouped(<<l>>)))

(* The pasted beginnings bring what follows to the limits of length: one in *)
(* its canonical form, one in a warning's reading, one in a click.          *)
MCThemes == {
  Theme({A, B, And, Or, Negation} \cup Parens, 4),
  Theme({A, Or} \cup Parens, 7),
  Theme({A, Negation, Field("track"), Main} \cup Parens, 6),
  Theme({Field("track"), Main, Workshop, Or, Negation} \cup Parens, 5),
  Theme({W, B, Phrase(<<"w", "b">>), Near(1), Field("title")} \cup Parens, 4),
  Theme({A, Plus, Field("status"), Field("source"), Rejected, Near(0), Negation}, 4),
  Pasted(<<A, B, Or, B>>, {A, B, W, Or}, 3),
  Pasted(Deep(A) \o <<B, Or>> \o Deep(B), {A, W, Or, Negation}, 5),
  Pasted(Deep(A) \o Deep(B) \o <<Field("track"), Main>>, {A, Or, Negation, Field("status"), Rejected}, 3) }
=============================================================================
