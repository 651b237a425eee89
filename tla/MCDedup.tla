------------------------------- MODULE MCDedup -------------------------------
(* Small colliding inputs for TLC, as tests/unit/ingest/test_dedup_props.py *)
(* draws them: two submissions, two papers, three titles, two abstracts.   *)
EXTENDS Dedup

MCValueOrder ==
    <<None, "accepted", "creative_ai", "education", "f1", "f2", "f3", "icml 2023", "icml 2024",
      "main", "neurips 2024", "not listed", "other", "p1", "p2", "rejected", "unknown", "workshop",
      "A", "B", "C", "X", "Y", NoKey>>

MCCrawls == {<<"pmlr", "icml 2024">>}

(* One source's record: a claim for each field it says something of.        *)
Record(id, source, at, page, said) ==
    {[id |-> id,
      claims |-> {[source |-> source, field |-> f, at |-> at, value |-> said[f],
                   evidence |-> IF f = "abstract" THEN page ELSE None] :
                   f \in {g \in DOMAIN said : said[g] # None}}]}

Note(y, f, title, abstract, track, status, venueid) ==
    Record(<<y, f>>, "openreview_v2", 1, None,
        [title |-> title, abstract |-> abstract, track |-> track, status |-> status,
         venue_id |-> venueid, forum |-> f])
Listing(y, p, source, title, abstract, track, forum) ==
    Record(<<y, p>>, source, 1, None,
        [title |-> title, abstract |-> abstract, track |-> track, status |-> "accepted",
         proceedings |-> p, forum |-> forum])
Import(y, n, at, title, abstract, page, track, status) ==
    Record(<<y, n>>, "ris", at, page,
        [title |-> title, abstract |-> abstract, track |-> track, status |-> status,
         proceedings |-> IF n \in Papers THEN n ELSE None,
         forum |-> IF n \in Forums THEN n ELSE None])

(* An import of a note that names the paper it was published as.            *)
ImportOfBoth(y, f, p, at, title, abstract) ==
    Record(<<y, f>>, "ris", at, p,
        [title |-> title, abstract |-> abstract, track |-> "main", status |-> "accepted",
         proceedings |-> p, forum |-> f])

Or(S) == S \cup {{}}

(* ICML: a listing may link a forum.                                        *)
I == "icml 2024"
NotesOne == {Note(I, "f1", n[1], n[2], n[3], n[4], None) : n \in
    {<<"A", "X", "main", "accepted">>, <<"A", "X", "main", "rejected">>,
     <<"B", "X", "workshop", "accepted">>, <<"B", None, "unknown", "accepted">>}}
NotesTwo == {Note(I, "f2", n[1], n[2], "main", n[3], None) : n \in
    {<<"B", "Y", "rejected">>, <<"B", "X", "accepted">>}}
    \cup {Note("icml 2023", "f1", "A", "X", "main", "accepted", None)}
ImportsOfNote == {Import(I, "f1", 2, "B", "X", "f1", "main", "accepted"),
                  Import(I, "f1", 2, "C", "Y", None, "main", "rejected"),
                  ImportOfBoth(I, "f1", "p2", 2, "B", "X")}
ListingsOne == {Listing(I, "p1", "pmlr", "A", None, "main", None),
                Listing(I, "p1", "pmlr", "C", None, "unknown", "f1")}
ImportsOne == {Import(I, "p1", 1, "A", "X", "p1", "main", "accepted"),
               Import(I, "p1", 1, "C", "Y", "p2", "main", "accepted")}
ImportsAgain == {Import(I, "p1", 2, "B", "X", "p1", "main", "accepted"),
                 Import(I, "p1", 2, "C", None, None, "main", "accepted")}
Twos == {Listing(I, "p2", "pmlr", "A", "X", "main", None),
         Listing(I, "p2", "pmlr", "B", None, "main", "f1"),
         Import(I, "p2", 1, "A", "Y", "p2", "main", "accepted")}

ICML == {a \cup b \cup c \cup d \cup e \cup f \cup g :
    a \in Or(NotesOne), b \in Or(NotesTwo), c \in Or(ImportsOfNote), d \in Or(ListingsOne),
    e \in Or(ImportsOne), f \in Or(ImportsAgain), g \in Or(Twos)}

(* ICML again: a merge that costs an import its title frees the others' group. *)
Passes == {a \cup b \cup c \cup d :
    a \in Or({Import(I, "f1", at, "C", "X", "f1", "main", "accepted") : at \in 1..2}),
    b \in Or({Import(I, "p1", 1, "B", "X", "p1", "main", "accepted")}),
    c \in Or({Listing(I, "p2", "pmlr", "B", "Y", "main", None)}),
    d \in Or({Note(I, "f2", t, None, "main", "accepted", None) : t \in {"B", "C"}})}

(* NeurIPS: p2 is on its Creative AI track.                                 *)
N == "neurips 2024"
Creative == {Note(N, "f1", "A", None, "other", s, "creative_ai") : s \in {"unknown", "rejected"}}
Others == {Note(N, "f2", "A", None, n[1], "unknown", n[2]) : n \in
    {<<"other", "education">>, <<"main", None>>, <<"other", "creative_ai">>}}
CreativeListings == {Listing(N, "p2", "neurips_proceedings", "A", None, "other", None),
                     Import(N, "p2", 1, "A", None, None, "other", "accepted")}
MainListings == {Listing(N, "p1", "neurips_proceedings", "A", None, "main", None)}

NeurIPS == {a \cup b \cup c \cup d :
    a \in Or(Creative), b \in Or(Others), c \in Or(CreativeListings), d \in Or(MainListings)}

MCInputs == ICML \cup Passes \cup NeurIPS
=============================================================================
