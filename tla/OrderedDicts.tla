---------------------------- MODULE OrderedDicts ----------------------------
(***************************************************************************)
(* The collections.OrderedDict the server's bounded caches are kept in, as *)
(* a sequence of entries, oldest first.  Every entry is a record with a    *)
(* field `key`, and no key occurs twice.  Only the operations the code     *)
(* calls are here: assignment, move_to_end, del, and popitem(last=False)   *)
(* repeated while the dict is over its bound.                              *)
(***************************************************************************)
EXTENDS Naturals, Sequences

KeysOf(d) == {d[i].key : i \in DOMAIN d}

PlaceOf(d, k) == CHOOSE i \in DOMAIN d : d[i].key = k

EntryOf(d, k) == d[PlaceOf(d, k)]

IsOrderedDict(d) ==
    \A i, j \in DOMAIN d : d[i].key = d[j].key => i = j

\* del d[k]; a no-op on an absent key (the callers test for it first).
Without(d, k) ==
    IF k \in KeysOf(d)
    THEN [i \in 1..(Len(d) - 1) |-> IF i < PlaceOf(d, k) THEN d[i] ELSE d[i + 1]]
    ELSE d

\* d[e.key] = e: an existing key keeps its place, a new one goes last.
Put(d, e) ==
    IF e.key \in KeysOf(d)
    THEN [i \in DOMAIN d |-> IF d[i].key = e.key THEN e ELSE d[i]]
    ELSE Append(d, e)

\* d.move_to_end(k)
MoveToEnd(d, k) ==
    IF k \in KeysOf(d) THEN Append(Without(d, k), EntryOf(d, k)) ELSE d

\* while len(d) > n: d.popitem(last=False)
Newest(d, n) ==
    IF Len(d) > n THEN SubSeq(d, Len(d) - n + 1, Len(d)) ELSE d
=============================================================================
