----------------------------- MODULE Takedowns -----------------------------
(***************************************************************************)
(* What the takedown list reaches (takedowns.py::same_paper).  A paper may *)
(* be held under several ids: the list names one of them, and every id     *)
(* linked to it, through merges, twins and shared global native ids,       *)
(* transitively, is the same paper.                                        *)
(***************************************************************************)
CONSTANTS
    Ids,      \* record ids
    Native,   \* id -> its globally unique native part, or NoNative
    NoNative  \* the native part of a proceedings hash: it links nothing

ASSUME NativeIsTotal == DOMAIN Native = Ids

IdPairs == Ids \X Ids

(* One undirected link per (survivor, merged) or (record, twin) pair, and   *)
(* one between two ids with the same global native part.                    *)
Linked(a, b, pairs) ==
    \/ <<a, b>> \in pairs
    \/ <<b, a>> \in pairs
    \/ Native[a] # NoNative /\ Native[a] = Native[b]

(* The ids same_paper looks at: a version's own, the pairs', the list's.    *)
Universe(listed, pairs, held) ==
    listed \cup held \cup {p[1] : p \in pairs} \cup {p[2] : p \in pairs}

LinkClosed(S, universe, pairs) ==
    \A a \in S, b \in universe : Linked(a, b, pairs) => b \in S

(* Everything reachable from the list: what every closed set around it has. *)
Reached(listed, universe, pairs) ==
    {r \in universe :
        \A S \in SUBSET universe :
            listed \subseteq S /\ LinkClosed(S, universe, pairs) => r \in S}

(* The ids of `held` that are a listed paper, under its listed id or        *)
(* another.                                                                 *)
SamePaper(listed, pairs, held) ==
    held \cap Reached(listed, Universe(listed, pairs, held), pairs)
=============================================================================
