---------------------------- MODULE HeldIndexes ----------------------------
(***************************************************************************)
(* What the directory of indexes promises those who name a version in it:  *)
(* the version a reader resolves, a stored search record pins, or the      *)
(* `current` symlink was pointed at, stays on this machine.  Versions come *)
(* and go whole, in one step each; nothing else can be seen of builds,     *)
(* retires, locks, staging directories, interrupts and crashes.            *)
(***************************************************************************)
CONSTANTS Versions, None

VARIABLES
    held,     \* versions this machine has, under their name or set aside
    pins,     \* versions a record was stored for while they were held
    link      \* the version `current` was pointed at while it was held, or None

vars == <<held, pins, link>>

Init ==
    /\ held \in SUBSET Versions
    /\ pins = {}
    /\ link \in held \cup {None}

\* op index build
Add(v) ==
    /\ held' = held \cup {v}
    /\ UNCHANGED <<pins, link>>

\* op index retire: refused for a version that someone still names.
Drop(v) ==
    /\ v \in held
    /\ v \notin pins
    /\ v # link
    /\ held' = held \ {v}
    /\ UNCHANGED <<pins, link>>

Pin(v) ==
    /\ v \in held
    /\ pins' = pins \cup {v}
    /\ UNCHANGED <<held, link>>

Link(v) ==
    /\ v \in held \cup {None}
    /\ link' = v
    /\ UNCHANGED <<held, pins>>

Next ==
    \/ \E v \in Versions : Add(v) \/ Drop(v) \/ Pin(v)
    \/ \E v \in Versions \cup {None} : Link(v)

Spec == Init /\ [][Next]_vars

(* Whatever is named is still here.                                        *)
NamedIsHeld == pins \subseteq held /\ link \in held \cup {None}
=============================================================================
