----------------------------- MODULE DurableLog -----------------------------
(***************************************************************************)
(* What a recorder of a conversation promises: items are numbered in the   *)
(* order in which they were recorded, the store has one header before all  *)
(* items and grows at its end by one item at a time in that order, and     *)
(* only stored items are ever reported as safe.  Items may be lost only    *)
(* when the writer goes away, and then all that were not stored are lost   *)
(* together: the store never has a hole within one life of the writer.     *)
(* RolloutWriter is shown to implement this.                               *)
(***************************************************************************)
EXTENDS Integers

VARIABLES
    recorded,  \* items 1..recorded were accepted
    headers,   \* the places of the store at which there is a header
    stored,    \* the stored items, by their places in the store
    lost,      \* items up to this one that are not stored never will be
    promised   \* items whose storage was reported

vars == <<recorded, headers, stored, lost, promised>>

Init == recorded = 0 /\ headers = {} /\ stored = [n \in {} |-> 0] /\ lost = 0 /\ promised = {}

\* Item i is in the store.
Has(i) == \E n \in DOMAIN stored : stored[n] = i

\* Place n lies behind everything in the store.
AtEnd(n) == \A m \in headers \cup DOMAIN stored : m < n

Record ==
    /\ recorded' \in Nat /\ recorded' > recorded
    /\ UNCHANGED <<headers, stored, lost, promised>>

\* The store is given its header, before any item.
Open(n) ==
    /\ headers = {} /\ DOMAIN stored = {} /\ n \in Nat
    /\ headers' = {n}
    /\ UNCHANGED <<recorded, stored, lost, promised>>

\* Item i is stored at place n: the first one that is neither stored nor lost,
\* and behind everything stored before.
Store(i, n) ==
    /\ headers # {} /\ AtEnd(n) /\ n \in Nat
    /\ i \in (lost + 1)..recorded
    /\ \A m \in DOMAIN stored : stored[m] < i
    /\ \A j \in (lost + 1)..(i - 1) : Has(j)
    /\ stored' = [m \in DOMAIN stored \cup {n} |-> IF m = n THEN i ELSE stored[m]]
    /\ UNCHANGED <<recorded, headers, lost, promised>>

Promise ==
    /\ promised \subseteq promised'
    /\ \A i \in promised' : Has(i)
    /\ UNCHANGED <<recorded, headers, stored, lost>>

Lose == lost' = recorded /\ UNCHANGED <<recorded, headers, stored, promised>>

Next ==
    \/ Record \/ Promise \/ Lose
    \/ \E n \in headers' : Open(n)
    \/ \E n \in DOMAIN stored' : Store(stored'[n], n)

Spec == Init /\ [][Next]_vars

=============================================================================
