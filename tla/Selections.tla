----------------------------- MODULE Selections -----------------------------
(***************************************************************************)
(* The list operations that HEPhotoPickerViewController and                *)
(* HEPhotoBrowserViewController apply to selectedModels, a Swift array:    *)
(* count(where:), removeAll(where:), contains(where:) and the position of  *)
(* an element in an ordered collection.  A predicate is given as the set V *)
(* of the elements that satisfy it.                                        *)
(*                                                                         *)
(* RemoveAll is written without recursion, through the order-preserving    *)
(* numbering of the places that are kept, because SelectSeq is recursive   *)
(* and SelectionsProofs proves facts about it for lists of any length.     *)
(***************************************************************************)
EXTENDS Integers, Sequences, FiniteSets

\* The number of elements of the set of integers K that are at most i.
Rank(K, i) == Cardinality({k \in K : k <= i})

\* The j-th smallest element of K, counted from 1.
Nth(K, j) == CHOOSE i \in K : Rank(K, i) = j

\* The places of the list s whose element is in V.
Places(s, V) == {i \in DOMAIN s : s[i] \in V}

\* s.count { $0 in V }
Count(s, V) == Cardinality(Places(s, V))

\* s.contains { $0 in V }
Contains(s, V) == Places(s, V) # {}

\* s.removeAll { $0 in V }: the other elements stay, in their order.
RemoveAll(s, V) ==
    LET keep == DOMAIN s \ Places(s, V)
    IN  [j \in 1..Cardinality(keep) |-> s[Nth(keep, j)]]
=============================================================================
