------------------------------ MODULE MCManuals ------------------------------
(* Small instances of Manuals for TLC. *)
EXTENDS Manuals, TLC

CONSTANTS m1, i1, i2, r1, r2, k1, k2

Text  == [kind |-> "text", size |-> 1]
Image == [kind |-> "image", size |-> 1]
PDF   == [kind |-> "pdf", size |-> 2]

SmallBodies == {Text, Image, PDF}

\* Manuals, items, requests and keys are interchangeable.
Symmetry == Permutations(Manuals) \cup Permutations(Items) \cup Permutations(Requests)
              \cup Permutations(Keys)
=============================================================================
