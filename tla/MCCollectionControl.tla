------------------------- MODULE MCCollectionControl -------------------------
(* Instances of CollectionControl for TLC.                                  *)
EXTENDS CollectionControl
CONSTANTS d1, d2

Alone    == [d \in {d1} |-> "pop"]
SamePop  == [d \in {d1, d2} |-> "pop"]
===============================================================================
