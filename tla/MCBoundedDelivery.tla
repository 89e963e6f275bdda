------------------------- MODULE MCBoundedDelivery -------------------------
(***************************************************************************)
(* BoundedDelivery with four chunks, one of them empty in source bytes (the *)
(* flush of a decoder) and one that alone fills the queue.                  *)
(***************************************************************************)
EXTENDS BoundedDelivery

CONSTANTS Full, Half, Other, Empty

MCItems == {Full, Half, Other, Empty}
MCSize == [i \in MCItems |->
             CASE i = Full -> 2 [] i = Empty -> 0 [] OTHER -> 1]
MCCapacity == 2
=============================================================================
