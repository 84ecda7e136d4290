--------------------------- MODULE MCStm32TwoWire ----------------------------
(* A buffer of two bytes, and the two addresses of a child that is addressed *)
(* by itself and by general calls.                                           *)
EXTENDS Stm32TwoWire

MCReplies == {<< >>, <<4, 3>>}
=============================================================================
