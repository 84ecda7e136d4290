---------------------------- MODULE MCAttinyTwoWire ----------------------------
(* A buffer of two bytes, and the two addresses of a child that is addressed *)
(* by itself and by general calls.                                           *)
EXTENDS AttinyTwoWire

MCReplies == {<< >>, <<3>>, <<4, 3>>}
=============================================================================
