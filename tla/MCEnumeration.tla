---------------------------- MODULE MCEnumeration ----------------------------
(* Two children in a chain and one beside them; a connector stays empty.     *)
EXTENDS Enumeration

CONSTANTS c1, c2, c3

MCPlug == [c \in Children |-> CASE c = c1 -> <<Master, 0>> [] c = c2 -> <<c1, 0>>
                                [] c = c3 -> <<Master, 1>>]
MCNumChildren == [c \in Children |-> 1]
MCHwType == [c \in Children |-> 2]
=============================================================================
