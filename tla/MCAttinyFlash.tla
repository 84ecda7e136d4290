---------------------------- MODULE MCAttinyFlash ----------------------------
(* A small ATtiny: an erase page of two rows of two bytes, three pages of    *)
(* application with the trampoline in the last word, one page of bootloader, *)
(* bytes of four bits: the opcode 1100, a bit for rjmp or rcall and three    *)
(* bits of jump, which reach all of flash.                                   *)
EXTENDS AttinyFlash, Bitwise

MCByte == 0 .. 15
MCBurn == [p \in MCByte \X MCByte |-> p[1] & p[2]]
\* rjmp to the first word of the bootloader.
MCBootVector == <<5, 12>>

Fill(a) == IF a % 4 = 1 THEN 3 ELSE 5
\* Two applications that differ in the reset vector, in the middle page and in
\* the last one; byte by byte, writes take from either.  An upload finalized
\* after its first byte has no jump at address 0: the buffer holds a 0 there.
ImageA == [a \in Addr |-> CASE a = 0 -> 2 [] a = 1 -> 12 [] OTHER -> Fill(a)]
ImageB == [ImageA EXCEPT ![0] = 9, ![6] = 0, ![8] = 2]
MCImages == {ImageA, ImageB}

\* Fresh from the programmer: bootloader, reset vector, and the trampoline
\* that main.cpp puts before the bootloader.
MCInit ==
  /\ flash = [c \in Cells |-> CASE c = 0 -> MCBootVector[1] [] c = 1 -> MCBootVector[2]
                                [] c = 10 -> 0 [] c = 11 -> 12
                                [] c > 11 -> 0 [] OTHER -> ERASED]
  /\ RamInit
  /\ finalizes = 0 /\ fresh = FALSE /\ cut = FALSE

MCSpec == MCInit /\ [][Next]_attinyVars
=============================================================================
