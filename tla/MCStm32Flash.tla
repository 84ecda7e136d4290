---------------------------- MODULE MCStm32Flash ----------------------------
(* A small STM32: an erase page of two rows of two bytes, one page of       *)
(* bootloader and two pages of application.                                 *)
EXTENDS Stm32Flash

MCByte == {0, 1, 15}
\* The old application, and one that differs from it in each page.
ImageA == [a \in Addr |-> 1]
ImageB == [a \in Addr |-> IF a % 4 = 1 THEN 15 ELSE 1]
MCImages == {ImageA, ImageB}

\* The flash starts out with the bootloader and an erased application.
MCInit ==
  /\ flash = [c \in Addr |-> IF c < FLASH_APP_OFFSET THEN 0 ELSE ERASED]
  /\ RamInit

MCSpec == MCInit /\ [][Next]_vars
=============================================================================
