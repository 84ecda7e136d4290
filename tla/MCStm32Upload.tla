---------------------------- MODULE MCStm32Upload ----------------------------
(* The STM32 of MCStm32Flash, and images of a page, a row and a byte that    *)
(* differ in the second page.                                                *)
EXTENDS Stm32Upload

MCByte == {0, 1, 2, 15}
ImageA == [a \in Addr |-> IF a % 3 = 0 THEN 1 ELSE 2]
ImageB == [ImageA EXCEPT ![5] = 1]
MCImages == {ImageA, ImageB}

\* Flash holds no application.
MCInit ==
  /\ RamInit /\ MasterInit
  /\ flash = [c \in Addr |-> IF c < FLASH_APP_OFFSET THEN 0 ELSE ERASED]

MCSpec == MCInit /\ [][UploadNext]_uploadVars /\ Fairness
=============================================================================
