------------------------------- MODULE MCCommands -------------------------------
(* A byte has 18 values, so that the mask of GET_EXTRA_INFO takes something   *)
(* away, and the packet 10 bytes, just enough for the replies that            *)
(* processCommand relies on.  Flash has a board info and either of two        *)
(* applications, or is erased; pages have two bytes.                          *)
EXTENDS Commands

MCArguments ==
  {<< >>, <<0, 0, 7, 7>>} \cup { <<a>> : a \in {0, 1, 17} } \cup ({0, 1, 2, 17} \X {0, 1, 2, 17}) \cup
  ({0, 1, 5, 17} \X {0, 1, 5, 17} \X {0, 1, 5, 6, 7, 8, 17})

MCBoardInfo(a) == IF a = BOARD_INFO THEN 9 ELSE IF a = BOARD_INFO + 1 THEN 2
  ELSE IF a = BOARD_INFO + 4 THEN 17 ELSE a % 16
InBoardInfo(a) == a \in BOARD_INFO .. BOARD_INFO + BOARD_INFO_SIZE - 1

MCFlashes ==
  { [a \in 0 .. ADDR - 1 |-> IF InBoardInfo(a) THEN MCBoardInfo(a) ELSE a % 13],
    [a \in 0 .. ADDR - 1 |-> IF InBoardInfo(a) THEN MCBoardInfo(a) ELSE 17],
    [a \in 0 .. ADDR - 1 |-> 17] }
MCFLASH_APP_OFFSET(b) == IF b = "gphopper" THEN 144 ELSE 0
MCApplicationSize(b) == IF b = "gphopper" THEN 160 ELSE 300
MCSerialNumber == <<3, 7, 7, 1, 0>>
=============================================================================
