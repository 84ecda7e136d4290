---------------------------- MODULE MCAttinyUpload ----------------------------
(* The ATtiny of MCAttinyFlash, and images of two pages and a byte that all   *)
(* differ in the last page.  ImageB has another reset vector; page 0 of       *)
(* ImageC is what an upload of ImageA leaves when it is cut after one row.    *)
EXTENDS AttinyUpload, Bitwise

MCByte == 0 .. 15
MCBurn == [p \in MCByte \X MCByte |-> p[1] & p[2]]
MCBootVector == <<5, 12>>

ImageA == [a \in Addr |-> CASE a = 0 -> 2 [] a = 1 -> 12 [] a % 4 = 1 -> 3 [] OTHER -> 5]
ImageB == [ImageA EXCEPT ![0] = 9, ![8] = 2]
ImageC == [ImageA EXCEPT ![2] = 15, ![3] = 15, ![8] = 9]
MCImages == {ImageA, ImageB, ImageC}

MCInit ==
  /\ flash = [c \in Cells |-> CASE c = 0 -> MCBootVector[1] [] c = 1 -> MCBootVector[2]
                                [] c = 10 -> 0 [] c = 11 -> 12
                                [] c > 11 -> 0 [] OTHER -> ERASED]
  /\ RamInit /\ MasterInit
  /\ finalizes = 0 /\ fresh = FALSE /\ cut = FALSE

MCSpec == MCInit /\ [][UploadNext]_uploadVars /\ Fairness
=============================================================================
