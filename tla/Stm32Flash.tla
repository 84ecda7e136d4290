------------------------------ MODULE Stm32Flash ------------------------------
(***************************************************************************)
(* The bootloader's flash handling in the STM32 build: WriteFlash with the *)
(* writePage of stm32/SelfProgram.cpp.  The application starts above the   *)
(* bootloader, at FLASH_APP_OFFSET; a page is erased when its first row is *)
(* written; erasing or programming may fail, and the error bits of         *)
(* FLASH_SR become the reason of the COMMAND_FAILED.                       *)
(***************************************************************************)
EXTENDS WriteFlash

CONSTANT HwErrors    \* the results writePage forms from FLASH_SR

ASSUME HwErrorAssumption == HwErrors \subseteq Nat \ (0 .. 15)

\* The application is whole pages (APPLICATION_SIZE of the Makefile).
ASSUME ApplicationAssumption == ApplicationSize % FLASH_ERASE_SIZE = 0

Init ==
  /\ flash \in [Addr -> Byte]
  /\ RamInit

\* readByte(address) is the cell at FLASH_BASE + address.
ReadByte == flash

(***************************************************************************)
(* writePage.  address + len is computed in int, so it does not wrap.      *)
(***************************************************************************)
\* Variant with a bug: a wrapped address is not noticed.
AboveApplication(a, n) == a + n > FLASH_APP_OFFSET + ApplicationSize

OutsideApplication(a, n) ==
  a < FLASH_APP_OFFSET \/ a + n > FLASH_APP_OFFSET + ApplicationSize

RowError(a, n) ==
  IF n = 0 \/ a % FLASH_WRITE_SIZE # 0 \/ n > FLASH_WRITE_SIZE THEN 1
  ELSE IF OutsideApplication(a, n) THEN 3
  ELSE 0

\* Variant with a bug: the page size is taken to be twice what it is.
EraseEveryOther(a) == a % (2 * FLASH_ERASE_SIZE) = 0

EraseNeeded(a) == a % FLASH_ERASE_SIZE = 0

\* Variant with a bug: two pages are erased.
InTwoPages(c, a) == c \in a .. a + 2 * FLASH_ERASE_SIZE - 1

InPage(c, a) == c \in a .. a + FLASH_ERASE_SIZE - 1
InRow(c, a) == c \in a .. a + FLASH_WRITE_SIZE - 1

\* Row a with the first done bytes of writeBuffer programmed, padded with 0xff.
Programmed(a, n, done) ==
  [c \in Addr |->
    IF InRow(c, a) /\ c - a < done
      THEN IF c - a < n THEN writeBuffer[offset + (c - a)] ELSE ERASED
      ELSE flash[c]]

AtRow == pc = "row" /\ len > 0

RejectRow ==
  /\ AtRow
  /\ RowError(RowAddress, RowLen) # 0
  /\ RowFailed(RowError(RowAddress, RowLen))
  /\ UNCHANGED <<flash, buffers, eraseCount, cmd, reply, history>>

\* flash_erase_page: the page is erased, or left alone with an error set.
ErasePage ==
  /\ AtRow
  /\ RowError(RowAddress, RowLen) = 0
  /\ EraseNeeded(RowAddress)
  /\ CountErase
  /\ \/ /\ flash' = [c \in Addr |-> IF InPage(c, RowAddress) THEN ERASED ELSE flash[c]]
        /\ pc' = "program"
        /\ UNCHANGED <<commitV, err>>
     \/ /\ \E e \in HwErrors : RowFailed(e)
        /\ UNCHANGED flash
  /\ UNCHANGED <<buffers, cmd, reply, history>>

\* flash_program_row: all of the row, or a part of it and an error.
ProgramRow ==
  /\ \/ pc = "program"
     \/ AtRow /\ RowError(RowAddress, RowLen) = 0 /\ ~ EraseNeeded(RowAddress)
  /\ \/ /\ flash' = Programmed(RowAddress, RowLen, FLASH_WRITE_SIZE)
        /\ RowDone
     \/ /\ \E done \in 0 .. FLASH_WRITE_SIZE - 1 :
             flash' = Programmed(RowAddress, RowLen, done)
        /\ \E e \in HwErrors : RowFailed(e)
  /\ UNCHANGED <<buffers, eraseCount, cmd, reply, history>>

Next ==
  \/ Reset
  \/ \E a \in Addr : WriteRejected(a)
  \/ StartUpload \/ ContinueUpload \/ FinalizeFlash
  \/ LocalStep(ReadByte)
  \/ RejectRow \/ ErasePage \/ ProgramRow

Spec == Init /\ [][Next]_vars

-----------------------------------------------------------------------------
\* The type invariant.
TypeOK == TypeInvariant /\ flash \in [Addr -> Byte]

\* PROTOCOL.md: a successful FINALIZE_FLASH "guarantees that the sent bytes
\* are (eventually) written to flash".  After an upload in which every write
\* was answered OK and a FINALIZE_FLASH answered OK, READ_FLASH returns what
\* was sent, whatever resets, failures, retries and earlier partial uploads
\* came before and however the writes were cut.
Durable ==
  UploadConfirmed => \A i \in 0 .. nextWriteAddress - 1 : Stored(ReadByte, i)

\* During an upload every page behind the one in writeBuffer is in flash
\* already: a WRITE_FLASH is answered OK only when the pages it filled are.
Committed ==
  clean /\ pc = "idle" =>
    \A i \in 0 .. PageStart(nextWriteAddress) - 1 : Stored(ReadByte, i)

\* Fast programming needs erased cells: a row is only ever programmed when
\* all its cells are erased, although only the first row of a page erases.
ProgramsErasedCells ==
  pc = "program" \/ (AtRow /\ RowError(RowAddress, RowLen) = 0
                           /\ ~ EraseNeeded(RowAddress)) =>
    \A c \in RowAddress .. RowAddress + FLASH_WRITE_SIZE - 1 : flash[c] = ERASED

\* No step ever changes a cell of the bootloader below FLASH_APP_OFFSET, not
\* even when an upload runs past the application and its addresses wrap.
BootloaderKept ==
  [][\A c \in 0 .. FLASH_APP_OFFSET - 1 : flash'[c] = flash[c]]_vars

\* A page is erased only for the sake of a byte that differs: flash is not
\* worn by sending again what it holds.
NoNeedlessErase ==
  [][(\E c \in Addr : flash[c] # ERASED /\ flash'[c] = ERASED /\ pc = "row") =>
       \E i \in 0 .. len - 1 : writeBuffer[i] # flash[base + FLASH_APP_OFFSET + i]]_vars

\* While a page is rewritten, up to the answer when that failed.
Rewriting == pc \in {"row", "program"} \/ (pc = "return" /\ err # 0)

Promise == INSTANCE UploadPromise WITH
  PageSize <- FLASH_ERASE_SIZE, Size <- ApplicationSize, Exempt <- {},
  stored <- [i \in Addr |-> ReadByte[AppAddress(i)]],
  sent <- received,
  next <- nextWriteAddress,
  whole <- clean,
  doing <- IF pc = "idle" THEN "none" ELSE cmd,
  open <- IF Rewriting THEN base .. base + FLASH_ERASE_SIZE - 1 ELSE {},
  answer <- reply.status

\* To a master, buffer, rows and errors are an UploadPromise: a page changes
\* alone, only when it differs from what was sent, and is stored before the
\* write that filled it is answered OK.
ImplementsPromise == Promise!Spec
=============================================================================
