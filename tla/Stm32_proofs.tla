------------------------------ MODULE Stm32_proofs ------------------------------
(***************************************************************************)
(* Proofs about the STM32 build.  First Stm32Flash: any command sequence,  *)
(* for every page size, flash size, set of bytes, payload and hardware     *)
(* error the assumptions allow.  Then Stm32Upload: whole uploads over a    *)
(* bus that loses frames, to a child that may lose power at any step, for  *)
(* every image, page size and number of power cuts.                        *)
(***************************************************************************)
EXTENDS Stm32Upload, WriteFlash_proofs, TLAPS

-----------------------------------------------------------------------------
(***************************************************************************)
(* The inductive invariant.                                                *)
(***************************************************************************)
\* What the locals of the call chain are worth at each place.
Locals ==
  /\ CallLocals
  /\ pc \notin {"trampoline", "vector"}
  /\ pc \in {"row", "program"} => (len > 0 => offset % FLASH_WRITE_SIZE = 0)
  /\ pc = "program" => len > 0

\* The page under commit lies in the application, the rows behind offset are
\* programmed and the rows from offset on are erased.
PageInFlash == FLASH_APP_OFFSET + base + FLASH_ERASE_SIZE <= ADDR

RowsDone ==
  pc = "program" \/ (pc = "row" /\ offset > 0) =>
    /\ PageInFlash
    /\ \A i \in 0 .. offset - 1 : flash[FLASH_APP_OFFSET + base + i] = writeBuffer[i]
    /\ \A i \in offset .. FLASH_ERASE_SIZE - 1 :
         len > 0 => flash[FLASH_APP_OFFSET + base + i] = ERASED

PageDone ==
  pc = "return" /\ err = 0 =>
    \A i \in 0 .. CommitLen - 1 : flash[AppAddress(base + i)] = writeBuffer[i]

\* The buffer holds what was received of its page, and flash what was received
\* of the pages behind it.
Buffered == BufferedFrom(0)

Behind == clean => \A i \in 0 .. Bound - 1 : Stored(ReadByte, i)

IInv == TypeOK /\ Locals /\ RowsDone /\ PageDone /\ Buffered /\ Behind /\ Durable

-----------------------------------------------------------------------------
(***************************************************************************)
(* Types, and what the locals are worth.                                   *)
(***************************************************************************)
Inv1 == TypeOK /\ Locals

\* At power-on the types are right, and no local is in use.
LEMMA InitInv1 == Init => Inv1
<1> SUFFICES ASSUME Init PROVE Inv1
  OBVIOUS
<1>1. TypeInvariant /\ CallLocals
  BY RamInitLocals DEF Init
<1>2. QED
  BY <1>1 DEF Init, RamInit, Inv1, TypeOK, Locals

\* So they are kept by the steps that write flash.
LEMMA StepInv1Row == Inv1 /\ (RejectRow \/ ErasePage \/ ProgramRow) => Inv1'
<1> SUFFICES ASSUME Inv1, RejectRow \/ ErasePage \/ ProgramRow PROVE Inv1'
  OBVIOUS
<1> USE Sizes, ByteAssumption DEF Inv1
<1> USE DEF TypeOK, TypeInvariant, Locals, CallLocals, InCommit, InRows, CommitLen, buffers,
            commitV, history, Addr, Status, Reply
<1>1. CASE RejectRow
  <2>1. RowError(RowAddress, RowLen) \in {0, 1, 3}
    BY DEF RowError
  <2>2. QED
    BY <1>1, <2>1 DEF RejectRow, RowFailed, AtRow, PageStart, BufferIndex
<1>2. CASE ErasePage
  <2>1. /\ UNCHANGED <<buffers, cmd, reply, history, commitV>>
        /\ pc = "row" /\ len > 0
        /\ eraseCount' \in 0 .. MaxErase
    BY <1>2 DEF ErasePage, RowFailed, AtRow, CountErase
  <2>2. PageStart(nextWriteAddress)' = PageStart(nextWriteAddress)
    BY <2>1 DEF PageStart, BufferIndex
  <2>3. CASE pc' = "program" /\ UNCHANGED err
               /\ flash' = [c \in Addr |-> IF InPage(c, RowAddress) THEN ERASED ELSE flash[c]]
    BY <2>1, <2>2, <2>3
  <2>4. CASE pc' = "return" /\ err' \in HwErrors /\ UNCHANGED flash
    BY <2>1, <2>2, <2>4, HwErrorAssumption
  <2>5. QED
    BY <1>2, <2>3, <2>4 DEF ErasePage, RowFailed
<1>3. CASE ProgramRow
  <2>1. /\ UNCHANGED <<buffers, cmd, reply, history, eraseCount, base>>
        /\ pc \in {"row", "program"} /\ len > 0
    BY <1>3 DEF ProgramRow, RowDone, RowFailed, AtRow
  <2>2. PageStart(nextWriteAddress)' = PageStart(nextWriteAddress)
    BY <2>1 DEF PageStart, BufferIndex
  <2>3. ASSUME NEW done \in 0 .. FLASH_WRITE_SIZE
        PROVE  Programmed(RowAddress, RowLen, done) \in [Addr -> Byte]
    <3>1. ASSUME NEW c \in Addr, InRow(c, RowAddress), c - RowAddress < RowLen
          PROVE  writeBuffer[offset + (c - RowAddress)] \in Byte
      <4>1. RowAddress \in Nat
        BY ModRange DEF RowAddress, AppAddress
      <4>2. RowLen \in Nat /\ RowLen <= len
        BY DEF RowLen
      <4>3. offset + (c - RowAddress) \in 0 .. FLASH_ERASE_SIZE - 1
        BY <2>1, <3>1, <4>1, <4>2 DEF InRow
      <4>4. QED
        BY <4>3
    <3>2. QED
      BY <3>1 DEF Programmed
  <2>4. CASE flash' = Programmed(RowAddress, RowLen, FLASH_WRITE_SIZE) /\ RowDone
    <3>1. /\ RowLen \in 1 .. len
          /\ len - RowLen > 0 => RowLen = FLASH_WRITE_SIZE
      BY <2>1 DEF RowLen
    <3>2. len' > 0 => offset' % FLASH_WRITE_SIZE = 0
      <4>1. SUFFICES ASSUME len' > 0 PROVE offset' % FLASH_WRITE_SIZE = 0
        OBVIOUS
      <4>2. offset' = FLASH_WRITE_SIZE + offset /\ offset % FLASH_WRITE_SIZE = 0
        BY <2>1, <2>4, <3>1, <4>1 DEF RowDone
      <4>3. FLASH_WRITE_SIZE % FLASH_WRITE_SIZE = 0
        BY ModOnce
      <4>4. offset \in Nat
        OBVIOUS
      <4>5. QED
        BY <4>2, <4>3, <4>4, ModAdd
    <3>3. flash' \in [Addr -> Byte]
      BY <2>3, <2>4
    <3>4. QED
      BY <2>1, <2>2, <2>4, <3>1, <3>2, <3>3 DEF RowDone
  <2>5. CASE /\ \E done \in 0 .. FLASH_WRITE_SIZE - 1 :
                  flash' = Programmed(RowAddress, RowLen, done)
             /\ \E e \in HwErrors : RowFailed(e)
    <3>1. flash' \in [Addr -> Byte]
      BY <2>3, <2>5
    <3>2. QED
      BY <2>1, <2>2, <2>5, <3>1, HwErrorAssumption DEF RowFailed
  <2>6. QED
    BY <1>3, <2>4, <2>5 DEF ProgramRow
<1>4. QED
  BY <1>1, <1>2, <1>3

\* Every step is one of a command, one of a commit, or writes flash.
LEMMA StepKinds ==
  ASSUME Inv1, [Next]_vars
  PROVE  \/ CommandStep
         \/ CommitSkip(ReadByte) \/ CommitStart(ReadByte) \/ CommitDone
         \/ RejectRow \/ ErasePage \/ ProgramRow
<1>1. 0 \in Addr
  BY Sizes DEF Addr
<1>2. QED
  BY <1>1 DEF Next, CommandStep, StartUpload, ContinueUpload, LocalStep

\* Every step keeps the types and what the locals are worth.
LEMMA StepInv1 == Inv1 /\ [Next]_vars => Inv1'
<1> SUFFICES ASSUME Inv1, [Next]_vars PROVE Inv1'
  OBVIOUS
<1>0. TypeInvariant /\ CallLocals /\ flash \in [Addr -> Byte]
  BY DEF Inv1, TypeOK, Locals
<1>1. CASE CommandStep
  <2>1. TypeInvariant' /\ CallLocals'
    BY <1>0, <1>1, CommandStepLocals
  <2>2. flash' = flash /\ (pc' \in {"idle", "copy", "commit"} \/ UNCHANGED <<pc, len, offset>>)
    BY <1>1 DEF CommandStep, Reset, WriteRejected, WriteAccepted, FinalizeFlash, CopyByte,
       CopyDone, CommitOk, CommitFailed, vars, commitV
  <2>3. QED
    BY <1>0, <2>1, <2>2 DEF Inv1, TypeOK, Locals
<1>2. CASE CommitSkip(ReadByte) \/ CommitStart(ReadByte) \/ CommitDone
  <2>1. TypeInvariant' /\ CallLocals'
    BY <1>0, <1>2, CompareSteps
  <2>2. flash' = flash /\ offset' = offset
    BY <1>2 DEF CommitSkip, CommitStart, CommitDone, commitV
  <2>3. pc' = "return" \/ (pc' = "row" /\ offset = 0)
    BY <1>0, <1>2 DEF CommitSkip, CommitStart, CommitDone, CallLocals
  <2>4. 0 % FLASH_WRITE_SIZE = 0
    BY Sizes, ModSmall
  <2>5. QED
    BY <1>0, <2>1, <2>2, <2>3, <2>4 DEF Inv1, TypeOK, Locals
<1>3. QED
  BY <1>1, <1>2, StepKinds, StepInv1Row

\* The type invariant holds in every reachable state.
THEOREM TypeCorrect == Spec => []TypeOK
<1>1. Inv1 => TypeOK
  BY DEF Inv1
<1>2. QED
  BY InitInv1, StepInv1, <1>1, PTL DEF Spec

-----------------------------------------------------------------------------
(***************************************************************************)
(* Where the rows of a commit go.                                          *)
(***************************************************************************)
\* Within a page that ends inside the flash, addresses do not wrap.
LEMMA NoWrap ==
  ASSUME Inv1, InCommit, PageInFlash, NEW i \in 0 .. FLASH_ERASE_SIZE - 1
  PROVE  AppAddress(base + i) = FLASH_APP_OFFSET + base + i
<1>1. base \in Nat
  BY Sizes DEF Inv1, TypeOK, TypeInvariant, Addr
<1>2. FLASH_APP_OFFSET + (base + i) \in 0 .. ADDR - 1
  BY <1>1, Sizes DEF PageInFlash
<1>3. QED
  BY <1>1, <1>2, Sizes, ModSmall DEF AppAddress

\* A row writePage accepts is where it was meant to be, in a page that lies in
\* flash: an address that wrapped would be below FLASH_APP_OFFSET.
LEMMA Accepted ==
  ASSUME Inv1, InCommit, len > 0, RowError(RowAddress, RowLen) = 0
  PROVE  PageInFlash /\ RowAddress = FLASH_APP_OFFSET + base + offset
<1> DEFINE x == FLASH_APP_OFFSET + (base + offset)
<1>1. /\ base \in 0 .. ADDR - 1 /\ base \in Nat /\ base < ADDR
      /\ offset \in Nat /\ len \in Nat
      /\ base % FLASH_ERASE_SIZE = 0
      /\ offset < FLASH_ERASE_SIZE
  BY Sizes DEF Inv1, TypeOK, TypeInvariant, Addr, Locals, CallLocals, InRows, CommitLen, InCommit
<1>2. RowAddress >= FLASH_APP_OFFSET /\ RowAddress \in Nat
  <2>1. RowAddress \in Nat
    BY <1>1, Sizes, ModRange DEF RowAddress, AppAddress
  <2>2. RowLen # 0
    BY <1>1, Sizes DEF RowLen
  <2>3. QED
    BY <2>1, <2>2, Sizes DEF RowError, OutsideApplication
<1>3. base + FLASH_ERASE_SIZE <= ADDR
  <2>1. ADDR \in Nat /\ ADDR % FLASH_ERASE_SIZE = 0
    BY Sizes, SizeAssumption
  <2>2. QED
    BY <1>1, <2>1, Sizes, ModGap, Zenon
<1>4. x < ADDR
  <2>1. SUFFICES ASSUME x >= ADDR PROVE FALSE
    BY <1>1, Sizes
  <2>2. x \in ADDR .. ADDR + ADDR - 1
    BY <1>1, <1>3, <2>1, Sizes, SizeAssumption
  <2>3. x % ADDR = x - ADDR
    BY <2>2, Sizes, ModOnce
  <2>4. QED
    BY <1>1, <1>2, <1>3, <2>3, Sizes DEF RowAddress, AppAddress
<1>5. RowAddress = x
  <2>1. x \in 0 .. ADDR - 1
    BY <1>1, <1>4, Sizes
  <2>2. QED
    BY <2>1, Sizes, ModSmall DEF RowAddress, AppAddress
<1>6. PageInFlash
  <2>1. (FLASH_APP_OFFSET + base) % FLASH_ERASE_SIZE = 0
    BY <1>1, Sizes, SizeAssumption, ModAdd, Zenon
  <2>2. FLASH_APP_OFFSET + base \in Nat /\ FLASH_APP_OFFSET + base < ADDR
    BY <1>1, <1>4, Sizes
  <2>3. QED
    BY <2>1, <2>2, Sizes, SizeAssumption, ModGap DEF PageInFlash
<1>7. QED
  BY <1>1, <1>5, <1>6, Sizes

\* An erase is for the first row of a commit.
LEMMA EraseFirst ==
  ASSUME Inv1, InCommit, len > 0, RowError(RowAddress, RowLen) = 0
  PROVE  EraseNeeded(RowAddress) <=> offset = 0
<1>1. /\ base \in Nat /\ base % FLASH_ERASE_SIZE = 0
      /\ offset \in 0 .. FLASH_ERASE_SIZE - 1
  BY Sizes DEF Inv1, TypeOK, TypeInvariant, Addr, Locals, CallLocals, InRows, CommitLen, InCommit
<1>2. RowAddress = FLASH_APP_OFFSET + base + offset
  BY Accepted
<1>3. /\ FLASH_APP_OFFSET + base \in Nat
      /\ (FLASH_APP_OFFSET + base) % FLASH_ERASE_SIZE = 0
  <2>1. (FLASH_APP_OFFSET + base) % FLASH_ERASE_SIZE = 0
    BY <1>1, Sizes, SizeAssumption, ModAdd, Zenon
  <2>2. QED
    BY <1>1, <2>1, Sizes
<1>4. BufferIndex((FLASH_APP_OFFSET + base) + offset) = offset
  BY <1>1, <1>3, IndexInPage
<1>5. QED
  BY <1>2, <1>4 DEF EraseNeeded, BufferIndex

\* Only three actions lead into the loop over the rows.
LEMMA IntoRows ==
  ASSUME [Next]_vars, pc' \in {"row", "program"}
  PROVE  CommitStart(ReadByte) \/ ErasePage \/ ProgramRow \/ UNCHANGED vars
  BY DEF Next, Reset, WriteRejected, StartUpload, ContinueUpload, WriteAccepted,
         FinalizeFlash, LocalStep, CopyByte, CopyDone, CommitSkip, CommitDone,
         CommitOk, CommitFailed, RejectRow, RowFailed

-----------------------------------------------------------------------------
(***************************************************************************)
(* One page gets into flash: erased first, then row by row.                *)
(***************************************************************************)
\* Before a row is programmed, the page is known to be in flash, erased from
\* offset on and programmed before it.
LEMMA BeforeProgram ==
  ASSUME Inv1, RowsDone, ProgramRow
  PROVE  /\ pc \in {"row", "program"} /\ len > 0
         /\ offset \in 0 .. FLASH_ERASE_SIZE - 1
         /\ offset + FLASH_WRITE_SIZE <= FLASH_ERASE_SIZE
         /\ PageInFlash
         /\ RowAddress = FLASH_APP_OFFSET + base + offset
         /\ \A i \in 0 .. offset - 1 : flash[FLASH_APP_OFFSET + base + i] = writeBuffer[i]
         /\ \A i \in offset .. FLASH_ERASE_SIZE - 1 :
              flash[FLASH_APP_OFFSET + base + i] = ERASED
<1>1. pc \in {"row", "program"} /\ len > 0 /\ InCommit
  BY DEF Inv1, Locals, CallLocals, InRows, ProgramRow, AtRow, InCommit
<1>2. offset \in 0 .. FLASH_ERASE_SIZE - 1 /\ offset % FLASH_WRITE_SIZE = 0
  BY <1>1, Sizes DEF Inv1, TypeOK, TypeInvariant, Locals, CallLocals, InRows, CommitLen
<1>3. offset + FLASH_WRITE_SIZE <= FLASH_ERASE_SIZE
  BY <1>2, RowInPage
<1>4. pc = "program" \/ (pc = "row" /\ offset > 0)
  <2>1. CASE pc = "program"
    BY <2>1
  <2>2. CASE pc # "program"
    <3>1. pc = "row" /\ RowError(RowAddress, RowLen) = 0 /\ ~ EraseNeeded(RowAddress)
      BY <2>2 DEF ProgramRow, AtRow
    <3>2. offset # 0
      BY <1>1, <3>1, EraseFirst
    <3>3. QED
      BY <1>2, <3>1, <3>2
  <2>3. QED
    BY <2>1, <2>2
<1>5. PageInFlash
  BY <1>4 DEF RowsDone
<1>6. RowAddress = FLASH_APP_OFFSET + base + offset
  BY <1>1, <1>2, <1>5, NoWrap DEF RowAddress
<1>7. QED
  BY <1>1, <1>2, <1>3, <1>4, <1>5, <1>6 DEF RowsDone

\* What a cell of the page holds after all of a row has been programmed.
LEMMA AfterProgram ==
  ASSUME Inv1, RowsDone, ProgramRow,
         flash' = Programmed(RowAddress, RowLen, FLASH_WRITE_SIZE),
         NEW i \in 0 .. FLASH_ERASE_SIZE - 1
  PROVE  flash'[FLASH_APP_OFFSET + base + i] =
           IF i < offset \/ i >= offset + FLASH_WRITE_SIZE
             THEN flash[FLASH_APP_OFFSET + base + i]
             ELSE IF i < offset + RowLen THEN writeBuffer[i] ELSE ERASED
<1> DEFINE c == FLASH_APP_OFFSET + base + i
<1>1. /\ PageInFlash
      /\ RowAddress = FLASH_APP_OFFSET + base + offset
      /\ offset \in 0 .. FLASH_ERASE_SIZE - 1
  BY BeforeProgram
<1>2. base \in Nat /\ offset \in Nat /\ RowLen \in Nat
  BY <1>1, Sizes DEF Inv1, TypeOK, TypeInvariant, Addr, RowLen
<1>3. c \in Addr
  BY <1>1, <1>2, Sizes DEF PageInFlash, Addr
<1>4. c - RowAddress = i - offset /\ offset + (c - RowAddress) = i
  BY <1>1, <1>2, Sizes
<1>5. InRow(c, RowAddress) <=> i >= offset /\ i < offset + FLASH_WRITE_SIZE
  BY <1>1, <1>2, Sizes DEF InRow
<1>6. flash'[c] = IF InRow(c, RowAddress) /\ c - RowAddress < FLASH_WRITE_SIZE
                    THEN IF c - RowAddress < RowLen
                           THEN writeBuffer[offset + (c - RowAddress)] ELSE ERASED
                    ELSE flash[c]
  BY <1>3 DEF Programmed
<1> HIDE DEF c
<1>7. flash'[c] = IF i < offset \/ i >= offset + FLASH_WRITE_SIZE THEN flash[c]
                  ELSE IF i < offset + RowLen THEN writeBuffer[i] ELSE ERASED
  BY <1>2, <1>4, <1>5, <1>6, Sizes
<1>8. QED
  BY <1>7 DEF c

\* The rows below offset stay programmed and the ones above it erased: only an
\* erase of the page and the programming of its next row touch them.
LEMMA StepRowsDone == Inv1 /\ RowsDone /\ [Next]_vars => RowsDone'
<1> SUFFICES ASSUME Inv1, RowsDone, [Next]_vars,
                    pc' = "program" \/ (pc' = "row" /\ offset' > 0)
             PROVE  /\ PageInFlash'
                    /\ \A i \in 0 .. offset' - 1 :
                          flash'[FLASH_APP_OFFSET + base' + i] = writeBuffer'[i]
                    /\ \A i \in offset' .. FLASH_ERASE_SIZE - 1 :
                          len' > 0 => flash'[FLASH_APP_OFFSET + base' + i] = ERASED
  BY DEF RowsDone
<1>1. CASE CommitStart(ReadByte)
  BY <1>1 DEF CommitStart, commitV, Inv1, Locals, CallLocals, InRows
<1>2. CASE ErasePage
  <2>1. /\ InCommit /\ len > 0 /\ RowError(RowAddress, RowLen) = 0
        /\ EraseNeeded(RowAddress)
        /\ UNCHANGED <<commitV, buffers>>
    BY <1>2 DEF ErasePage, AtRow, InCommit, RowFailed
  <2>2. flash' = [c \in Addr |-> IF InPage(c, RowAddress) THEN ERASED ELSE flash[c]]
    BY <1>2 DEF ErasePage, RowFailed
  <2>3. offset = 0 /\ PageInFlash /\ RowAddress = FLASH_APP_OFFSET + base
    <3>1. base \in Nat
      BY DEF Inv1, TypeOK, TypeInvariant, Addr
    <3>2. QED
      BY <2>1, <3>1, EraseFirst, Accepted, Sizes
  <2>4. ASSUME NEW i \in 0 .. FLASH_ERASE_SIZE - 1
        PROVE  flash'[FLASH_APP_OFFSET + base + i] = ERASED
    <3>1. base \in Nat
      BY DEF Inv1, TypeOK, TypeInvariant, Addr
    <3>2. FLASH_APP_OFFSET + base + i \in Addr /\ InPage(FLASH_APP_OFFSET + base + i, RowAddress)
      BY <2>3, <3>1, Sizes DEF PageInFlash, Addr, InPage
    <3>3. QED
      BY <2>2, <3>2
  <2>5. QED
    BY <2>1, <2>3, <2>4, Sizes DEF commitV, PageInFlash
<1>3. CASE ProgramRow
  <2>1. flash' = Programmed(RowAddress, RowLen, FLASH_WRITE_SIZE) /\ RowDone
    BY <1>3 DEF ProgramRow, RowFailed
  <2>2. /\ len > 0 /\ PageInFlash
        /\ offset \in 0 .. FLASH_ERASE_SIZE - 1
        /\ offset + FLASH_WRITE_SIZE <= FLASH_ERASE_SIZE
        /\ \A i \in 0 .. offset - 1 : flash[FLASH_APP_OFFSET + base + i] = writeBuffer[i]
        /\ \A i \in offset .. FLASH_ERASE_SIZE - 1 :
             flash[FLASH_APP_OFFSET + base + i] = ERASED
    BY <1>3, BeforeProgram
  <2>3. /\ RowLen \in 1 .. FLASH_WRITE_SIZE
        /\ len - RowLen > 0 => RowLen = FLASH_WRITE_SIZE
        /\ len \in Nat
    BY <2>2, Sizes DEF RowLen, Inv1, TypeOK, TypeInvariant
  <2>4. /\ base' = base /\ offset' = offset + RowLen /\ len' = len - RowLen
        /\ writeBuffer' = writeBuffer
    BY <1>3, <2>1 DEF RowDone, ProgramRow, buffers
  <2>5. \A i \in 0 .. offset' - 1 : flash'[FLASH_APP_OFFSET + base + i] = writeBuffer[i]
    <3>1. TAKE i \in 0 .. offset' - 1
    <3>2. i \in 0 .. FLASH_ERASE_SIZE - 1 /\ i < offset + RowLen
          /\ ~ (i >= offset + FLASH_WRITE_SIZE)
      BY <2>2, <2>3, <2>4, Sizes
    <3>3. CASE i < offset
      BY <1>3, <2>1, <2>2, <3>2, <3>3, AfterProgram
    <3>4. CASE ~ (i < offset)
      BY <1>3, <2>1, <3>2, <3>4, AfterProgram
    <3>5. QED
      BY <3>3, <3>4
  <2>6. \A i \in offset' .. FLASH_ERASE_SIZE - 1 :
          len' > 0 => flash'[FLASH_APP_OFFSET + base + i] = ERASED
    <3>1. TAKE i \in offset' .. FLASH_ERASE_SIZE - 1
    <3>2. HAVE len' > 0
    <3>3. /\ i \in 0 .. FLASH_ERASE_SIZE - 1 /\ i >= offset + FLASH_WRITE_SIZE
          /\ i \in offset .. FLASH_ERASE_SIZE - 1
      BY <2>2, <2>3, <2>4, <3>2, Sizes
    <3>4. QED
      BY <1>3, <2>1, <2>2, <3>3, AfterProgram
  <2>7. QED
    BY <2>2, <2>4, <2>5, <2>6 DEF PageInFlash
<1>4. CASE UNCHANGED vars
  BY <1>4 DEF vars, RowsDone, PageInFlash
<1>5. QED
  BY <1>1, <1>2, <1>3, <1>4, IntoRows

\* Only the end of a commit and the skipped commit return success.
LEMMA IntoReturn ==
  ASSUME Inv1, [Next]_vars, pc' = "return", err' = 0
  PROVE  CommitSkip(ReadByte) \/ CommitDone \/ UNCHANGED vars
<1>1. 0 \notin HwErrors
  BY HwErrorAssumption
<1>2. QED
  BY <1>1 DEF Next, Reset, WriteRejected, StartUpload, ContinueUpload, WriteAccepted,
         FinalizeFlash, LocalStep, CopyByte, CopyDone, CommitStart,
         CommitOk, CommitFailed, RejectRow, RowFailed, ErasePage, ProgramRow, RowDone,
         Inv1, Locals, CallLocals, InRows

\* When commitToFlash returns 0, the whole page equals the buffer: after the
\* loop because all rows are done, and before it because nothing differed.
LEMMA StepPageDone == Inv1 /\ RowsDone /\ PageDone /\ [Next]_vars => PageDone'
<1> SUFFICES ASSUME Inv1, RowsDone, PageDone, [Next]_vars, pc' = "return", err' = 0
             PROVE  \A i \in 0 .. CommitLen' - 1 :
                      flash'[AppAddress(base + i)'] = writeBuffer'[i]
  BY DEF PageDone, AppAddress
<1>1. CASE CommitSkip(ReadByte)
  <2>1. /\ UNCHANGED <<flash, writeBuffer, base, offset, len>>
        /\ offset = 0 /\ len \in Nat
        /\ \A i \in 0 .. len - 1 : writeBuffer[i] = flash[AppAddress(base + i)]
    BY <1>1 DEF CommitSkip, EqualToFlash, ReadByte, buffers, commitV, Inv1, Locals, CallLocals, InRows,
                TypeOK, TypeInvariant
  <2>2. QED
    BY <2>1 DEF CommitLen, AppAddress
<1>2. CASE CommitDone
  <2>1. /\ UNCHANGED <<flash, writeBuffer, base, offset, len>>
        /\ pc = "row" /\ len = 0 /\ offset \in 0 .. FLASH_ERASE_SIZE
    BY <1>2 DEF CommitDone, buffers, commitV, Inv1, TypeOK, TypeInvariant
  <2>2. ASSUME NEW i \in 0 .. offset - 1
        PROVE  flash[AppAddress(base + i)] = writeBuffer[i]
    <3>1. i \in 0 .. FLASH_ERASE_SIZE - 1 /\ offset > 0
      BY <2>1, Sizes
    <3>2. PageInFlash /\ flash[FLASH_APP_OFFSET + base + i] = writeBuffer[i]
      BY <2>1, <3>1 DEF RowsDone
    <3>3. QED
      BY <2>1, <3>1, <3>2, NoWrap DEF InCommit
  <2>3. QED
    BY <2>1, <2>2 DEF CommitLen, AppAddress
<1>3. CASE UNCHANGED vars
  BY <1>3 DEF vars, PageDone, CommitLen, AppAddress
<1>4. QED
  BY <1>1, <1>2, <1>3, IntoReturn

-----------------------------------------------------------------------------
(***************************************************************************)
(* The upload: what is in the buffer, what is in flash behind it.          *)
(***************************************************************************)
\* The types the steps below need.
LEMMA Types ==
  ASSUME Inv1
  PROVE  /\ address \in Nat /\ nextWriteAddress \in Nat /\ base \in Nat
         /\ offset \in Nat /\ len \in Nat
         /\ address < ADDR /\ nextWriteAddress < ADDR
         /\ writeBuffer \in [0 .. FLASH_ERASE_SIZE - 1 -> Byte]
         /\ flash \in [Addr -> Byte]
         /\ received \in [Addr -> Byte]
  BY Sizes DEF Inv1, TypeOK, TypeInvariant, Addr

\* Every step is one of a command or one of a commit, which keeps the buffer.
LEMMA Steps ==
  ASSUME Inv1, [Next]_vars
  PROVE  CommandStep \/ (CommitStep /\ writeBuffer' = writeBuffer)
<1>0. TypeInvariant /\ CallLocals
  BY DEF Inv1, TypeOK, Locals
<1>1. CASE CommitSkip(ReadByte) \/ CommitStart(ReadByte) \/ CommitDone
  <2>1. CommitStep
    BY <1>0, <1>1, CompareSteps
  <2>2. QED
    BY <1>1, <2>1 DEF CommitSkip, CommitStart, CommitDone, buffers
<1>2. CASE RejectRow \/ ErasePage
  BY <1>2 DEF RejectRow, ErasePage, AtRow, RowFailed, CommitStep, InCommit, CommitLen, commitV,
              buffers, history
<1>3. CASE ProgramRow
  <2>1. RowLen \in Int /\ offset + RowLen + (len - RowLen) = offset + len
    BY Types, Sizes DEF RowLen
  <2>2. QED
    BY <1>3, <2>1, Types DEF ProgramRow, AtRow, RowFailed, RowDone, CommitStep, InCommit,
                            CommitLen, commitV, buffers, history
<1>4. QED
  BY <1>1, <1>2, <1>3, StepKinds

\* The buffer keeps holding the bytes received of its page.
LEMMA StepBufferedHere == Inv1 /\ Buffered /\ [Next]_vars => Buffered'
<1> SUFFICES ASSUME Inv1, Buffered, [Next]_vars PROVE Buffered'
  OBVIOUS
<1>1. /\ TypeInvariant /\ CallLocals /\ BufferedFrom(0) /\ 0 \in Nat
      /\ CommandStep \/ CommitStep
      /\ CommitStep => \A i \in 0 .. FLASH_ERASE_SIZE - 1 :
                          base + i >= 0 => writeBuffer'[i] = writeBuffer[i]
  <2>1. CASE CommandStep
    <3>1. ~ CommitStep \/ writeBuffer' = writeBuffer
      BY <2>1 DEF CommandStep, CommitStep, InCommit, Reset, WriteRejected, WriteAccepted,
         FinalizeFlash, CopyByte, CopyDone, CommitOk, CommitFailed, vars
    <3>2. QED
      BY <2>1, <3>1 DEF Inv1, TypeOK, Locals, Buffered
  <2>2. CASE CommitStep /\ writeBuffer' = writeBuffer
    BY <2>2 DEF Inv1, TypeOK, Locals, Buffered
  <2>3. QED
    BY <2>1, <2>2, Steps
<1>2. QED
  BY <1>1, StepBuffered, Zenon DEF Buffered

\* What the buffer holds of the page under commit.
LEMMA BufferedPage ==
  ASSUME Inv1, Buffered, InCommit, clean, NEW i \in 0 .. CommitLen - 1
  PROVE  writeBuffer[i] = received[base + i]
  BY Types DEF Buffered, BufferedFrom

\* Flash behind the page under commit stays as it is.
LEMMA FlashBehind ==
  ASSUME Inv1, RowsDone, [Next]_vars, NEW i \in Nat,
         InCommit => i < base
  PROVE  flash'[AppAddress(i)] = flash[AppAddress(i)] \/ AppAddress(i) \notin Addr
<1>1. CASE ErasePage
  <2>1. /\ InCommit /\ len > 0 /\ RowError(RowAddress, RowLen) = 0
        /\ EraseNeeded(RowAddress)
    BY <1>1 DEF ErasePage, AtRow, InCommit, RowFailed
  <2>2. offset = 0 /\ PageInFlash /\ RowAddress = FLASH_APP_OFFSET + base
    BY <2>1, EraseFirst, Accepted, Types, Sizes
  <2>3. AppAddress(i) = FLASH_APP_OFFSET + i
    <3>1. FLASH_APP_OFFSET + i \in 0 .. ADDR - 1
      BY <2>1, <2>2, Types, Sizes DEF PageInFlash
    <3>2. QED
      BY <3>1, Sizes, ModSmall DEF AppAddress
  <2>4. ~ InPage(AppAddress(i), RowAddress)
    BY <2>1, <2>2, <2>3, Types, Sizes DEF InPage
  <2>5. QED
    BY <1>1, <2>4 DEF ErasePage, RowFailed
<1>2. CASE ProgramRow
  <2>1. /\ InCommit /\ PageInFlash /\ RowAddress = FLASH_APP_OFFSET + base + offset
    BY <1>2, BeforeProgram DEF InCommit
  <2>2. AppAddress(i) = FLASH_APP_OFFSET + i
    <3>1. FLASH_APP_OFFSET + i \in 0 .. ADDR - 1
      BY <2>1, Types, Sizes DEF PageInFlash
    <3>2. QED
      BY <3>1, Sizes, ModSmall DEF AppAddress
  <2>3. ~ InRow(AppAddress(i), RowAddress)
    BY <2>1, <2>2, Types, Sizes, SMTT(60) DEF InRow
  <2>4. QED
    BY <1>2, <2>3 DEF ProgramRow, Programmed
<1>3. CASE ~ ErasePage /\ ~ ProgramRow
  <2>1. flash' = flash
    BY <1>3 DEF Next, Reset, WriteRejected, StartUpload, ContinueUpload, WriteAccepted,
         FinalizeFlash, LocalStep, CopyByte, CopyDone, CommitSkip, CommitStart, CommitDone,
         CommitOk, CommitFailed, RejectRow, vars
  <2>2. QED
    BY <2>1
<1>4. QED
  BY <1>1, <1>2, <1>3

\* Bytes are stored where no step of the commit reaches.
LEMMA StoredKept ==
  ASSUME Inv1, RowsDone, [Next]_vars, NEW i \in Nat,
         InCommit => i < base,
         received'[i] = received[i], Stored(ReadByte, i)
  PROVE  Stored(ReadByte, i)'
<1>1. AppAddress(i) \in Addr
  <2>1. FLASH_APP_OFFSET + i \in Nat
    BY Sizes
  <2>2. QED
    BY <2>1, Sizes, ModRange DEF AppAddress, Addr
<1>2. flash'[AppAddress(i)] = flash[AppAddress(i)]
  BY <1>1, FlashBehind
<1>3. QED
  BY <1>2 DEF Stored, ReadByte, AppAddress

\* The bytes of a page that was committed are in flash.
LEMMA PageStored ==
  ASSUME Inv1, Buffered, PageDone, Behind, clean, pc = "return", err = 0,
         NEW i \in 0 .. base + CommitLen - 1
  PROVE  Stored(ReadByte, i)
<1>1. InCommit /\ CommitLen \in Nat
  BY Types DEF InCommit, CommitLen
<1>2. CASE i < base
  BY <1>1, <1>2, Types DEF Behind, Bound
<1>3. CASE i >= base
  <2>1. i - base \in 0 .. CommitLen - 1 /\ base + (i - base) = i
    BY <1>1, <1>3, Types
  <2>2. writeBuffer[i - base] = received[base + (i - base)]
    BY <1>1, <2>1, BufferedPage
  <2>3. flash[AppAddress(base + (i - base))] = writeBuffer[i - base]
    BY <2>1 DEF PageDone
  <2>4. QED
    BY <2>1, <2>2, <2>3 DEF Stored, ReadByte
<1>4. QED
  BY <1>1, <1>2, <1>3, Types

\* The pages behind the buffer stay in flash, and the page of the buffer joins
\* them when its commit succeeds.
LEMMA StepBehind ==
  Inv1 /\ RowsDone /\ PageDone /\ Buffered /\ Behind /\ [Next]_vars => Behind'
<1> SUFFICES ASSUME Inv1, RowsDone, PageDone, Buffered, Behind, [Next]_vars, clean'
             PROVE  \A i \in 0 .. Bound' - 1 : Stored(ReadByte, i)'
  BY DEF Behind
<1>1. \/ (Reset \/ StartUpload) /\ ~ InCommit' /\ Top' = 0 /\ Bound' = 0
      \/ /\ clean /\ Bound \in Nat /\ Bound' = Bound
         /\ \A i \in 0 .. Bound - 1 : received'[i] = received[i]
      \/ /\ CommitOk /\ cmd = "WRITE_FLASH" /\ clean
         /\ Bound = base /\ Bound' = base + FLASH_ERASE_SIZE
  <2>1. TypeInvariant /\ CallLocals /\ BufferedFrom(0) /\ 0 \in Nat /\ (CommandStep \/ CommitStep)
    BY Steps DEF Inv1, TypeOK, Locals, Buffered
  <2>2. QED
    BY <2>1, StepBound, Zenon
<1>2. CASE Bound' = 0
  BY <1>2
<1>3. CASE /\ clean /\ Bound \in Nat /\ Bound' = Bound
           /\ \A i \in 0 .. Bound - 1 : received'[i] = received[i]
  <2>1. ASSUME NEW i \in 0 .. Bound - 1 PROVE Stored(ReadByte, i)'
    <3>1. i \in Nat /\ received'[i] = received[i] /\ Stored(ReadByte, i)
      BY <1>3 DEF Behind
    <3>2. InCommit => i < base
      BY <1>3 DEF Bound
    <3>3. QED
      BY <3>1, <3>2, StoredKept
  <2>2. QED
    BY <1>3, <2>1
<1>4. CASE /\ CommitOk /\ cmd = "WRITE_FLASH" /\ clean
           /\ Bound = base /\ Bound' = base + FLASH_ERASE_SIZE
  <2>1. /\ pc = "return" /\ err = 0 /\ InCommit /\ CommitLen = FLASH_ERASE_SIZE
        /\ UNCHANGED <<flash, received>>
    BY <1>4 DEF CommitOk, InCommit, history, Inv1, Locals, CallLocals, InRows, CallLocals
  <2>2. ASSUME NEW i \in 0 .. base + FLASH_ERASE_SIZE - 1 PROVE Stored(ReadByte, i)'
    <3>1. Stored(ReadByte, i)
      <4>1. i \in 0 .. base + CommitLen - 1
        BY <2>1
      <4>2. QED
        BY <1>4, <2>1, <4>1, PageStored, Zenon
    <3>2. QED
      BY <2>1, <3>1 DEF Stored, ReadByte, AppAddress
  <2>3. QED
    <3>0. Bound' = base + FLASH_ERASE_SIZE
      BY <1>4
    <3>1. Bound' - 1 = base + FLASH_ERASE_SIZE - 1
      BY <3>0, Types, Sizes
    <3>2. QED
      BY <2>2, <3>1, Zenon
<1>5. QED
  BY <1>1, <1>2, <1>3, <1>4

\* Only a successful commit answers FINALIZE_FLASH with OK.
LEMMA StepDurable ==
  Inv1 /\ PageDone /\ Buffered /\ Behind /\ Durable /\ [Next]_vars => Durable'
<1> SUFFICES ASSUME Inv1, PageDone, Buffered, Behind, Durable, [Next]_vars,
                    UploadConfirmed'
             PROVE  \A i \in 0 .. nextWriteAddress' - 1 : Stored(ReadByte, i)'
  BY DEF Durable
<1>1. CASE UNCHANGED vars
  <2>1. UploadConfirmed
    BY <1>1 DEF vars, UploadConfirmed
  <2>2. QED
    BY <1>1, <2>1 DEF vars, Durable, Stored, ReadByte, AppAddress
<1>2. CASE CommitOk
  <2>1. /\ pc = "return" /\ err = 0 /\ InCommit /\ clean /\ cmd # "WRITE_FLASH"
        /\ UNCHANGED <<flash, received, nextWriteAddress>>
    BY <1>2 DEF CommitOk, InCommit, UploadConfirmed, buffers, history
  <2>2. base + CommitLen = nextWriteAddress
    BY <2>1, Types DEF Inv1, Locals, CallLocals, CommitLen
  <2>3. ASSUME NEW i \in 0 .. nextWriteAddress - 1 PROVE Stored(ReadByte, i)
    <3>1. i \in 0 .. base + CommitLen - 1
      BY <2>1, <2>2, Types DEF CommitLen
    <3>2. QED
      BY <2>1, <3>1, PageStored, Zenon
  <2>4. ASSUME NEW i \in 0 .. nextWriteAddress - 1 PROVE Stored(ReadByte, i)'
    <3>1. Stored(ReadByte, i)
      BY <2>3
    <3>2. QED
      BY <2>1, <3>1 DEF Stored, ReadByte, AppAddress
  <2>5. QED
    BY <2>1, <2>4
<1>3. CASE Next /\ ~ CommitOk
  <2>1. pc' = "idle" /\ cmd' = "FINALIZE_FLASH" /\ reply'.status = "OK"
    BY DEF UploadConfirmed
  <2>2. FALSE
    BY <1>3, <2>1 DEF Next, Reset, WriteRejected, StartUpload, ContinueUpload, WriteAccepted,
         FinalizeFlash, LocalStep, CopyByte, CopyDone, CommitSkip, CommitStart, CommitDone,
         CommitFailed, RejectRow, RowFailed, ErasePage, ProgramRow, RowDone, Reply,
         Inv1, Locals, CallLocals, InRows
  <2>3. QED
    BY <2>2
<1>4. QED
  BY <1>1, <1>2, <1>3

-----------------------------------------------------------------------------
(***************************************************************************)
(* The theorems.                                                           *)
(***************************************************************************)
\* The inductive invariant holds at power-on.
LEMMA InitIInv == Init => IInv
<1> SUFFICES ASSUME Init PROVE IInv
  OBVIOUS
<1>1. Inv1
  BY InitInv1
<1>2. /\ pc = "idle" /\ cmd = "none" /\ nextWriteAddress = 0 /\ ~ InCommit /\ Top = 0
  BY DEF Init, RamInit, InCommit, Top
<1>3. PageStart(0) = 0
  BY Sizes, PageStartOfStart, ModSmall
<1>4. RowsDone /\ PageDone /\ Durable
  BY <1>2 DEF RowsDone, PageDone, Durable, UploadConfirmed
<1>5. Buffered /\ Behind
  BY <1>2, <1>3 DEF Buffered, BufferedFrom, Behind, Bound
<1>6. QED
  BY <1>1, <1>4, <1>5 DEF Inv1, IInv

\* Every step keeps the inductive invariant.
LEMMA StepIInv == IInv /\ [Next]_vars => IInv'
  BY StepInv1, StepRowsDone, StepPageDone, StepBufferedHere, StepBehind, StepDurable
  DEF Inv1, IInv

\* The inductive invariant holds in every reachable state.
LEMMA Invariance == Spec => []IInv
  BY InitIInv, StepIInv, PTL DEF Spec

\* A FINALIZE_FLASH answered OK after writes that were all answered OK means
\* that flash holds what was sent.
THEOREM DurableCorrect == Spec => []Durable
<1>1. IInv => Durable
  BY DEF IInv
<1>2. QED
  BY Invariance, <1>1, PTL

\* A WRITE_FLASH answered OK means that the pages it filled are in flash.
THEOREM CommittedCorrect == Spec => []Committed
<1>1. IInv => Committed
  <2> SUFFICES ASSUME IInv, clean, pc = "idle"
               PROVE  \A i \in 0 .. PageStart(nextWriteAddress) - 1 : Stored(ReadByte, i)
    BY DEF Committed
  <2>1. ~ InCommit /\ Top = nextWriteAddress
    BY DEF InCommit, Top
  <2>2. QED
    BY <2>1 DEF IInv, Behind, Bound
<1>2. QED
  BY Invariance, <1>1, PTL

\* Rows are programmed only where every cell is erased.
THEOREM ProgramsErasedCellsCorrect == Spec => []ProgramsErasedCells
<1>1. IInv => ProgramsErasedCells
  <2> SUFFICES ASSUME IInv,
                      \/ pc = "program"
                      \/ AtRow /\ RowError(RowAddress, RowLen) = 0 /\ ~ EraseNeeded(RowAddress),
                      NEW c \in RowAddress .. RowAddress + FLASH_WRITE_SIZE - 1
               PROVE  flash[c] = ERASED
    BY DEF ProgramsErasedCells
  <2>1. Inv1 /\ InCommit /\ len > 0 /\ RowsDone
    BY DEF IInv, Inv1, Locals, CallLocals, InRows, InCommit, AtRow
  <2>2. pc = "program" \/ (pc = "row" /\ offset > 0)
    <3>1. CASE pc = "program"
      BY <3>1
    <3>2. CASE pc # "program"
      <4>1. offset # 0 /\ pc = "row"
        BY <2>1, <3>2, EraseFirst DEF AtRow
      <4>2. QED
        BY <2>1, <4>1, Types
    <3>3. QED
      BY <3>1, <3>2
  <2>3. /\ PageInFlash
        /\ \A i \in offset .. FLASH_ERASE_SIZE - 1 :
              flash[FLASH_APP_OFFSET + base + i] = ERASED
    BY <2>1, <2>2 DEF RowsDone
  <2>4. /\ offset \in 0 .. FLASH_ERASE_SIZE - 1 /\ offset % FLASH_WRITE_SIZE = 0
    BY <2>1, <2>2, Types, Sizes DEF Inv1, Locals, CallLocals, InRows, CommitLen
  <2>5. offset + FLASH_WRITE_SIZE <= FLASH_ERASE_SIZE
    BY <2>4, RowInPage
  <2>6. RowAddress = FLASH_APP_OFFSET + base + offset
    BY <2>1, <2>3, <2>4, NoWrap DEF RowAddress
  <2>7. /\ c - (FLASH_APP_OFFSET + base) \in offset .. FLASH_ERASE_SIZE - 1
        /\ c = FLASH_APP_OFFSET + base + (c - (FLASH_APP_OFFSET + base))
    BY <2>1, <2>4, <2>5, <2>6, Types, Sizes, SMTT(60)
  <2>8. QED
    BY <2>3, <2>7
<1>2. QED
  BY Invariance, <1>1, PTL

\* No step changes a byte of the bootloader.
THEOREM BootloaderKeptCorrect == Spec => BootloaderKept
<1>1. IInv /\ [Next]_vars => [\A c \in 0 .. FLASH_APP_OFFSET - 1 : flash'[c] = flash[c]]_vars
  <2> SUFFICES ASSUME IInv, Next, NEW c \in 0 .. FLASH_APP_OFFSET - 1
               PROVE  flash'[c] = flash[c]
    OBVIOUS
  <2>1. Inv1 /\ RowsDone
    BY DEF IInv, Inv1
  <2>2. c \in Addr
    BY Sizes, SizeAssumption DEF Addr
  <2>3. CASE ErasePage
    <3>1. InCommit /\ len > 0 /\ RowError(RowAddress, RowLen) = 0
      BY <2>3 DEF ErasePage, AtRow, InCommit
    <3>2. RowAddress = FLASH_APP_OFFSET + base + offset
      BY <2>1, <3>1, Accepted
    <3>3. ~ InPage(c, RowAddress)
      BY <2>1, <3>2, Types, Sizes DEF InPage
    <3>4. QED
      BY <2>2, <2>3, <3>3 DEF ErasePage, RowFailed
  <2>4. CASE ProgramRow
    <3>1. RowAddress = FLASH_APP_OFFSET + base + offset
      BY <2>1, <2>4, BeforeProgram
    <3>2. ~ InRow(c, RowAddress)
      BY <2>1, <3>1, Types, Sizes DEF InRow
    <3>3. QED
      BY <2>2, <2>4, <3>2 DEF ProgramRow, Programmed
  <2>5. CASE ~ ErasePage /\ ~ ProgramRow
    BY <2>5 DEF Next, Reset, WriteRejected, StartUpload, ContinueUpload, WriteAccepted,
         FinalizeFlash, LocalStep, CopyByte, CopyDone, CommitSkip, CommitStart, CommitDone,
         CommitOk, CommitFailed, RejectRow
  <2>6. QED
    BY <2>3, <2>4, <2>5
<1>2. QED
  BY Invariance, <1>1, PTL DEF Spec, BootloaderKept

\* Before the first row of a page, flash differs from what is to be stored.
Differs == pc = "row" /\ offset = 0 => ~ EqualToFlash(ReadByte)

\* Only CommitStart leads there, after the comparison.
LEMMA StepDiffers == Inv1 /\ Differs /\ [Next]_vars => Differs'
<1> SUFFICES ASSUME Inv1, Differs, [Next]_vars, pc' = "row", offset' = 0
             PROVE  ~ EqualToFlash(ReadByte)'
  BY DEF Differs
<1>1. CASE CommitStart(ReadByte)
  BY <1>1 DEF CommitStart, EqualToFlash, ReadByte, buffers, commitV
<1>2. ~ ErasePage
  BY DEF ErasePage, RowFailed
<1>3. ~ ProgramRow
  <2> SUFFICES ASSUME ProgramRow PROVE FALSE
    OBVIOUS
  <2>1. offset' = offset + RowLen
    BY DEF ProgramRow, RowDone, RowFailed
  <2>2. len > 0 /\ len \in Nat /\ offset \in Nat
    BY Types DEF ProgramRow, AtRow, Inv1, Locals, CallLocals, InRows
  <2>3. RowLen \in Nat /\ RowLen > 0
    BY <2>2, Sizes DEF RowLen
  <2>4. QED
    BY <2>1, <2>2, <2>3
<1>4. CASE UNCHANGED vars
  <2>1. pc = "row" /\ offset = 0
    BY <1>4 DEF vars, commitV
  <2>2. QED
    BY <1>4, <2>1 DEF Differs, EqualToFlash, ReadByte, vars, buffers, commitV
<1>5. QED
  BY <1>1, <1>2, <1>3, <1>4, IntoRows

\* No page is erased unless a byte to be stored in it differs.
THEOREM NoNeedlessEraseCorrect == Spec => NoNeedlessErase
<1> DEFINE Erases == \E c \in Addr : flash[c] # ERASED /\ flash'[c] = ERASED /\ pc = "row"
           Needed == \E i \in 0 .. len - 1 : writeBuffer[i] # flash[base + FLASH_APP_OFFSET + i]
<1>1. Init => Differs
  BY DEF Init, RamInit, Differs
<1>2. IInv /\ Differs /\ [Next]_vars => Differs'
  BY StepDiffers DEF IInv, Inv1
<1>3. IInv /\ Differs /\ [Next]_vars => [Erases => Needed]_vars
  <2> SUFFICES ASSUME IInv, Differs, Next,
                      NEW c \in Addr, flash[c] # ERASED, flash'[c] = ERASED, pc = "row"
               PROVE  Needed
    OBVIOUS
  <2>1. Inv1 /\ RowsDone
    BY DEF IInv, Inv1
  <2>2. ErasePage \/ ProgramRow
    BY DEF Next, Reset, WriteRejected, StartUpload, ContinueUpload, WriteAccepted,
         FinalizeFlash, LocalStep, CopyByte, CopyDone, CommitSkip, CommitStart, CommitDone,
         CommitOk, CommitFailed, RejectRow
  <2>3. CASE ErasePage
    <3>1. InCommit /\ len > 0 /\ RowError(RowAddress, RowLen) = 0 /\ EraseNeeded(RowAddress)
      BY <2>3 DEF ErasePage, AtRow, InCommit
    <3>2. offset = 0
      BY <2>1, <3>1, EraseFirst
    <3>3. PICK i \in 0 .. len - 1 : writeBuffer[i] # flash[AppAddress(base + i)]
      BY <3>2 DEF Differs, EqualToFlash, ReadByte
    <3>4. i \in 0 .. FLASH_ERASE_SIZE - 1
      BY <2>1, <3>1, <3>2, Types, Sizes DEF Inv1, Locals, CallLocals, InRows, CommitLen
    <3>5. AppAddress(base + i) = FLASH_APP_OFFSET + base + i
      BY <2>1, <3>1, <3>4, Accepted, NoWrap
    <3>6. FLASH_APP_OFFSET + base + i = base + FLASH_APP_OFFSET + i
      BY <2>1, <3>4, Types, Sizes
    <3>7. QED
      BY <3>3, <3>5, <3>6
  <2>4. CASE ProgramRow
    <3>1. /\ RowAddress = FLASH_APP_OFFSET + base + offset
          /\ offset \in 0 .. FLASH_ERASE_SIZE - 1
          /\ offset + FLASH_WRITE_SIZE <= FLASH_ERASE_SIZE
          /\ \A i \in offset .. FLASH_ERASE_SIZE - 1 : flash[FLASH_APP_OFFSET + base + i] = ERASED
      BY <2>1, <2>4, BeforeProgram
    <3>2. InRow(c, RowAddress)
      BY <2>4 DEF ProgramRow, Programmed
    <3>3. /\ c - (FLASH_APP_OFFSET + base) \in offset .. FLASH_ERASE_SIZE - 1
          /\ c = FLASH_APP_OFFSET + base + (c - (FLASH_APP_OFFSET + base))
      BY <2>1, <3>1, <3>2, Types, Sizes, SMTT(60) DEF InRow, Addr
    <3>4. flash[c] = ERASED
      BY <3>1, <3>3
    <3>5. QED
      BY <3>4
  <2>5. QED
    BY <2>2, <2>3, <2>4
<1>4. QED
  BY Invariance, <1>1, <1>2, <1>3, PTL DEF Spec, NoNeedlessErase

-----------------------------------------------------------------------------
(***************************************************************************)
(* The STM32 build implements UploadPromise: every step is one of it or a  *)
(* stutter.                                                                *)
(***************************************************************************)
\* Application addresses are addresses, and different ones are different cells.
LEMMA AppAddressLemma ==
  /\ \A i \in Addr : AppAddress(i) \in Addr
  /\ \A i \in Addr : AppAddress(i) = IF FLASH_APP_OFFSET + i < ADDR THEN FLASH_APP_OFFSET + i
                                     ELSE FLASH_APP_OFFSET + i - ADDR
<1> SUFFICES ASSUME NEW i \in Addr
             PROVE  /\ AppAddress(i) \in Addr
                    /\ AppAddress(i) = IF FLASH_APP_OFFSET + i < ADDR THEN FLASH_APP_OFFSET + i
                                       ELSE FLASH_APP_OFFSET + i - ADDR
  OBVIOUS
<1>1. FLASH_APP_OFFSET <= ADDR /\ ADDR \in Nat \ {0} /\ FLASH_APP_OFFSET \in Nat
      /\ i \in 0 .. ADDR - 1
  BY Sizes, SizeAssumption DEF Addr
<1>2. CASE FLASH_APP_OFFSET + i < ADDR
  <2>1. FLASH_APP_OFFSET + i \in 0 .. ADDR - 1
    BY <1>1, <1>2
  <2>2. (FLASH_APP_OFFSET + i) % ADDR = FLASH_APP_OFFSET + i
    BY <1>1, <2>1, ModSmall
  <2>3. QED
    BY <1>2, <2>1, <2>2 DEF AppAddress, Addr
<1>3. CASE FLASH_APP_OFFSET + i >= ADDR
  <2>1. FLASH_APP_OFFSET + i \in ADDR .. ADDR + ADDR - 1
    BY <1>1, <1>3
  <2>2. (FLASH_APP_OFFSET + i) % ADDR = (FLASH_APP_OFFSET + i) - ADDR
    BY <1>1, <2>1, ModOnce, Zenon
  <2>3. QED
    BY <1>1, <1>3, <2>1, <2>2 DEF AppAddress, Addr
<1>4. QED
  BY <1>1, <1>2, <1>3

\* The page of an accepted row lies below the end of the application.
LEMMA PageInApplication ==
  ASSUME Inv1, InCommit, len > 0, RowError(RowAddress, RowLen) = 0
  PROVE  base + FLASH_ERASE_SIZE <= ApplicationSize
<1>1. /\ PageInFlash /\ RowAddress = FLASH_APP_OFFSET + base + offset
      /\ RowLen \in Nat /\ RowLen > 0
  BY Accepted, Types, Sizes DEF RowLen
<1>2. RowAddress + RowLen <= FLASH_APP_OFFSET + ApplicationSize
  BY <1>1, Types, Sizes DEF RowError, OutsideApplication
<1>3. base < ApplicationSize
  BY <1>1, <1>2, Types, Sizes
<1>4. base % FLASH_ERASE_SIZE = 0 /\ ApplicationSize % FLASH_ERASE_SIZE = 0
  BY ApplicationAssumption DEF Inv1, Locals, CallLocals, InRows
<1>5. QED
  BY <1>3, <1>4, Types, Sizes, ModGap

\* The rows that follow an erase are in the application.
InApplication ==
  pc = "program" => base + FLASH_ERASE_SIZE <= ApplicationSize

\* Every commit is called by a command, and with a page that is full.
LEMMA StepInApplication == Inv1 /\ InApplication /\ [Next]_vars => InApplication'
<1> SUFFICES ASSUME Inv1, InApplication, [Next]_vars PROVE InApplication'
  OBVIOUS
<1> USE DEF InApplication, InCommit
<1>1. CASE CopyByte
  BY <1>1, Types DEF CopyByte
<1>2. CASE UNCHANGED vars
  BY <1>2 DEF vars
<1>3. CASE CommitOk \/ CommitFailed
  BY <1>3 DEF CommitOk, CommitFailed
<1>4. CASE StartUpload \/ ContinueUpload \/ FinalizeFlash \/ CopyDone \/ Reset
           \/ \E a \in Addr : WriteRejected(a)
  BY <1>4 DEF StartUpload, ContinueUpload, WriteAccepted, FinalizeFlash, CopyDone, Reset,
              WriteRejected
<1>5. CASE CommitSkip(ReadByte) \/ CommitStart(ReadByte) \/ CommitDone
           \/ RejectRow \/ ProgramRow
  BY <1>5 DEF CommitSkip, CommitStart, CommitDone, RejectRow, ProgramRow, AtRow,
              RowFailed, RowDone, buffers
<1>6. CASE ErasePage
  <2>1. pc = "row" /\ len > 0 /\ RowError(RowAddress, RowLen) = 0
        /\ UNCHANGED <<buffers, commitV, cmd>>
    BY <1>6 DEF ErasePage, AtRow, RowFailed
  <2>2. base + FLASH_ERASE_SIZE <= ApplicationSize
    BY <2>1, PageInApplication
  <2>3. QED
    BY <2>1, <2>2 DEF buffers, commitV
<1>7. QED
  BY <1>1, <1>2, <1>3, <1>4, <1>5, <1>6 DEF Next, LocalStep

\* What the steps need of the invariants.
RInv == IInv /\ InApplication /\ Differs

\* It holds in every reachable state.
LEMMA RInvariance == Spec => []RInv
<1>1. Init => RInv
  BY InitIInv DEF RInv, Init, RamInit, InApplication, InCommit, Differs
<1>2. RInv /\ [Next]_vars => RInv'
  BY StepIInv, StepInApplication, StepDiffers DEF RInv, IInv, Inv1
<1>3. QED
  BY <1>1, <1>2, PTL DEF Spec

\* What READ_FLASH returns, by address: the stored of UploadPromise.
storedBar == [i \in Addr |-> ReadByte[AppAddress(i)]]
openBar == IF Rewriting THEN base .. base + FLASH_ERASE_SIZE - 1 ELSE {}
doingBar == IF pc = "idle" THEN "none" ELSE cmd

\* A change of cells of the page under commit is a Change of it.
LEMMA ChangeOfPage ==
  ASSUME Inv1, InCommit, PageInFlash, base + FLASH_ERASE_SIZE <= ApplicationSize,
         flash' \in [Addr -> Byte],
         \A c \in Addr : c \notin FLASH_APP_OFFSET + base .. FLASH_APP_OFFSET + base + FLASH_ERASE_SIZE - 1
                           => flash'[c] = flash[c]
  PROVE  /\ storedBar' \in [Addr -> Byte]
         /\ \A i \in Addr \ (base .. base + FLASH_ERASE_SIZE - 1) : storedBar'[i] = storedBar[i]
<1>1. storedBar' \in [Addr -> Byte]
  BY AppAddressLemma DEF storedBar, ReadByte, AppAddress
<1>2. ASSUME NEW i \in Addr \ (base .. base + FLASH_ERASE_SIZE - 1)
      PROVE  storedBar'[i] = storedBar[i]
  <2>1. AppAddress(i) \in Addr
    BY AppAddressLemma
  <2>2. AppAddress(i) \notin FLASH_APP_OFFSET + base .. FLASH_APP_OFFSET + base + FLASH_ERASE_SIZE - 1
    <3>1. AppAddress(i) = IF FLASH_APP_OFFSET + i < ADDR THEN FLASH_APP_OFFSET + i
                          ELSE FLASH_APP_OFFSET + i - ADDR
      BY AppAddressLemma
    <3>2. i \in 0 .. ADDR - 1 /\ i \notin base .. base + FLASH_ERASE_SIZE - 1 /\ base \in Nat
      BY Types, Sizes DEF Addr
    <3>3. QED
      BY <3>1, <3>2, Sizes
  <2>3. QED
    BY <2>1, <2>2 DEF storedBar, ReadByte, AppAddress
<1>3. QED
  BY <1>1, <1>2

\* A change of cells of the page under commit is a Change of UploadPromise.
LEMMA StepChange ==
  ASSUME RInv, RInv', Rewriting, Rewriting', pc # "idle", pc' # "idle",
         PageInFlash, base + FLASH_ERASE_SIZE <= ApplicationSize,
         UNCHANGED <<received, nextWriteAddress, clean, cmd, base, reply>>,
         \A c \in Addr : c \notin FLASH_APP_OFFSET + base .. FLASH_APP_OFFSET + base + FLASH_ERASE_SIZE - 1
                           => flash'[c] = flash[c]
  PROVE  Promise!Change
<1>1. Inv1 /\ Inv1' /\ InCommit
  BY DEF RInv, IInv, Inv1, Rewriting, InCommit
<1>2. flash' \in [Addr -> Byte]
  BY <1>1 DEF Inv1, TypeOK
<1>3. /\ storedBar' \in [Addr -> Byte]
      /\ \A i \in Addr \ (base .. base + FLASH_ERASE_SIZE - 1) : storedBar'[i] = storedBar[i]
  BY <1>1, <1>2, ChangeOfPage
<1>4. base .. base + FLASH_ERASE_SIZE - 1 # {}
      /\ base .. base + FLASH_ERASE_SIZE - 1 \subseteq 0 .. ApplicationSize - 1
  <2>1. base \in Nat
    BY <1>1, Types
  <2>2. base \in base .. base + FLASH_ERASE_SIZE - 1
    BY <2>1, Sizes
  <2>3. base .. base + FLASH_ERASE_SIZE - 1 \subseteq 0 .. ApplicationSize - 1
    BY <2>1, Sizes
  <2>4. QED
    BY <2>2, <2>3, Zenon
<1>5. \A i \in Addr \ (((base .. base + FLASH_ERASE_SIZE - 1) \cap (0 .. ApplicationSize - 1)) \cup {}) :
        storedBar'[i] = storedBar[i]
  BY <1>3, <1>4
<1>6. QED
  BY <1>3, <1>4, <1>5 DEF Promise!Change, Promise!Addr, Addr, storedBar, Rewriting

\* A page is opened for a byte of it that was sent, and that flash lacks.
LEMMA StepOpen ==
  ASSUME RInv, CommitStart(ReadByte)
  PROVE  Promise!Open(base) /\ base \in { Promise!PageStart(i) : i \in Promise!Due }
<1>1. /\ Inv1 /\ Buffered /\ InApplication /\ InCommit /\ offset = 0 /\ pc = "commit"
      /\ pc' = "row" /\ UNCHANGED <<flash, buffers, cmd, commitV, reply, history>>
  BY DEF RInv, IInv, Inv1, CommitStart, InCommit, Locals, CallLocals
<1>2. PICK k \in 0 .. len - 1 : writeBuffer[k] # flash[AppAddress(base + k)]
  BY DEF CommitStart, EqualToFlash, ReadByte
<1>3. base \in Nat /\ base % FLASH_ERASE_SIZE = 0 /\ PageStart(base) = base
  BY <1>1, Types, PageStartOfStart DEF Inv1, Locals, CallLocals, InRows
<1>4. End \in Nat /\ End <= nextWriteAddress /\ base + len <= End
  BY <1>1, CommitEnd, Types DEF Inv1, TypeOK, Locals, CommitLen
<1>5. /\ base + k \in Addr
      /\ base + k \in 0 .. End - 1
      /\ base \in 0 .. End - 1
      /\ base + k \in base .. base + FLASH_ERASE_SIZE - 1
  <2>1. len <= FLASH_ERASE_SIZE /\ len \in Nat /\ k \in Nat /\ k < len /\ nextWriteAddress < ADDR
    BY <1>1, <1>2, Types, Sizes DEF Inv1, TypeOK, TypeInvariant
  <2>2. QED
    BY <1>1, <1>3, <1>4, <2>1, Types, Sizes DEF Addr
<1>6. clean => storedBar[base + k] # received[base + k]
  <2>1. SUFFICES ASSUME clean PROVE storedBar[base + k] # received[base + k]
    OBVIOUS
  <2>2. k \in 0 .. CommitLen - 1
    BY <1>1, <1>2, Types DEF CommitLen
  <2>3. writeBuffer[k] = received[base + k]
    BY <1>1, <2>1, <2>2, BufferedPage
  <2>4. QED
    BY <1>2, <1>5, <2>3 DEF storedBar, ReadByte
<1>7. Promise!Due = 0 .. End - 1
  BY <1>1 DEF Promise!Due, Promise!PageStart, End, PageStart, BufferIndex
<1>8. Promise!PageStart(base) = base
  BY <1>3 DEF Promise!PageStart, PageStart, BufferIndex
<1>9. Promise!PageAt(base) = base .. base + FLASH_ERASE_SIZE - 1
  BY DEF Promise!PageAt
<1>10. clean => ~ Promise!Kept(Promise!PageAt(base) \cap Promise!Due)
  BY <1>5, <1>6, <1>7, <1>9 DEF Promise!Kept, storedBar
<1>11. err' = err /\ err = 0
  BY <1>1 DEF CommitStart, Inv1, Locals, CallLocals, InRows
<1>12. Promise!Open(base)
  BY <1>1, <1>5, <1>7, <1>9, <1>10
     DEF Promise!Open, Promise!Addr, Promise!PageAt, Rewriting, buffers, commitV, history, ReadByte
<1>13. QED
  BY <1>5, <1>7, <1>8, <1>12

\* Steps of the bootloader that a master does not see.
LEMMA StepStutter ==
  ASSUME UNCHANGED <<flash, received, nextWriteAddress, clean, reply>>,
         doingBar' = doingBar, openBar' = openBar
  PROVE  UNCHANGED Promise!promiseVars
  BY DEF Promise!promiseVars, Promise!Addr, Addr, doingBar, openBar, Rewriting, ReadByte

\* A command that is answered OK has stored what it was due to.
LEMMA StepOk ==
  ASSUME RInv, RInv', CopyDone \/ (CommitOk /\ cmd # "WRITE_FLASH")
  PROVE  Promise!Ok
<1>1. /\ Inv1 /\ InApplication /\ Behind' /\ Durable' /\ Inv1'
  BY DEF RInv, IInv, Inv1
<1>2. /\ pc \in {"copy", "return"} /\ err = 0 /\ pc' = "idle"
      /\ cmd = IF pc = "copy" THEN "WRITE_FLASH" ELSE "FINALIZE_FLASH"
      /\ reply'.status = "OK"
      /\ UNCHANGED <<flash, nextWriteAddress, cmd, history>>
  BY <1>1 DEF CopyDone, CommitOk, Inv1, TypeOK, TypeInvariant, Locals, CallLocals, Reply, buffers
<1>3. ASSUME clean, NEW i \in 0 .. End - 1
      PROVE  i \in Addr /\ storedBar[i] = received[i]
  <2>1. i \in Addr
    <3>1. End <= nextWriteAddress /\ End \in Nat
      BY <1>1, CommitEnd DEF Inv1, TypeOK, Locals
    <3>2. QED
      BY <1>1, <3>1, Types, Sizes DEF Addr
  <2>2. flash[AppAddress(i)] = received[i]
    <3>1. CASE cmd = "WRITE_FLASH"
      <4>1. Top' = nextWriteAddress /\ ~ InCommit' /\ clean'
        BY <1>2, <1>3 DEF Top, InCommit, history
      <4>2. i \in 0 .. PageStart(Top)' - 1
        BY <3>1, <4>1 DEF End, PageStart, BufferIndex
      <4>3. Stored(ReadByte, i)'
        BY <1>1, <4>1, <4>2 DEF Behind, Bound
      <4>4. QED
        BY <1>2, <4>3 DEF Stored, ReadByte, history, AppAddress
    <3>2. CASE cmd # "WRITE_FLASH"
      <4>1. UploadConfirmed'
        BY <1>2, <1>3, <3>2 DEF UploadConfirmed, history
      <4>2. Stored(ReadByte, i)'
        BY <1>1, <1>2, <3>2, <4>1 DEF Durable, End
      <4>3. QED
        BY <1>2, <4>2 DEF Stored, ReadByte, history, AppAddress
    <3>3. QED
      BY <3>1, <3>2
  <2>3. QED
    BY <2>1, <2>2 DEF storedBar, ReadByte
<1>4. Promise!Due = 0 .. End - 1
  BY <1>2 DEF Promise!Due, Promise!PageStart, End, PageStart, BufferIndex
<1>5. clean => Promise!Kept(Promise!Due)
  BY <1>3, <1>4 DEF Promise!Kept, Promise!Addr, Addr, storedBar
<1>6. ~ Rewriting /\ ~ Rewriting'
  BY <1>2 DEF Rewriting
<1>7. QED
  BY <1>2, <1>5, <1>6 DEF Promise!Ok, Promise!Addr, history, ReadByte

\* A write that is accepted is a Write of UploadPromise.
LEMMA StepWrite ==
  ASSUME RInv, RInv', NEW a \in Addr, NEW n \in 0 .. MaxData, NEW img \in Images,
         WriteAccepted(a, n, img)
  PROVE  a \in {0, nextWriteAddress} /\ Promise!Write(a, n)
<1>1. /\ pc = "idle" /\ pc' = "copy" /\ Expected(a) /\ cmd' = "WRITE_FLASH"
      /\ UNCHANGED <<flash, reply>>
  BY DEF WriteAccepted
<1>2. ~ Rewriting /\ ~ Rewriting'
  BY <1>1 DEF Rewriting
<1>3. received' \in [Addr -> Byte]
  BY DEF RInv, IInv, TypeOK, TypeInvariant
<1>4. \A i \in Addr \ (a .. a + n - 1) : received'[i] = IF a = 0 THEN 0 ELSE received[i]
  BY DEF WriteAccepted
<1>5. nextWriteAddress' = (a + n) % ADDR /\ clean' = ((a = 0 \/ clean) /\ a + n < ADDR)
  BY DEF WriteAccepted, Advance
<1>6. QED
  BY <1>1, <1>2, <1>3, <1>4, <1>5 DEF Promise!Write, Promise!Addr, Addr, Expected, ReadByte

\* One case per action: each is an action of UploadPromise or a stutter.
LEMMA StepPromise ==
  RInv /\ RInv' /\ [Next]_vars => [Promise!Next]_(Promise!promiseVars)
<1> SUFFICES ASSUME RInv, RInv', [Next]_vars
             PROVE  Promise!Next \/ UNCHANGED Promise!promiseVars
  OBVIOUS
<1>0. Inv1 /\ RowsDone /\ InApplication
  BY DEF RInv, IInv, Inv1
<1>1. CASE Reset
  <2>1. ~ Rewriting'
    BY <1>1 DEF Reset, Rewriting
  <2>2. Promise!Restart
    BY <1>1, <2>1 DEF Reset, Promise!Restart, Promise!Fresh, Promise!Addr, Addr, Reply, ReadByte
  <2>3. QED
    BY <2>2 DEF Promise!Next
<1>2. ASSUME NEW a \in Addr, WriteRejected(a) PROVE Promise!Next
  <2>1. ~ Rewriting /\ ~ Rewriting'
    BY <1>2 DEF WriteRejected, Rewriting
  <2>2. Promise!Refuse
    BY <1>2, <2>1 DEF WriteRejected, Promise!Refuse, Promise!Addr, Addr, Reply, ReadByte,
                      buffers, history
  <2>3. QED
    BY <2>2 DEF Promise!Next
<1>3. CASE StartUpload \/ ContinueUpload
  <2>1. PICK a \in Addr, n \in 0 .. MaxData, img \in Images : WriteAccepted(a, n, img)
    <3>1. 0 \in Addr
      BY Sizes DEF Addr
    <3>2. QED
      BY <1>3, <3>1 DEF StartUpload, ContinueUpload
  <2>2. a \in {0, nextWriteAddress} /\ Promise!Write(a, n)
    BY <2>1, StepWrite
  <2>3. QED
    BY <2>2 DEF Promise!Next
<1>4. CASE FinalizeFlash
  <2>1. ~ Rewriting /\ ~ Rewriting'
    BY <1>4 DEF FinalizeFlash, Rewriting
  <2>2. Promise!Finalize
    BY <1>4, <2>1 DEF FinalizeFlash, Promise!Finalize, Promise!Addr, Addr, ReadByte,
                      buffers, history
  <2>3. QED
    BY <2>2 DEF Promise!Next
<1>5. CASE CopyByte
  <2>1. /\ pc = "copy" /\ pc' \in {"copy", "commit"}
        /\ UNCHANGED <<flash, received, nextWriteAddress, clean, reply, cmd>>
    BY <1>5 DEF CopyByte, history
  <2>2. doingBar' = doingBar /\ openBar' = openBar
    BY <2>1 DEF doingBar, openBar, Rewriting
  <2>3. QED
    BY <2>1, <2>2, StepStutter
<1>6. CASE CopyDone \/ (CommitOk /\ cmd # "WRITE_FLASH")
  BY <1>6, StepOk DEF Promise!Next
<1>7. CASE CommitOk /\ cmd = "WRITE_FLASH"
  <2>1. /\ pc = "return" /\ err = 0 /\ pc' = "copy"
        /\ UNCHANGED <<flash, received, nextWriteAddress, clean, reply, cmd>>
    BY <1>7 DEF CommitOk, history, buffers
  <2>2. doingBar' = doingBar /\ openBar' = openBar
    BY <2>1 DEF doingBar, openBar, Rewriting
  <2>3. QED
    BY <2>1, <2>2, StepStutter
<1>8. CASE CommitSkip(ReadByte)
  <2>1. /\ pc = "commit" /\ err' = 0 /\ pc' = "return"
        /\ UNCHANGED <<flash, received, nextWriteAddress, clean, reply, cmd>>
    BY <1>8 DEF CommitSkip, history, buffers
  <2>2. doingBar' = doingBar /\ openBar' = openBar
    BY <2>1 DEF doingBar, openBar, Rewriting
  <2>3. QED
    BY <2>1, <2>2, StepStutter
<1>9. CASE CommitStart(ReadByte)
  BY <1>9, StepOpen DEF Promise!Next
<1>10. CASE CommitDone
  <2>1. /\ pc = "row" /\ err' = 0 /\ pc' = "return"
        /\ UNCHANGED <<flash, received, nextWriteAddress, clean, reply, cmd>>
    BY <1>10 DEF CommitDone, history, buffers
  <2>2. Rewriting /\ ~ Rewriting'
    BY <2>1 DEF Rewriting
  <2>3. base .. base + FLASH_ERASE_SIZE - 1 # {}
    <3>1. base \in base .. base + FLASH_ERASE_SIZE - 1
      BY <1>0, Types, Sizes
    <3>2. QED
      BY <3>1, Zenon
  <2>4. Promise!Close
    BY <2>1, <2>2, <2>3 DEF Promise!Close, Promise!Addr, Addr, ReadByte
  <2>5. QED
    BY <2>4 DEF Promise!Next
<1>11. CASE CommitFailed
  <2>1. /\ pc = "return" /\ err # 0 /\ pc' = "idle"
        /\ clean' = (clean /\ cmd # "WRITE_FLASH")
        /\ reply'.status = "COMMAND_FAILED"
        /\ UNCHANGED <<flash, received, nextWriteAddress, cmd>>
    BY <1>11 DEF CommitFailed, Reply
  <2>2. Rewriting /\ ~ Rewriting'
    BY <2>1 DEF Rewriting
  <2>3. base .. base + FLASH_ERASE_SIZE - 1 # {}
    <3>1. base \in base .. base + FLASH_ERASE_SIZE - 1
      BY <1>0, Types, Sizes
    <3>2. QED
      BY <3>1, Zenon
  <2>4. Promise!Fail
    BY <2>1, <2>2, <2>3 DEF Promise!Fail, Promise!Addr, Addr, ReadByte
  <2>5. QED
    BY <2>4 DEF Promise!Next
<1>12. CASE (RejectRow \/ ErasePage \/ ProgramRow) /\ UNCHANGED flash /\ pc' = "return"
  <2>1. /\ pc \in {"row", "program"} /\ err' # 0
        /\ UNCHANGED <<flash, received, nextWriteAddress, clean, reply, cmd, base>>
    BY <1>0, <1>12, HwErrorAssumption
       DEF RejectRow, ErasePage, ProgramRow, AtRow, RowFailed, RowDone, history, buffers, commitV
  <2>2. doingBar' = doingBar /\ openBar' = openBar
    BY <1>12, <2>1 DEF doingBar, openBar, Rewriting
  <2>3. QED
    BY <2>1, <2>2, StepStutter
<1>13. CASE ErasePage
  <2>1. /\ pc = "row" /\ len > 0 /\ RowError(RowAddress, RowLen) = 0
        /\ EraseNeeded(RowAddress) /\ InCommit
        /\ UNCHANGED <<received, nextWriteAddress, clean, cmd, base, reply>>
    BY <1>13 DEF ErasePage, AtRow, RowFailed, history, buffers, commitV, InCommit
  <2>2. CASE pc' = "return" /\ UNCHANGED flash
    BY <1>12, <1>13, <2>2
  <2>3. CASE /\ pc' = "program"
             /\ flash' = [c \in Addr |-> IF InPage(c, RowAddress) THEN ERASED ELSE flash[c]]
    <3>1. /\ PageInFlash /\ base + FLASH_ERASE_SIZE <= ApplicationSize
          /\ RowAddress = FLASH_APP_OFFSET + base
      BY <1>0, <2>1, Accepted, PageInApplication, EraseFirst, Types, Sizes
    <3>2. \A c \in Addr : c \notin FLASH_APP_OFFSET + base .. FLASH_APP_OFFSET + base + FLASH_ERASE_SIZE - 1
                            => flash'[c] = flash[c]
      BY <2>3, <3>1 DEF InPage
    <3>3. Rewriting /\ Rewriting'
      BY <2>1, <2>3 DEF Rewriting
    <3>4. Promise!Change
      BY <2>1, <2>3, <3>1, <3>2, <3>3, StepChange
    <3>5. QED
      BY <3>4 DEF Promise!Next
  <2>4. QED
    BY <1>13, <2>2, <2>3 DEF ErasePage, RowFailed
<1>14. CASE ProgramRow
  <2>1. /\ pc \in {"row", "program"} /\ len > 0 /\ InCommit
        /\ UNCHANGED <<received, nextWriteAddress, clean, cmd, base, reply>>
    BY <1>0, <1>14 DEF ProgramRow, AtRow, RowDone, RowFailed, history, buffers, commitV, InCommit,
                       Inv1, Locals, CallLocals, InRows
  <2>2. /\ PageInFlash /\ RowAddress = FLASH_APP_OFFSET + base + offset
        /\ offset \in 0 .. FLASH_ERASE_SIZE - 1
        /\ offset + FLASH_WRITE_SIZE <= FLASH_ERASE_SIZE
    BY <1>0, <1>14, BeforeProgram
  <2>3. base + FLASH_ERASE_SIZE <= ApplicationSize
    <3>1. CASE pc = "program"
      BY <1>0, <3>1 DEF InApplication
    <3>2. CASE pc # "program"
      BY <1>0, <1>14, <2>1, <3>2, PageInApplication DEF ProgramRow
    <3>3. QED
      BY <3>1, <3>2
  <2>4. \A c \in Addr : c \notin FLASH_APP_OFFSET + base .. FLASH_APP_OFFSET + base + FLASH_ERASE_SIZE - 1
                          => flash'[c] = flash[c]
    <3>1. \A c \in Addr : InRow(c, RowAddress)
                             => c \in FLASH_APP_OFFSET + base .. FLASH_APP_OFFSET + base + FLASH_ERASE_SIZE - 1
      BY <1>0, <2>2, Types, Sizes, SMTT(60) DEF InRow, Addr
    <3>2. \A c \in Addr : ~ InRow(c, RowAddress) => flash'[c] = flash[c]
      BY <1>14 DEF ProgramRow, Programmed
    <3>3. QED
      BY <3>1, <3>2
  <2>5. pc' = "row" \/ (pc' = "return" /\ err' # 0)
    BY <1>14, HwErrorAssumption DEF ProgramRow, RowDone, RowFailed
  <2>6. Rewriting /\ Rewriting'
    BY <2>1, <2>5 DEF Rewriting
  <2>7. Promise!Change
    BY <2>1, <2>2, <2>3, <2>4, <2>5, <2>6, StepChange
  <2>8. QED
    BY <2>7 DEF Promise!Next
<1>15. CASE RejectRow
  BY <1>12, <1>15 DEF RejectRow, RowFailed
<1>16. CASE UNCHANGED vars
  <2>1. UNCHANGED <<flash, received, nextWriteAddress, clean, reply, cmd, pc, err, base>>
    BY <1>16 DEF vars
  <2>2. doingBar' = doingBar /\ openBar' = openBar
    BY <2>1 DEF doingBar, openBar, Rewriting
  <2>3. QED
    BY <2>1, <2>2, StepStutter
<1>17. CASE LocalStep(ReadByte)
  BY <1>5, <1>6, <1>7, <1>8, <1>9, <1>10, <1>11, <1>17, Zenon DEF LocalStep
<1>18. QED
  BY <1>1, <1>2, <1>3, <1>4, <1>13, <1>14, <1>15, <1>16, <1>17, Zenon DEF Next

\* To a master the STM32 build is an UploadPromise.
THEOREM PromiseCorrect == Spec => ImplementsPromise
<1>1. Init => Promise!Init
  <2> SUFFICES ASSUME Init PROVE Promise!Init
    OBVIOUS
  <2>1. storedBar \in [Addr -> Byte]
    BY AppAddressLemma DEF storedBar, ReadByte, Init
  <2>2. ~ Rewriting
    BY DEF Init, RamInit, Rewriting
  <2>3. QED
    BY <2>1, <2>2 DEF Init, RamInit, Promise!Init, Promise!Fresh, Promise!Addr, Addr, Reply,
                      storedBar
<1>2. QED
  BY <1>1, StepPromise, RInvariance, PTL DEF Spec, ImplementsPromise, Promise!Spec

-----------------------------------------------------------------------------
(***************************************************************************)
(* The child of an upload is that of Stm32Flash.                           *)
(***************************************************************************)
\* The master's variables have their types, a request stays what it was when it
\* was sent, and there is none when the upload is over.
MasterInv ==
  /\ MasterTypeOK
  /\ frame # "none" => request \in Requests /\ outcome = "running"

\* The numbers the master counts with.
LEMMA MasterNumbers ==
  ASSUME MasterTypeOK
  PROVE  /\ position \in 0 .. ImageSize /\ position \in Nat
         /\ ImageSize \in Nat /\ ImageSize >= 1 /\ ImageSize < ADDR
         /\ request.at \in Addr /\ request.count \in 0 .. MaxData /\ request.count \in Nat
         /\ image \in Images
<1>1. ImageSize \in 1 .. ADDR - 1
  BY UploadAssumption
<1>2. QED
  BY <1>1, Sizes DEF MasterTypeOK

\* What a request asks for.
LEMMA RequestOf ==
  ASSUME MasterTypeOK, request \in Requests
  PROVE  /\ position + request.count <= ImageSize
         /\ \/ /\ request.cmd = "WRITE_FLASH" /\ request.at = position
               /\ request.count >= 1
            \/ /\ request.cmd = "FINALIZE_FLASH" /\ position = ImageSize
               /\ request.count = 0
<1>1. CASE position < ImageSize
  BY <1>1, MasterNumbers DEF Requests
<1>2. CASE ~ (position < ImageSize)
  BY <1>2, MasterNumbers DEF Requests
<1>3. QED
  BY <1>1, <1>2

\* At first the master has nothing sent.
LEMMA InitMaster == MasterInit => MasterInv
<1> SUFFICES ASSUME MasterInit PROVE MasterInv
  OBVIOUS
<1>1. 0 \in Addr /\ 0 \in 0 .. MaxData /\ 0 \in 0 .. ImageSize /\ 0 \in 0 .. MaxCuts
  BY Sizes, UploadAssumption DEF Addr
<1>2. QED
  BY <1>1 DEF MasterInit, MasterInv, MasterTypeOK, NoRequest

\* Whatever a step does, it is one of these to the master.
LEMMA MasterKinds ==
  ASSUME [UploadNext]_uploadVars
  PROVE  \/ MasterSends \/ ChildReplies \/ FrameLost \/ MasterRepeats \/ MasterGivesUp
         \/ MasterReceives \/ ChildReceives \/ MasterStarts \/ ChildRestarts
         \/ UNCHANGED master
BY DEF UploadNext, MasterStep, ChildStarts, ChildWorks, NextUpload, PowerCut, uploadVars

\* The types of the master's variables are kept.
LEMMA StepMaster == MasterInv /\ [UploadNext]_uploadVars => MasterInv'
<1> SUFFICES ASSUME MasterInv, [UploadNext]_uploadVars PROVE MasterInv'
  OBVIOUS
<1>1. MasterTypeOK
  BY DEF MasterInv
<1>2. CASE MasterSends
  <2>1. request' \in Requests /\ UNCHANGED position
    BY <1>2 DEF MasterSends
  <2>2. request' \in [cmd : {"none", "WRITE_FLASH", "FINALIZE_FLASH"}, at : Addr, count : 0 .. MaxData]
    <3>1. CASE position < ImageSize
      <4>1. position \in Addr
        BY <1>1, MasterNumbers, Sizes DEF Addr
      <4>2. PICK n \in 1 .. MaxData : request' = [cmd |-> "WRITE_FLASH", at |-> position, count |-> n]
        BY <2>1, <3>1 DEF Requests
      <4>3. n \in 0 .. MaxData
        BY Sizes
      <4>4. QED
        BY <4>1, <4>2, <4>3
    <3>2. CASE ~ (position < ImageSize)
      <4>1. 0 \in Addr /\ 0 \in 0 .. MaxData
        BY Sizes DEF Addr
      <4>2. QED
        BY <2>1, <3>2, <4>1 DEF Requests
    <3>3. QED
      BY <3>1, <3>2
  <2>3. Requests' = Requests
    BY <2>1 DEF Requests
  <2>4. QED
    BY <1>1, <1>2, <2>1, <2>2, <2>3 DEF MasterSends, MasterInv, MasterTypeOK
<1>3. CASE ChildReplies \/ FrameLost \/ MasterRepeats \/ ChildReceives
  <2>1. /\ UNCHANGED <<outcome, image, position, request, known, cuts, uploaded>>
        /\ frame # "none" /\ frame' \in {"request", "child", "reply", "lost"}
        /\ repeated' \in BOOLEAN
    BY <1>1, <1>3 DEF ChildReplies, FrameLost, MasterRepeats, ChildReceives, MasterTypeOK
  <2>2. Requests' = Requests
    BY <2>1 DEF Requests
  <2>3. QED
    BY <1>1, <2>1, <2>2 DEF MasterInv, MasterTypeOK
<1>4. CASE ChildRestarts
  <2>1. /\ UNCHANGED <<outcome, image, position, request, repeated, uploaded>>
        /\ frame' \in {"none", "lost"} /\ (frame' # "none" => frame # "none")
        /\ known' = FALSE
    BY <1>4 DEF ChildRestarts
  <2>2. cuts' \in 0 .. MaxCuts
    BY <1>1, <1>4, UploadAssumption DEF ChildRestarts, MasterTypeOK
  <2>3. Requests' = Requests
    BY <2>1 DEF Requests
  <2>4. QED
    BY <1>1, <2>1, <2>2, <2>3 DEF MasterInv, MasterTypeOK
<1>5. CASE MasterGivesUp \/ MasterReceives
  <2>1. /\ UNCHANGED <<image, known, cuts>> /\ frame' = "none" /\ frame # "none"
        /\ request' = NoRequest /\ repeated' = FALSE
        /\ outcome' \in {"running", "done", "failed"}
        /\ uploaded' \subseteq uploaded \cup {image}
    BY <1>5 DEF MasterGivesUp, MasterReceives
  <2>2. position' \in 0 .. ImageSize
    <3>1. position' \in {position, position + request.count}
      BY <1>5 DEF MasterGivesUp, MasterReceives
    <3>2. position + request.count <= ImageSize
      BY <1>1, <2>1, RequestOf DEF MasterInv
    <3>3. QED
      BY <1>1, <3>1, <3>2, MasterNumbers
  <2>3. request' \in [cmd : {"none", "WRITE_FLASH", "FINALIZE_FLASH"}, at : Addr, count : 0 .. MaxData]
    <3>1. 0 \in Addr /\ 0 \in 0 .. MaxData
      BY Sizes DEF Addr
    <3>2. QED
      BY <2>1, <3>1 DEF NoRequest
  <2>4. QED
    BY <1>1, <2>1, <2>2, <2>3 DEF MasterInv, MasterTypeOK
<1>6. CASE MasterStarts
  <2>1. /\ outcome' = "running" /\ image' \in Images /\ position' = 0 /\ known' = TRUE
        /\ uploaded' \subseteq uploaded /\ UNCHANGED <<request, repeated, frame, cuts>>
    BY <1>6 DEF MasterStarts
  <2>2. 0 \in 0 .. ImageSize
    BY UploadAssumption, Sizes
  <2>3. MasterTypeOK'
    BY <1>1, <2>1, <2>2 DEF MasterTypeOK
  <2>4. QED
    BY <1>6, <2>1, <2>3 DEF MasterInv, MasterStarts
<1>7. CASE UNCHANGED master
  <2>1. Requests' = Requests
    BY <1>7 DEF master, Requests
  <2>2. QED
    BY <1>1, <1>7, <2>1 DEF master, MasterInv, MasterTypeOK
<1>8. QED
  BY <1>2, <1>3, <1>4, <1>5, <1>6, <1>7, MasterKinds

\* Every step of an upload is one of the child, or leaves it alone.
LEMMA ChildSteps == MasterInv /\ [UploadNext]_uploadVars => [Next]_vars
<1> SUFFICES ASSUME MasterInv, [UploadNext]_uploadVars PROVE Next \/ UNCHANGED vars
  OBVIOUS
<1>1. CASE ChildStarts
  <2>1. /\ request.at \in Addr /\ request.count \in 0 .. MaxData /\ image \in Images
    BY MasterNumbers DEF MasterInv
  <2>2. \/ WriteAccepted(request.at, request.count, image)
        \/ WriteRejected(request.at) \/ FinalizeFlash
    BY <1>1 DEF ChildStarts
  <2>3. CASE WriteAccepted(request.at, request.count, image)
    <3>1. CASE request.at = 0
      BY <2>1, <2>3, <3>1, Zenon DEF Next, StartUpload
    <3>2. CASE request.at # 0
      <4>1. request.at \in Addr \ {0}
        BY <2>1, <3>2
      <4>2. QED
        BY <2>1, <2>3, <4>1, Zenon DEF Next, ContinueUpload
    <3>3. QED
      BY <3>1, <3>2
  <2>4. QED
    BY <2>1, <2>2, <2>3, Zenon DEF Next
<1>2. CASE ChildWorks
  BY <1>2 DEF ChildWorks, Next
<1>3. CASE NextUpload \/ PowerCut \/ (MasterStep /\ UNCHANGED vars) \/ UNCHANGED uploadVars
  BY <1>3 DEF NextUpload, PowerCut, Next, uploadVars
<1>4. QED
  BY <1>1, <1>2, <1>3 DEF UploadNext

\* So what was proved of Stm32Flash holds in every upload.
THEOREM ChildCorrect == UploadSpec => Spec
<1>1. UploadInit => Init /\ MasterInv
  BY InitMaster DEF UploadInit
<1>2. QED
  BY <1>1, StepMaster, ChildSteps, PTL DEF UploadSpec, Spec

\* The type invariant holds in every reachable state.
THEOREM UploadTypeCorrect == UploadSpec => []UploadTypeOK
<1>1. UploadInit => MasterInv
  BY InitMaster DEF UploadInit
<1>2. MasterInv /\ TypeOK => UploadTypeOK
  BY DEF MasterInv, UploadTypeOK
<1>3. QED
  BY <1>1, <1>2, StepMaster, ChildCorrect, TypeCorrect, PTL DEF UploadSpec

-----------------------------------------------------------------------------
(***************************************************************************)
(* The inductive invariant of an upload, when flash does not fail and the  *)
(* image is not bigger than the application.                               *)
(***************************************************************************)
\* What the master relies on: nothing fails in the child but by power loss.
Faultless == HwErrors = {} /\ ImageSize <= ApplicationSize

\* The child is at work exactly while the master waits for its reply, and on
\* what the master asked it.
Working ==
  /\ frame # "child" => pc = "idle"
  /\ frame \in {"child", "reply"} => known /\ cmd = request.cmd

\* The child has taken the first p bytes of the image, and nothing else.
Has(p) ==
  /\ clean
  /\ nextWriteAddress = p
  /\ \A i \in 0 .. p - 1 : received[i] = image[i]

\* A child that has not restarted is where the master takes it to be, or one
\* request further, when the reply to that was lost.  Before the first request
\* it may be anywhere: a write at 0 starts over.
Sync ==
  known /\ outcome = "running" =>
    \/ frame \in {"none", "request", "lost"} /\ (position = 0 \/ Has(position))
    \/ frame # "none" /\ Has(position + request.count)

\* An image that was uploaded is in flash, and no page is rewritten for it.
Uploaded ==
  /\ uploaded \subseteq {image}
  /\ outcome = "done" => image \in uploaded
  /\ image \in uploaded => InFlash(ReadByte) /\ pc \notin {"row", "program"}

UInv == MasterInv /\ IInv /\ Working /\ Sync /\ err = 0 /\ Uploaded

\* While the child works, it has all that the request asks it to have.
LEMMA AtWork ==
  ASSUME MasterInv, Working, Sync, frame \in {"child", "reply"}
  PROVE  /\ known /\ outcome = "running" /\ cmd = request.cmd
         /\ Has(position + request.count)
         /\ nextWriteAddress <= ImageSize /\ clean
         /\ \A i \in 0 .. nextWriteAddress - 1 : received[i] = image[i]
<1>1. known /\ outcome = "running" /\ cmd = request.cmd /\ request \in Requests
  BY DEF MasterInv, Working
<1>2. Has(position + request.count)
  BY <1>1 DEF Sync
<1>3. position + request.count <= ImageSize
  BY <1>1, RequestOf DEF MasterInv
<1>4. QED
  BY <1>1, <1>2, <1>3 DEF Has

\* A row of an image that fits is accepted by writePage.
LEMMA RowFits ==
  ASSUME Faultless, Inv1, nextWriteAddress <= ImageSize, AtRow
  PROVE  RowError(RowAddress, RowLen) = 0
<1>1. /\ InCommit /\ len > 0 /\ pc = "row" /\ offset % FLASH_WRITE_SIZE = 0
      /\ base % FLASH_ERASE_SIZE = 0
  BY DEF AtRow, InCommit, Inv1, Locals, CallLocals
<1>2. /\ base \in Nat /\ offset \in Nat /\ len \in Nat /\ nextWriteAddress \in Nat
      /\ base + (offset + len) <= nextWriteAddress
  <2>1. base + CommitLen <= End /\ End <= nextWriteAddress /\ End \in Nat
    BY <1>1, CommitEnd DEF Inv1, Locals, TypeOK
  <2>2. QED
    BY <2>1, Types DEF CommitLen
<1>3. RowLen \in Nat /\ RowLen # 0 /\ RowLen <= len /\ ~ (RowLen > FLASH_WRITE_SIZE)
  BY <1>1, <1>2, Sizes DEF RowLen
<1>4. base + offset + RowLen <= ApplicationSize
  <2>1. ImageSize \in Nat /\ ImageSize <= ApplicationSize
    BY UploadAssumption, Sizes DEF Faultless
  <2>2. QED
    BY <1>2, <1>3, <2>1, Sizes
<1>5. RowAddress = FLASH_APP_OFFSET + base + offset
  <2>1. FLASH_APP_OFFSET + ApplicationSize <= ADDR
    BY SizeAssumption
  <2>2. base + offset \in 0 .. ADDR - 1 /\ FLASH_APP_OFFSET + (base + offset) \in 0 .. ADDR - 1
    BY <1>2, <1>3, <1>4, <2>1, Sizes
  <2>3. (FLASH_APP_OFFSET + (base + offset)) % ADDR = FLASH_APP_OFFSET + (base + offset)
    BY <2>2, Sizes, ModSmall, Zenon
  <2>4. QED
    BY <1>2, <2>3, Sizes DEF RowAddress, AppAddress
<1>6. RowAddress % FLASH_WRITE_SIZE = 0
  <2>1. FLASH_APP_OFFSET % FLASH_WRITE_SIZE = 0 /\ base % FLASH_WRITE_SIZE = 0
    BY <1>1, <1>2, SizeAssumption, Sizes, ModTrans, Zenon
  <2>2. (base + offset) % FLASH_WRITE_SIZE = 0
    BY <1>1, <1>2, <2>1, Sizes, ModAdd, Zenon
  <2> DEFINE b == base + offset
  <2>3. b \in Nat /\ b % FLASH_WRITE_SIZE = 0 /\ RowAddress = FLASH_APP_OFFSET + b
    BY <1>2, <1>5, <2>2, Sizes
  <2> HIDE DEF b
  <2>4. QED
    BY <2>1, <2>3, Sizes, ModAdd, Zenon
<1>7. ~ OutsideApplication(RowAddress, RowLen)
  BY <1>2, <1>3, <1>4, <1>5, Sizes DEF OutsideApplication
<1>8. QED
  BY <1>3, <1>6, <1>7 DEF RowError

\* What the child does on a request: nothing fails, and flash changes only while
\* a page is rewritten.
LEMMA WorkStep ==
  ASSUME Faultless, UInv, ChildWorks
  PROVE  /\ frame = "child" /\ UNCHANGED master
         /\ UNCHANGED <<received, nextWriteAddress, clean, cmd>>
         /\ err' = 0
         /\ flash' = flash \/ pc \in {"row", "program"}
         /\ pc' \in {"row", "program"} => CommitStart(ReadByte) \/ pc \in {"row", "program"}
<1>1. /\ frame = "child" /\ UNCHANGED master /\ err = 0 /\ Inv1 /\ nextWriteAddress <= ImageSize
      /\ HwErrors = {}
  BY AtWork DEF ChildWorks, UInv, IInv, Inv1, Faultless
<1>2. LocalStep(ReadByte) \/ RejectRow \/ ErasePage \/ ProgramRow
  BY DEF ChildWorks
<1>3. CASE RejectRow
  <2>1. FALSE
    BY <1>1, <1>3, RowFits DEF RejectRow
  <2>2. QED
    BY <2>1
<1>4. CASE ErasePage
  <2>1. pc = "row" /\ UNCHANGED <<received, nextWriteAddress, clean, cmd>>
    BY <1>4 DEF ErasePage, AtRow, buffers, history
  <2>2. err' = err
    BY <1>1, <1>4 DEF ErasePage
  <2>3. QED
    BY <1>1, <2>1, <2>2
<1>5. CASE ProgramRow
  <2>1. pc \in {"row", "program"} /\ UNCHANGED <<received, nextWriteAddress, clean, cmd>>
    BY <1>5 DEF ProgramRow, AtRow, buffers, history
  <2>2. err' = err
    BY <1>1, <1>5 DEF ProgramRow, RowDone
  <2>3. QED
    BY <1>1, <2>1, <2>2
<1>6. CASE CopyByte \/ CopyDone
  <2>1. pc = "copy" /\ pc' \in {"copy", "idle", "commit"}
    BY <1>6 DEF CopyByte, CopyDone
  <2>2. UNCHANGED <<received, nextWriteAddress, clean, cmd, flash, err>>
    BY <1>6 DEF CopyByte, CopyDone, history
  <2>3. QED
    BY <1>1, <2>1, <2>2
<1>7. CASE CommitSkip(ReadByte) \/ CommitStart(ReadByte) \/ CommitDone
  <2>1. UNCHANGED <<received, nextWriteAddress, clean, cmd, flash>> /\ err' \in {0, err}
    BY <1>7 DEF CommitSkip, CommitStart, CommitDone, buffers, history
  <2>2. pc' = "return" \/ CommitStart(ReadByte)
    BY <1>7 DEF CommitSkip, CommitDone
  <2>3. QED
    BY <1>1, <2>1, <2>2
<1>8. CASE CommitOk
  <2>1. UNCHANGED <<received, nextWriteAddress, clean, cmd, flash>> /\ err' = 0
    BY <1>8 DEF CommitOk, LocalsGone, buffers, history
  <2>2. pc' \in {"copy", "idle"}
    BY <1>8 DEF CommitOk
  <2>3. QED
    BY <1>1, <2>1, <2>2
<1>9. CASE CommitFailed
  BY <1>1, <1>9 DEF CommitFailed
<1>10. QED
  BY <1>2, <1>3, <1>4, <1>5, <1>6, <1>7, <1>8, <1>9 DEF LocalStep

\* Nothing is committed of an image that is in flash.
LEMMA NothingToWrite ==
  ASSUME UInv, frame = "child", InFlash(ReadByte)
  PROVE  ~ CommitStart(ReadByte)
<1> SUFFICES ASSUME CommitStart(ReadByte) PROVE FALSE
  OBVIOUS
<1>1. /\ Inv1 /\ Buffered /\ InCommit /\ offset = 0 /\ pc = "commit"
  BY DEF UInv, IInv, Inv1, CommitStart, InCommit, Locals, CallLocals
<1>2. /\ clean /\ nextWriteAddress <= ImageSize
      /\ \A i \in 0 .. nextWriteAddress - 1 : received[i] = image[i]
  BY AtWork DEF UInv
<1>3. PICK i \in 0 .. len - 1 : writeBuffer[i] # ReadByte[AppAddress(base + i)]
  BY DEF CommitStart, EqualToFlash
<1>4. CommitLen = len /\ base \in Nat /\ len \in Nat /\ nextWriteAddress \in Nat
      /\ base + len <= nextWriteAddress
  <2>1. base + CommitLen <= End /\ End <= nextWriteAddress /\ End \in Nat
    BY <1>1, CommitEnd DEF Inv1, Locals, TypeOK
  <2>2. QED
    BY <1>1, <2>1, Types DEF CommitLen
<1>5. i \in 0 .. CommitLen - 1 /\ base + i \in 0 .. nextWriteAddress - 1
  BY <1>3, <1>4
<1>6. writeBuffer[i] = received[base + i]
  BY <1>1, <1>2, <1>5, BufferedPage
<1>7. ReadByte[AppAddress(base + i)] = image[base + i]
  <2>1. base + i \in 0 .. ImageSize - 1
    BY <1>2, <1>4, <1>5, UploadAssumption, Sizes
  <2>2. QED
    BY <2>1 DEF InFlash
<1>8. QED
  BY <1>2, <1>3, <1>5, <1>6, <1>7

\* When a child says OK to FINALIZE_FLASH, the image is in flash.
LEMMA DoneStored ==
  ASSUME UInv, frame = "reply", reply.status = "OK", request.cmd = "FINALIZE_FLASH"
  PROVE  InFlash(ReadByte)
<1>1. /\ pc = "idle" /\ cmd = "FINALIZE_FLASH" /\ Durable /\ clean
      /\ Has(position + request.count)
  BY AtWork DEF UInv, IInv, Working
<1>2. position + request.count = ImageSize
  <2>1. position = ImageSize /\ request.count = 0 /\ position \in Nat
    BY RequestOf, MasterNumbers DEF UInv, MasterInv
  <2>2. QED
    BY <2>1
<1>3. UploadConfirmed
  BY <1>1 DEF UploadConfirmed
<1>4. \A i \in 0 .. ImageSize - 1 : Stored(ReadByte, i) /\ received[i] = image[i]
  BY <1>1, <1>2, <1>3 DEF Durable, Has
<1>5. QED
  BY <1>4 DEF InFlash, Stored

\* A request that arrives is taken for the next one, or for a repetition.
LEMMA StartStep ==
  ASSUME UInv, ChildStarts
  PROVE  /\ frame = "request" /\ frame' = "child" /\ known /\ outcome = "running"
         /\ UNCHANGED <<outcome, image, position, request, repeated, known, cuts, uploaded>>
         /\ cmd' = request.cmd /\ UNCHANGED <<flash, err>>
         /\ pc = "idle" /\ pc' \in {"idle", "copy", "commit"}
         /\ Has(position + request.count)'
<1>1. /\ frame = "request" /\ frame' = "child" /\ known /\ outcome = "running"
      /\ UNCHANGED <<outcome, image, position, request, repeated, known, cuts, uploaded>>
      /\ pc = "idle" /\ request \in Requests /\ MasterTypeOK
  BY DEF ChildStarts, ChildReceives, UInv, MasterInv, Working
<1>2. position = 0 \/ Has(position) \/ Has(position + request.count)
  BY <1>1 DEF UInv, Sync
<1>3. CASE request.cmd = "WRITE_FLASH"
  <2>1. /\ request.at = position /\ request.count >= 1 /\ position + request.count <= ImageSize
        /\ position \in Nat /\ request.count \in Nat /\ ImageSize \in Nat /\ ImageSize < ADDR
        /\ image \in [Addr -> Byte]
    BY <1>1, <1>3, RequestOf, MasterNumbers, InputAssumption
  <2> DEFINE p == position
             q == position + request.count
  <2>2. CASE WriteAccepted(request.at, request.count, image)
    <3>1. /\ p = 0 \/ Has(p)
          /\ pc' = "copy" /\ cmd' = "WRITE_FLASH" /\ UNCHANGED <<flash, err>>
      <4>1. p = 0 \/ nextWriteAddress = p
        BY <2>1, <2>2 DEF WriteAccepted, Expected
      <4>2. p # 0 => ~ Has(q)
        BY <2>1, <4>1 DEF Has
      <4>3. QED
        BY <1>2, <2>2, <4>2 DEF WriteAccepted
    <3>2. nextWriteAddress' = q
      <4>1. q \in 0 .. ADDR - 1
        BY <2>1, Sizes
      <4>2. q % ADDR = q
        BY <4>1, Sizes, ModSmall, Zenon
      <4>3. nextWriteAddress' = q % ADDR
        BY <2>1, <2>2 DEF WriteAccepted, Advance
      <4>4. QED
        BY <4>2, <4>3
    <3>3. clean'
      <4>1. clean' = ((p = 0 \/ clean) /\ q < ADDR)
        BY <2>1, <2>2 DEF WriteAccepted
      <4>2. q < ADDR
        BY <2>1, Sizes
      <4>3. QED
        BY <3>1, <4>1, <4>2 DEF Has
    <3>4. ASSUME NEW i \in 0 .. q - 1 PROVE received'[i] = image[i]
      <4>1. received' = [j \in Addr |-> IF j \in p .. q - 1 THEN image[j]
                                        ELSE IF p = 0 THEN 0 ELSE received[j]]
        BY <2>1, <2>2 DEF WriteAccepted
      <4>2. i \in Addr
        BY <2>1, Sizes DEF Addr
      <4>3. i \in p .. q - 1 \/ (p # 0 /\ i \in 0 .. p - 1)
        BY <2>1
      <4>4. QED
        BY <3>1, <4>1, <4>2, <4>3 DEF Has
    <3>5. Has(q)'
      BY <1>1, <3>2, <3>3, <3>4 DEF Has
    <3>6. QED
      BY <1>1, <1>3, <3>1, <3>5
  <2>3. CASE WriteRejected(request.at)
    <3>1. ~ (p = 0) /\ nextWriteAddress # p
      BY <2>1, <2>3 DEF WriteRejected, Expected
    <3>2. Has(q)
      BY <1>2, <3>1 DEF Has
    <3>3. UNCHANGED <<flash, err, pc, nextWriteAddress, clean, received>> /\ cmd' = "WRITE_FLASH"
      BY <2>3 DEF WriteRejected, buffers, history
    <3>4. Has(q)'
      BY <1>1, <3>2, <3>3 DEF Has
    <3>5. QED
      BY <1>1, <1>3, <3>3, <3>4
  <2>4. QED
    BY <1>3, <2>2, <2>3 DEF ChildStarts
<1>4. CASE request.cmd # "WRITE_FLASH"
  <2>1. /\ request.cmd = "FINALIZE_FLASH" /\ position = ImageSize /\ request.count = 0
        /\ position \in Nat /\ ImageSize >= 1
    BY <1>1, <1>4, RequestOf, MasterNumbers
  <2>2. Has(position + request.count)
    <3>1. position # 0 /\ position + request.count = position
      BY <2>1
    <3>2. QED
      BY <1>2, <3>1
  <2>3. FinalizeFlash
    BY <1>4 DEF ChildStarts
  <2>4. /\ UNCHANGED <<flash, err, nextWriteAddress, clean, received>>
        /\ cmd' = "FINALIZE_FLASH" /\ pc' = "commit"
    BY <2>3 DEF FinalizeFlash, buffers, history
  <2>5. Has(position + request.count)'
    BY <1>1, <2>2, <2>4 DEF Has
  <2>6. QED
    BY <1>1, <2>1, <2>4, <2>5
<1>5. QED
  BY <1>3, <1>4

\* What is the same for the master and the child is the same for the invariant.
LEMMA ChildRests ==
  ASSUME UInv, UNCHANGED vars
  PROVE  /\ \A p : UNCHANGED image => Has(p)' = Has(p)
         /\ UNCHANGED image => InFlash(ReadByte)' = InFlash(ReadByte)
         /\ UNCHANGED <<pc, cmd, flash, err, reply>>
BY DEF vars, Has, InFlash, ReadByte, AppAddress

\* One case per kind of step.
LEMMA StepUInv == Faultless /\ UInv /\ [UploadNext]_uploadVars => UInv'
<1> SUFFICES ASSUME Faultless, UInv, [UploadNext]_uploadVars PROVE UInv'
  OBVIOUS
<1>1. MasterInv' /\ IInv'
  <2>1. MasterInv /\ IInv
    BY DEF UInv
  <2>2. QED
    BY <2>1, StepMaster, ChildSteps, StepIInv
<1>2. MasterInv /\ Working /\ Sync /\ err = 0 /\ Uploaded /\ MasterTypeOK
  BY DEF UInv, MasterInv
<1> SUFFICES Working' /\ Sync' /\ err' = 0 /\ Uploaded'
  BY <1>1 DEF UInv
<1>3. CASE UNCHANGED vars /\ MasterSends
  <2>1. /\ frame = "none" /\ frame' = "request"
        /\ UNCHANGED <<outcome, image, position, known, cuts, uploaded>>
    BY <1>3 DEF MasterSends
  <2>2. QED
    BY <1>2, <1>3, <2>1, ChildRests DEF Working, Sync, Uploaded
<1>4. CASE UNCHANGED vars /\ ChildReplies
  <2>1. /\ frame = "child" /\ frame' = "reply" /\ pc = "idle"
        /\ UNCHANGED <<outcome, image, position, request, known, cuts, uploaded>>
    BY <1>4 DEF ChildReplies
  <2>2. QED
    BY <1>2, <1>4, <2>1, ChildRests DEF Working, Sync, Uploaded
<1>5. CASE UNCHANGED vars /\ (FrameLost \/ MasterRepeats)
  <2>1. /\ frame \in {"request", "reply", "lost"} /\ frame' \in {"lost", "request"}
        /\ UNCHANGED <<outcome, image, position, request, known, cuts, uploaded>>
    BY <1>5 DEF FrameLost, MasterRepeats
  <2>2. QED
    BY <1>2, <1>5, <2>1, ChildRests DEF Working, Sync, Uploaded
<1>6. CASE UNCHANGED vars /\ MasterGivesUp
  <2>1. /\ frame \in {"request", "lost"} /\ frame' = "none" /\ outcome' = "failed"
        /\ UNCHANGED <<image, position, known, cuts, uploaded>>
    BY <1>6 DEF MasterGivesUp
  <2>2. QED
    BY <1>2, <1>6, <2>1, ChildRests DEF Working, Sync, Uploaded
<1>7. CASE UNCHANGED vars /\ MasterReceives
  <2>1. /\ frame = "reply" /\ frame' = "none" /\ request \in Requests
        /\ UNCHANGED <<image, known, cuts>> /\ pc = "idle"
        /\ known /\ outcome = "running"
    BY <1>2, <1>7, AtWork DEF MasterReceives, MasterInv, Working
  <2>2. Working' /\ err' = 0
    BY <1>2, <1>7, <2>1, ChildRests DEF Working
  <2>3. Sync'
    <3>1. Has(position + request.count)
      BY <1>2, <2>1, AtWork
    <3>2. CASE ~ Arrived
      BY <1>7, <3>2 DEF MasterReceives, Sync
    <3>3. CASE Arrived
      <4>1. position' = position + request.count
        BY <1>7, <3>3 DEF MasterReceives
      <4>2. Has(position)'
        BY <1>7, <2>1, <3>1, <4>1 DEF Has, vars
      <4>3. QED
        BY <2>1, <4>2 DEF Sync
    <3>4. QED
      BY <3>2, <3>3
  <2>4. Uploaded'
    <3>1. CASE outcome' = "done"
      <4>1. reply.status = "OK" /\ request.cmd = "FINALIZE_FLASH" /\ uploaded' = {image}
        BY <1>7, <3>1 DEF MasterReceives, Arrived
      <4>2. InFlash(ReadByte)
        BY <2>1, <4>1, DoneStored
      <4>3. QED
        BY <1>7, <2>1, <4>1, <4>2, ChildRests DEF Uploaded
    <3>2. CASE outcome' # "done"
      <4>1. uploaded' = uploaded
        BY <1>7, <3>2 DEF MasterReceives
      <4>2. QED
        BY <1>2, <1>7, <2>1, <3>2, <4>1, ChildRests DEF Uploaded
    <3>3. QED
      BY <3>1, <3>2
  <2>5. QED
    BY <2>2, <2>3, <2>4
<1>8. CASE ChildStarts
  <2>1. Working' /\ Sync' /\ err' = 0
    BY <1>2, <1>8, StartStep DEF Working, Sync
  <2>2. InFlash(ReadByte)' = InFlash(ReadByte)
    BY <1>8, StartStep DEF InFlash, ReadByte, AppAddress
  <2>3. QED
    BY <1>2, <1>8, <2>1, <2>2, StartStep DEF Uploaded
<1>9. CASE ChildWorks
  <2>1. /\ frame = "child" /\ UNCHANGED master /\ err' = 0
        /\ UNCHANGED <<received, nextWriteAddress, clean, cmd>>
    BY <1>9, WorkStep
  <2>2. /\ UNCHANGED <<outcome, image, position, request, frame, known, uploaded>>
    BY <2>1 DEF master
  <2>3. Working'
    BY <1>2, <2>1, <2>2 DEF Working
  <2>4. Sync'
    <3>1. Has(position + request.count)
      BY <1>2, <2>1, AtWork
    <3>2. Has(position + request.count)'
      BY <2>1, <2>2, <3>1 DEF Has
    <3>3. QED
      BY <2>1, <2>2, <3>2 DEF Sync
  <2>5. Uploaded'
    <3>1. CASE image \in uploaded
      <4>1. InFlash(ReadByte) /\ pc \notin {"row", "program"}
        BY <1>2, <3>1 DEF Uploaded
      <4>2. flash' = flash /\ pc' \notin {"row", "program"}
        BY <1>9, <2>1, <4>1, WorkStep, NothingToWrite
      <4>3. InFlash(ReadByte)'
        BY <2>2, <4>1, <4>2 DEF InFlash, ReadByte, AppAddress
      <4>4. QED
        BY <1>2, <2>2, <4>2, <4>3 DEF Uploaded
    <3>2. CASE image \notin uploaded
      BY <1>2, <2>2, <3>2 DEF Uploaded
    <3>3. QED
      BY <3>1, <3>2
  <2>6. QED
    BY <2>1, <2>3, <2>4, <2>5
<1>10. CASE NextUpload
  <2>1. /\ frame = "none" /\ frame' = "none" /\ position' = 0 /\ outcome' = "running"
        /\ uploaded' = uploaded \cap {image'} /\ pc = "idle"
    BY <1>2, <1>10 DEF NextUpload, MasterStarts, MasterInv, Working
  <2>2. pc' = "idle" /\ err' = 0 /\ flash' = flash
    BY <1>2, <1>10, <2>1 DEF NextUpload, Reset, vars
  <2>3. image' \in uploaded' => InFlash(ReadByte)'
    <3>1. SUFFICES ASSUME image' \in uploaded' PROVE InFlash(ReadByte)'
      OBVIOUS
    <3>2. image' = image /\ image \in uploaded
      BY <1>2, <2>1, <3>1 DEF Uploaded
    <3>3. QED
      BY <1>2, <2>2, <3>2 DEF Uploaded, InFlash, ReadByte, AppAddress
  <2>4. QED
    BY <2>1, <2>2, <2>3 DEF Working, Sync, Uploaded
<1>11. CASE PowerCut
  <2>1. /\ known' = FALSE /\ frame' \in {"none", "lost"}
        /\ UNCHANGED <<outcome, image, position, request, uploaded>>
    BY <1>11 DEF PowerCut, ChildRestarts
  <2>2. pc' = "idle" /\ err' = 0 /\ flash' = flash
    BY <1>11 DEF PowerCut, Reset
  <2>3. InFlash(ReadByte)' = InFlash(ReadByte)
    BY <2>1, <2>2 DEF InFlash, ReadByte, AppAddress
  <2>4. QED
    BY <1>2, <2>1, <2>2, <2>3 DEF Working, Sync, Uploaded
<1>12. CASE UNCHANGED uploadVars
  <2>1. UNCHANGED vars /\ UNCHANGED <<outcome, image, position, request, frame, known, uploaded>>
    BY <1>12 DEF uploadVars, master
  <2>2. QED
    BY <1>2, <2>1, ChildRests DEF Working, Sync, Uploaded
<1>13. QED
  BY <1>3, <1>4, <1>5, <1>6, <1>7, <1>8, <1>9, <1>10, <1>11, <1>12, Zenon
     DEF UploadNext, MasterStep

\* An upload starts with nothing sent and nothing uploaded.
LEMMA InitUInv == UploadInit => UInv
<1> SUFFICES ASSUME UploadInit PROVE UInv
  OBVIOUS
<1>1. MasterInv /\ IInv
  BY InitMaster, InitIInv DEF UploadInit
<1>2. /\ frame = "none" /\ outcome = "running" /\ position = 0 /\ uploaded = {}
      /\ pc = "idle" /\ err = 0
  BY DEF UploadInit, MasterInit, Init, RamInit
<1>3. QED
  BY <1>1, <1>2 DEF UInv, Working, Sync, Uploaded

-----------------------------------------------------------------------------
(***************************************************************************)
(* The theorems.                                                           *)
(***************************************************************************)
\* When the master believes that its upload is done, the image is in flash,
\* whichever frames were lost, repeated or answered twice, and wherever power
\* was cut: INVALID_ARGUMENTS does mean that the request arrived, as long as
\* flash does not fail and the image fits.
THEOREM DoneMeansStoredCorrect ==
  ASSUME Faultless
  PROVE  UploadSpec => []DoneMeansStored
<1>1. UInv /\ [UploadNext]_uploadVars => UInv'
  BY StepUInv
<1>2. UInv => DoneMeansStored
  BY DEF UInv, Uploaded, DoneMeansStored
<1>3. QED
  BY InitUInv, <1>1, <1>2, PTL DEF UploadSpec

\* An image that was uploaded can be sent again, with any losses and cuts, and
\* no step of it changes flash.
THEOREM NoWearCorrect ==
  ASSUME Faultless
  PROVE  UploadSpec => NoWear
<1>1. UInv /\ [UploadNext]_uploadVars => UInv'
  BY StepUInv
<1>2. UInv /\ [UploadNext]_uploadVars => [(image \in uploaded) => (UNCHANGED flash)]_uploadVars
  <2> SUFFICES ASSUME UInv, UploadNext, image \in uploaded PROVE flash' = flash
    BY DEF uploadVars, vars
  <2>1. pc \notin {"row", "program"}
    BY DEF UInv, Uploaded
  <2>2. CASE ChildStarts
    BY <2>2, StartStep
  <2>3. CASE ChildWorks
    BY <2>1, <2>3, WorkStep
  <2>4. CASE NextUpload \/ PowerCut \/ (MasterStep /\ UNCHANGED vars)
    BY <2>4 DEF NextUpload, PowerCut, Reset, vars
  <2>5. QED
    BY <2>2, <2>3, <2>4 DEF UploadNext
<1>3. QED
  BY InitUInv, <1>1, <1>2, PTL DEF UploadSpec, NoWear
================================================================================
