------------------------------ MODULE AttinyFlash ------------------------------
(***************************************************************************)
(* The bootloader's flash handling in the ATtiny build: WriteFlash with    *)
(* the writePage of attiny/SelfProgram.cpp.  The bootloader lives at the   *)
(* end of flash and owns the reset vector at 0.  The reset vector of the   *)
(* application is moved to the trampoline, the last word below the         *)
(* bootloader, as a jump relative to that place.  Programming can only     *)
(* clear bits, there are no error bits to look at, and page 0, the         *)
(* trampoline and the last page of the application are written in one      *)
(* sequence that a power loss can cut.                                     *)
(***************************************************************************)
EXTENDS WriteFlash

CONSTANTS
  FLASH_SIZE,   \* bytes of flash; higher address bits are ignored on reads
  BYTE,         \* 2^8: number of values of a byte
  JUMP,         \* 2^12: number of values of a relative jump
  OPCODE,       \* the bits above the jump that rjmp and rcall share (0xC000 >> 13)
  Burn,         \* Burn[<<old, new>>]: old & new, what programming leaves
  BootVector    \* the bytes of the reset vector that enters the bootloader

trampolineStart == ApplicationSize

Cells == 0 .. FLASH_SIZE - 1

ASSUME AttinyAssumption ==
  /\ FLASH_APP_OFFSET = 0
  /\ FLASH_SIZE \in Nat \ {0}
  /\ ADDR % FLASH_SIZE = 0
  /\ FLASH_ERASE_SIZE % 2 = 0
  /\ FLASH_WRITE_SIZE % 2 = 0
  /\ FLASH_WRITE_SIZE < FLASH_ERASE_SIZE
  /\ trampolineStart >= FLASH_ERASE_SIZE
  /\ (trampolineStart + 2) % FLASH_ERASE_SIZE = 0
  /\ trampolineStart + 2 < FLASH_SIZE

ASSUME WordAssumption ==
  /\ BYTE \in Nat \ {0} /\ Byte = 0 .. BYTE - 1
  /\ JUMP \in Nat \ {0} /\ (BYTE * BYTE) % (2 * JUMP) = 0
  /\ (2 * JUMP) % FLASH_SIZE = 0
  /\ OPCODE \in Nat \ {0}
  /\ BootVector \in Byte \X Byte

ASSUME BurnAssumption ==
  /\ Burn \in [Byte \X Byte -> Byte]
  /\ \A b \in Byte : /\ Burn[<<ERASED, b>>] = b
                     /\ Burn[<<b, ERASED>>] = b
                     /\ Burn[<<b, b>>] = b

VARIABLES
  finalizes,   \* history: FINALIZE_FLASH commands in this upload, capped at 2
  fresh,       \* history: this upload has erased the page of the trampoline
  cut          \* history: a reset hit between erase and programming of row 0

attinyHistory == <<finalizes, fresh, cut>>
attinyVars == <<vars, attinyHistory>>

ResetVector == <<flash[0], flash[1]>>

(***************************************************************************)
(* Relative jumps.                                                         *)
(***************************************************************************)
LowByte(w) == w % BYTE
HighByte(w) == w \div BYTE
Word(lo, hi) == lo + BYTE * hi

IsRelativeJump(w) == w \div (2 * JUMP) = OPCODE

\* Variant with a bug: the offset is taken off.
offsetRelativeJumpBack(w, off) ==
  IF IsRelativeJump(w)
    THEN (w - (w % JUMP)) + (((w % JUMP) - (off \div 2)) % JUMP)
    ELSE 0

\* off is in bytes, the jump in words.
offsetRelativeJump(w, off) ==
  IF IsRelativeJump(w)
    THEN (w - (w % JUMP)) + (((w % JUMP) + (off \div 2)) % JUMP)
    ELSE 0

(***************************************************************************)
(* readByte: the first two bytes are read back from the trampoline.        *)
(***************************************************************************)
TrampolineWord == Word(flash[trampolineStart], flash[trampolineStart + 1])

ReadByte ==
  LET vector == offsetRelativeJump(TrampolineWord, trampolineStart)
  IN  [a \in Addr |-> IF a = 0 THEN LowByte(vector)
                      ELSE IF a = 1 THEN HighByte(vector)
                      ELSE flash[a % FLASH_SIZE]]

(***************************************************************************)
(* The hardware: erase the page and program the words that hold address a. *)
(***************************************************************************)
ErasedPage(a) ==
  LET first == PageStart(a % FLASH_SIZE)
  IN  [c \in Cells |-> IF c \in first .. first + FLASH_ERASE_SIZE - 1 THEN ERASED
                       ELSE flash[c]]

\* The values, a function on 0 .. n - 1, programmed at address a.
Burnt(a, values) ==
  LET first == a % FLASH_SIZE
  IN  [c \in Cells |-> IF c - first \in DOMAIN values
                         THEN Burn[<<flash[c], values[c - first]>>]
                         ELSE flash[c]]

(***************************************************************************)
(* writePage, before it touches the row itself.                            *)
(***************************************************************************)
AtRow == pc = "row" /\ len > 0

\* The instruction to go to the trampoline, or 0.
Relocated ==
  offsetRelativeJump(Word(writeBuffer[offset], writeBuffer[offset + 1]),
                     - trampolineStart)

RejectVector ==
  /\ AtRow /\ RowAddress = 0
  /\ Relocated = 0
  /\ RowFailed(2)
  /\ UNCHANGED <<flash, buffers, eraseCount, cmd, reply, history, attinyHistory>>

EraseTrampoline ==
  /\ AtRow /\ RowAddress = 0
  /\ Relocated # 0
  /\ CountErase
  /\ flash' = ErasedPage(trampolineStart)
  /\ fresh' = TRUE
  /\ pc' = "trampoline"
  /\ UNCHANGED <<buffers, cmd, commitV, err, reply, history, finalizes, cut>>

\* The buffer with the reset vector flash has now; variant with a bug: left alone.
BufferAsSent(buf) == buf

WithResetVector(buf) == [buf EXCEPT ![offset] = flash[0], ![offset + 1] = flash[1]]

\* Program the trampoline, and put the current reset vector in the buffer.
ProgramTrampoline ==
  /\ pc = "trampoline"
  /\ flash' = Burnt(trampolineStart, [i \in {0, 1} |-> IF i = 0 THEN LowByte(Relocated)
                                                        ELSE HighByte(Relocated)])
  /\ writeBuffer' = WithResetVector(writeBuffer)
  /\ pc' = "vector"
  /\ UNCHANGED <<nextWriteAddress, address, eraseCount, cmd, commitV, err, reply,
                 history, attinyHistory>>

(***************************************************************************)
(* writePage, the row itself.  address + len is computed in 16 bits.       *)
(***************************************************************************)
RowReady == pc = "vector" \/ (AtRow /\ RowAddress # 0)

\* Variant with a bug: the bound is the end of flash.
RowErrorPhysical(a, n) ==
  IF n = 0 \/ a % FLASH_WRITE_SIZE # 0 \/ n > FLASH_WRITE_SIZE THEN 1
  ELSE IF (a + n) % ADDR > FLASH_SIZE THEN 3
  ELSE 0

RowError(a, n) ==
  IF n = 0 \/ a % FLASH_WRITE_SIZE # 0 \/ n > FLASH_WRITE_SIZE THEN 1
  ELSE IF (a + n) % ADDR > ApplicationSize THEN 3
  ELSE 0

RejectRow ==
  /\ RowReady
  /\ RowError(RowAddress, RowLen) # 0
  /\ RowFailed(RowError(RowAddress, RowLen))
  /\ UNCHANGED <<flash, buffers, eraseCount, cmd, reply, history, attinyHistory>>

\* Variant with a bug: the page of the trampoline is no exception.
EraseEveryPage(a) == a % FLASH_ERASE_SIZE = 0

EraseNeeded(a) ==
  /\ a % FLASH_ERASE_SIZE = 0
  /\ a \div FLASH_ERASE_SIZE # trampolineStart \div FLASH_ERASE_SIZE

ErasePage ==
  /\ RowReady
  /\ RowError(RowAddress, RowLen) = 0
  /\ EraseNeeded(RowAddress)
  /\ CountErase
  /\ flash' = ErasedPage(RowAddress)
  /\ pc' = "program"
  /\ UNCHANGED <<buffers, cmd, commitV, err, reply, history, attinyHistory>>

\* Whole words are filled, so an odd row takes one more byte of the buffer;
\* variant with a bug: the odd byte is left out.
WordBytesDown(n) == n - (n % 2)

WordBytes(n) == n + (n % 2)

ProgramRow ==
  /\ \/ pc = "program"
     \/ RowReady /\ RowError(RowAddress, RowLen) = 0 /\ ~ EraseNeeded(RowAddress)
  /\ flash' = Burnt(RowAddress, [i \in 0 .. WordBytes(RowLen) - 1 |-> writeBuffer[offset + i]])
  /\ RowDone
  /\ UNCHANGED <<buffers, eraseCount, cmd, reply, history, attinyHistory>>

-----------------------------------------------------------------------------
Init ==
  /\ flash \in [Cells -> Byte]
  /\ ResetVector = BootVector
  /\ RamInit
  /\ finalizes = 0
  /\ fresh = FALSE
  /\ cut = FALSE

Restart ==
  /\ Reset
  /\ finalizes' = 0
  /\ fresh' = FALSE
  /\ cut' = (cut \/ (pc = "program" /\ RowAddress = 0))

Accepted(a, n, img) ==
  /\ WriteAccepted(a, n, img)
  /\ finalizes' = IF a = 0 THEN 0 ELSE finalizes
  /\ fresh' = (fresh /\ a # 0)
  /\ UNCHANGED cut

Upload == \E a \in Addr, n \in 0 .. MaxData, img \in Images : Accepted(a, n, img)

Finalize ==
  /\ FinalizeFlash
  /\ finalizes' = IF finalizes < 2 THEN finalizes + 1 ELSE 2
  /\ UNCHANGED <<fresh, cut>>

Next ==
  \/ Restart \/ Upload \/ Finalize
  \/ (LocalStep(ReadByte) \/ \E a \in Addr : WriteRejected(a))
       /\ UNCHANGED attinyHistory
  \/ RejectVector \/ EraseTrampoline \/ ProgramTrampoline
  \/ RejectRow \/ ErasePage \/ ProgramRow

Spec == Init /\ [][Next]_attinyVars

-----------------------------------------------------------------------------
\* The type invariant.
TypeOK ==
  /\ TypeInvariant
  /\ flash \in [Cells -> Byte]
  /\ finalizes \in 0 .. 2
  /\ fresh \in BOOLEAN
  /\ cut \in BOOLEAN

InTrampolinePage(i) ==
  i \div FLASH_ERASE_SIZE = trampolineStart \div FLASH_ERASE_SIZE

\* What FINALIZE_FLASH guarantees (PROTOCOL.md), for the last page, which no
\* code erases when it is written: it is stored as sent when the upload changed page 0 and was finalized once, at its end.
LastPageDurable ==
  UploadConfirmed /\ finalizes = 1 /\ fresh =>
    \A i \in 2 .. nextWriteAddress - 1 : InTrampolinePage(i) => Stored(ReadByte, i)

\* The same for the reset vector of the application: it reads back as sent,
\* although it is stored elsewhere and relocated, when the upload is finalized
\* once.
VectorDurable ==
  UploadConfirmed /\ finalizes = 1 =>
    \A i \in {0, 1} : i < nextWriteAddress => Stored(ReadByte, i)

\* Where an instruction at address a jumps to; flash addresses wrap.
Target(a, w) == (a + 2 + 2 * (w % JUMP)) % FLASH_SIZE

\* startApplication is the instruction in the trampoline.  After an upload
\* that was finalized once it goes where the reset vector sent would have gone
\* from address 0: both relocations in one direction, or in a wrong unit,
\* would read back right.  (A reset vector of 0 is no jump: it is taken to be
\* in flash already when the trampoline holds no jump either.)
EntersApplication ==
  UploadConfirmed /\ finalizes = 1 /\ nextWriteAddress >= 2
      /\ IsRelativeJump(Word(received[0], received[1])) =>
    Target(trampolineStart, TrampolineWord) = Target(0, Word(received[0], received[1]))

\* main.cpp: the bootloader protects the reset vector.  It enters the
\* bootloader at every moment except between the erase of page 0 and the
\* programming of its first row, unless a reset hit exactly there.
ResetVectorKept ==
  ~ cut => ResetVector = BootVector \/ (pc = "program" /\ RowAddress = 0)

\* No step changes a cell of the bootloader, although the bound of writePage
\* is checked in 16 bits and uploads may run past the end of the address space.
BootloaderKept ==
  [][\A c \in trampolineStart + 2 .. FLASH_SIZE - 1 : flash'[c] = flash[c]]_attinyVars

\* While a page is rewritten, up to the answer when that failed.
Rewriting ==
  \/ pc \in {"row", "trampoline", "vector", "program"}
  \/ pc = "return" /\ err # 0

Promise == INSTANCE UploadPromise WITH
  PageSize <- FLASH_ERASE_SIZE, Size <- ApplicationSize,
  Exempt <- {0, 1} \cup { i \in Addr : InTrampolinePage(i) \/ i >= FLASH_SIZE },
  stored <- ReadByte,
  sent <- received,
  next <- nextWriteAddress,
  whole <- clean,
  doing <- IF pc = "idle" THEN "none" ELSE cmd,
  open <- IF Rewriting THEN base .. base + FLASH_ERASE_SIZE - 1 ELSE {},
  answer <- reply.status

\* The same promise as of the STM32, for all but the reset vector and the page
\* of the trampoline, which change when page 0 does, and the addresses behind
\* the end of flash, which read the same cells once more.
ImplementsPromise == Promise!Spec

\* What documentation says and the code does not keep.

\* PROTOCOL.md: writing consecutively from 0 guarantees that the bytes sent
\* are written.  Said of every byte behind the reset vector.
EveryByteDurable ==
  UploadConfirmed /\ finalizes = 1 =>
    \A i \in 2 .. nextWriteAddress - 1 : Stored(ReadByte, i)
=============================================================================
