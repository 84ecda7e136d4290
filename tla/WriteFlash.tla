------------------------------ MODULE WriteFlash ------------------------------
(***************************************************************************)
(* The part of bootloader.cpp that every build shares: WRITE_FLASH and     *)
(* FINALIZE_FLASH, the buffer of one erase page between them, and the      *)
(* decision to touch flash at all.  How one row gets into flash            *)
(* (SelfProgram::writePage) is the business of the module that extends     *)
(* this one: Stm32Flash or AttinyFlash.                                    *)
(*                                                                         *)
(* One action is one loop iteration or one call between two points where   *)
(* the power may fail; pc says where in the call chain the bootloader is:  *)
(*   idle    waiting for the next command                                  *)
(*   copy    in the while loop of handleWriteFlash                         *)
(*   commit  entered commitToFlash, nothing compared yet                   *)
(*   row     at the head of the loop of commitToFlash                      *)
(*   trampoline, vector                                                    *)
(*           inside writePage for page 0, on the ATtiny only               *)
(*   program inside writePage, erase decided or done, row not programmed   *)
(*   return  commitToFlash returns err to its caller (cmd)                 *)
(***************************************************************************)
EXTENDS Integers

CONSTANTS
  FLASH_ERASE_SIZE,  \* bytes per erase page, the size of writeBuffer
  FLASH_WRITE_SIZE,  \* bytes per row writePage programs
  FLASH_APP_OFFSET,  \* where the application starts in flash
  ApplicationSize,   \* SelfProgram::applicationSize
  ADDR,              \* 2^16 in the code: uint16_t addresses count modulo ADDR
  Byte,              \* what a byte of flash or RAM can hold
  ERASED,            \* the value of an erased byte (0xff)
  Images,            \* payloads: a WRITE_FLASH at address a carries img[a], img[a+1]...
  MaxData,           \* most payload bytes of one WRITE_FLASH
  MaxErase           \* where eraseCount saturates (0xff)

Addr == 0 .. ADDR - 1

ASSUME SizeAssumption ==
  /\ FLASH_WRITE_SIZE \in Nat \ {0}
  /\ FLASH_ERASE_SIZE \in Nat \ {0}
  /\ FLASH_ERASE_SIZE % FLASH_WRITE_SIZE = 0
  /\ ADDR \in Nat \ {0}
  /\ ADDR % FLASH_ERASE_SIZE = 0
  /\ FLASH_APP_OFFSET \in Nat
  /\ FLASH_APP_OFFSET % FLASH_ERASE_SIZE = 0
  /\ ApplicationSize \in Nat
  /\ FLASH_APP_OFFSET + ApplicationSize <= ADDR

ASSUME ByteAssumption == {0, ERASED} \subseteq Byte

ASSUME InputAssumption ==
  /\ Images \subseteq [Addr -> Byte]
  /\ MaxData \in 0 .. ADDR - 1
  /\ MaxErase \in Nat \ {0}

VARIABLES
  flash,             \* the cells of flash, as the programmer left them
  writeBuffer,
  nextWriteAddress,
  eraseCount,        \* SelfProgram::eraseCount
  pc,                \* see above
  cmd,               \* the command being served, the caller of commitToFlash
  address,           \* handleWriteFlash: the address the next byte goes to; 0 when idle
  base,              \* commitToFlash: its address argument
  len,               \* commitToFlash: bytes still to do
  offset,            \* commitToFlash: bytes done
  err,               \* commitToFlash: its return value
  reply,             \* the last reply
  received,          \* history: the payload bytes of this upload, by address;
                     \* *data in the code is received[address]
  clean              \* history: the upload restarted at address 0, every
                     \* WRITE_FLASH since was answered OK and none wrapped

buffers  == <<writeBuffer, nextWriteAddress, address>>
commitV  == <<base, len, offset>>
history  == <<received, clean>>
vars == <<flash, writeBuffer, nextWriteAddress, eraseCount, pc, cmd, address,
          base, len, offset, err, reply, received, clean>>

Status == {"none", "OK", "INVALID_ARGUMENTS", "COMMAND_FAILED"}
Reply(s, v) == [status |-> s, value |-> v]

BufferIndex(a) == a % FLASH_ERASE_SIZE
PageStart(a) == a - BufferIndex(a)

(***************************************************************************)
(* Power-on: .bss is cleared, flash is whatever it was.                    *)
(***************************************************************************)
RamInit ==
  /\ writeBuffer = [i \in 0 .. FLASH_ERASE_SIZE - 1 |-> 0]
  /\ nextWriteAddress = 0
  /\ eraseCount = 0
  /\ pc = "idle"
  /\ cmd = "none"
  /\ address = 0
  /\ base = 0 /\ len = 0 /\ offset = 0 /\ err = 0
  /\ reply = Reply("none", 0)
  /\ received = [a \in Addr |-> 0]
  /\ clean = TRUE

(***************************************************************************)
(* The MCU restarts between any two steps: power loss, the watchdog or a   *)
(* fault handler, or START_APPLICATION and a later reset.                  *)
(***************************************************************************)
Reset ==
  /\ writeBuffer' = [i \in 0 .. FLASH_ERASE_SIZE - 1 |-> 0]
  /\ nextWriteAddress' = 0
  /\ eraseCount' = 0
  /\ pc' = "idle"
  /\ cmd' = "none"
  /\ address' = 0
  /\ base' = 0 /\ len' = 0 /\ offset' = 0 /\ err' = 0
  /\ reply' = Reply("none", 0)
  /\ received' = [a \in Addr |-> 0]
  /\ clean' = TRUE
  /\ UNCHANGED flash

(***************************************************************************)
(* handleWriteFlash.  A write at 0 restarts the upload; any other address  *)
(* must be the next one.  nextWriteAddress is advanced before anything is  *)
(* stored, modulo 2^16.                                                    *)
(***************************************************************************)
\* Variants with a bug: the sum is not cut to 16 bits; the last byte is not
\* counted; any address is taken.
AdvanceUncut(a, n) == a + n

AdvanceShort(a, n) == IF n = 0 THEN a ELSE (a + n - 1) % ADDR

AnyAddress(a) == a \in Addr

Expected(a) == a = 0 \/ a = nextWriteAddress

Advance(a, n) == (a + n) % ADDR

WriteRejected(a) ==
  /\ pc = "idle"
  /\ ~ Expected(a)
  /\ cmd' = "WRITE_FLASH"
  /\ reply' = Reply("INVALID_ARGUMENTS", 0)
  /\ UNCHANGED <<flash, buffers, eraseCount, pc, commitV, err, history>>

WriteAccepted(a, n, img) ==
  /\ pc = "idle"
  /\ Expected(a)
  /\ cmd' = "WRITE_FLASH"
  /\ nextWriteAddress' = Advance(a, n)
  /\ address' = a
  /\ pc' = "copy"
  /\ received' = [i \in Addr |-> IF i \in a .. a + n - 1 THEN img[i]
                                 ELSE IF a = 0 THEN 0 ELSE received[i]]
  /\ clean' = ((a = 0 \/ clean) /\ a + n < ADDR)
  /\ UNCHANGED <<flash, writeBuffer, eraseCount, commitV, err, reply>>

\* One iteration of the byte loop, up to the call of commitToFlash.
CopyByte ==
  /\ pc = "copy"
  /\ address < nextWriteAddress
  /\ writeBuffer' = [writeBuffer EXCEPT ![BufferIndex(address)] = received[address]]
  /\ address' = address + 1
  /\ IF BufferIndex(address + 1) = 0
       THEN /\ pc' = "commit"
            /\ base' = address + 1 - FLASH_ERASE_SIZE
            /\ len' = FLASH_ERASE_SIZE
            /\ offset' = 0
       ELSE UNCHANGED <<pc, commitV>>
  /\ UNCHANGED <<flash, nextWriteAddress, eraseCount, cmd, err, reply, history>>

CopyDone ==
  /\ pc = "copy"
  /\ address >= nextWriteAddress
  /\ pc' = "idle"
  /\ reply' = Reply("OK", 0)
  /\ address' = 0
  /\ UNCHANGED <<flash, writeBuffer, nextWriteAddress, eraseCount, cmd, commitV, err, history>>

(***************************************************************************)
(* FINALIZE_FLASH: commit what the buffer holds of the last page.          *)
(***************************************************************************)
FinalizeFlash ==
  /\ pc = "idle"
  /\ cmd' = "FINALIZE_FLASH"
  /\ pc' = "commit"
  /\ base' = PageStart(nextWriteAddress)
  /\ len' = nextWriteAddress - PageStart(nextWriteAddress)
  /\ offset' = 0
  /\ UNCHANGED <<flash, buffers, eraseCount, err, reply, history>>

(***************************************************************************)
(* commitToFlash, for readByte, the function SelfProgram::readByte         *)
(* computes on the flash as it is.                                         *)
(***************************************************************************)
AppAddress(i) == (FLASH_APP_OFFSET + i) % ADDR

\* Variants with a bug: only the first byte is compared; nothing is.
EqualFirstByte(readByte) ==
  len > 0 => writeBuffer[0] = readByte[AppAddress(base)]

NeverEqual(readByte) == len = 0

EqualToFlash(readByte) ==
  \A i \in 0 .. len - 1 : writeBuffer[i] = readByte[AppAddress(base + i)]

CommitSkip(readByte) ==
  /\ pc = "commit"
  /\ EqualToFlash(readByte)
  /\ pc' = "return"
  /\ err' = 0
  /\ UNCHANGED <<flash, buffers, eraseCount, cmd, commitV, reply, history>>

CommitStart(readByte) ==
  /\ pc = "commit"
  /\ ~ EqualToFlash(readByte)
  /\ pc' = "row"
  /\ UNCHANGED <<flash, buffers, eraseCount, cmd, commitV, err, reply, history>>

\* The arguments of writePage for the row at hand.
RowAddress == AppAddress(base + offset)

\* Variant with a bug: the last row is taken to be whole.
RowLenWhole == FLASH_WRITE_SIZE

RowLen == IF len < FLASH_WRITE_SIZE THEN len ELSE FLASH_WRITE_SIZE

\* What commitToFlash does when writePage returns 0 (the caller sets flash).
RowDone ==
  /\ len' = len - RowLen
  /\ offset' = offset + RowLen
  /\ pc' = "row"
  /\ UNCHANGED <<base, err>>

\* Variant with a bug: the error is dropped.
RowFailureDropped(e) ==
  /\ pc' = "return"
  /\ err' = 0 * e
  /\ UNCHANGED commitV

\* What it does when writePage returns an error.
RowFailed(e) ==
  /\ pc' = "return"
  /\ err' = e
  /\ UNCHANGED commitV

CommitDone ==
  /\ pc = "row"
  /\ len = 0
  /\ pc' = "return"
  /\ err' = 0
  /\ UNCHANGED <<flash, buffers, eraseCount, cmd, commitV, reply, history>>

(***************************************************************************)
(* Back in the caller; the locals of commitToFlash are gone.               *)
(***************************************************************************)
LocalsGone == base' = 0 /\ len' = 0 /\ offset' = 0 /\ err' = 0

CommitOk ==
  /\ pc = "return" /\ err = 0
  /\ IF cmd = "WRITE_FLASH"
       THEN /\ pc' = "copy"
            /\ UNCHANGED <<eraseCount, reply>>
       ELSE /\ pc' = "idle"
            /\ reply' = Reply("OK", eraseCount)
            /\ eraseCount' = 0
  /\ LocalsGone
  /\ UNCHANGED <<flash, buffers, cmd, history>>

CommitFailed ==
  /\ pc = "return" /\ err # 0
  /\ pc' = "idle"
  /\ reply' = Reply("COMMAND_FAILED", err)
  /\ clean' = (clean /\ cmd # "WRITE_FLASH")
  /\ address' = 0
  /\ LocalsGone
  /\ UNCHANGED <<flash, writeBuffer, nextWriteAddress, eraseCount, cmd, received>>

\* ++eraseCount, saturating.
CountErase == eraseCount' = IF eraseCount < MaxErase THEN eraseCount + 1 ELSE eraseCount

\* A WRITE_FLASH that starts an upload, and one that goes on with it.
StartUpload == \E n \in 0 .. MaxData, img \in Images : WriteAccepted(0, n, img)

ContinueUpload ==
  \E a \in Addr \ {0}, n \in 0 .. MaxData, img \in Images : WriteAccepted(a, n, img)

\* The steps that the code takes by itself and that do not touch flash.
LocalStep(readByte) ==
  \/ CopyByte \/ CopyDone
  \/ CommitSkip(readByte) \/ CommitStart(readByte) \/ CommitDone
  \/ CommitOk \/ CommitFailed

-----------------------------------------------------------------------------
(***************************************************************************)
(* Properties of every build, for the readByte of that build.              *)
(***************************************************************************)
TypeInvariant ==
  /\ writeBuffer \in [0 .. FLASH_ERASE_SIZE - 1 -> Byte]
  /\ nextWriteAddress \in Addr
  /\ eraseCount \in 0 .. MaxErase
  /\ pc \in {"idle", "copy", "commit", "row", "trampoline", "vector", "program", "return"}
  /\ cmd \in {"none", "WRITE_FLASH", "FINALIZE_FLASH"}
  /\ address \in Addr
  /\ base \in Addr
  /\ len \in 0 .. FLASH_ERASE_SIZE
  /\ offset \in 0 .. FLASH_ERASE_SIZE
  /\ err \in Nat
  /\ reply \in [status : Status, value : Nat]
  /\ received \in [Addr -> Byte]
  /\ clean \in BOOLEAN

\* Byte i of the upload reads back from flash as it was received.
Stored(readByte, i) == readByte[AppAddress(i)] = received[i]

\* FINALIZE_FLASH has just been answered OK in an upload without errors.
UploadConfirmed ==
  /\ pc = "idle" /\ cmd = "FINALIZE_FLASH" /\ reply.status = "OK"
  /\ clean
=============================================================================
