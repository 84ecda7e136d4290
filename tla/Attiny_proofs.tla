---------------------------- MODULE Attiny_proofs ----------------------------
(***************************************************************************)
(* Proofs about AttinyFlash and AttinyUpload, for every page size, flash   *)
(* size, application size, set of bytes, payload, opcode and image the     *)
(* assumptions allow.                                                      *)
(***************************************************************************)
EXTENDS AttinyUpload, WriteFlash_proofs, TLAPS

-----------------------------------------------------------------------------
(***************************************************************************)
(* Sizes: the page of the trampoline is the last one of the application.   *)
(***************************************************************************)
LastPage == PageStart(trampolineStart)

\* The sizes are numbers; the last page ends with the trampoline, where the
\* bootloader begins, and is not page 0.
LEMMA LastPageLemma ==
  /\ FLASH_SIZE \in Nat \ {0} /\ FLASH_SIZE <= ADDR
  /\ trampolineStart \in Nat /\ trampolineStart % 2 = 0
  /\ LastPage \in Nat /\ LastPage % FLASH_ERASE_SIZE = 0
  /\ LastPage + FLASH_ERASE_SIZE = trampolineStart + 2
  /\ trampolineStart + 2 < FLASH_SIZE
  /\ LastPage >= FLASH_ERASE_SIZE
  /\ FLASH_WRITE_SIZE >= 2 /\ FLASH_WRITE_SIZE < FLASH_ERASE_SIZE
  /\ FLASH_APP_OFFSET = 0
<1>1. /\ FLASH_SIZE \in Nat \ {0} /\ FLASH_APP_OFFSET = 0
      /\ trampolineStart \in Nat /\ trampolineStart + 2 < FLASH_SIZE
      /\ trampolineStart >= FLASH_ERASE_SIZE /\ FLASH_WRITE_SIZE < FLASH_ERASE_SIZE
  BY AttinyAssumption, Sizes DEF trampolineStart
<1>2. FLASH_SIZE <= ADDR
  <2>1. SUFFICES ASSUME ADDR < FLASH_SIZE PROVE FALSE
    BY <1>1, Sizes
  <2>2. ADDR \in 0 .. FLASH_SIZE - 1
    BY <1>1, <2>1, Sizes
  <2>3. ADDR % FLASH_SIZE = ADDR
    BY <1>1, <2>2, ModSmall
  <2>4. QED
    BY <2>3, AttinyAssumption, Sizes
<1>3. FLASH_WRITE_SIZE >= 2 /\ FLASH_ERASE_SIZE % 2 = 0 /\ FLASH_WRITE_SIZE % 2 = 0
  <2>1. 1 % 2 = 1
    BY SMT
  <2>2. QED
    BY <2>1, AttinyAssumption, Sizes
<1>4. (trampolineStart + 2) % FLASH_ERASE_SIZE = 0 /\ trampolineStart + 2 \in Nat
  BY <1>1, AttinyAssumption DEF trampolineStart
<1>5. (trampolineStart + 2) % 2 = 0
  <2>1. 2 \in Nat \ {0}
    OBVIOUS
  <2>2. QED
    BY <1>3, <1>4, <2>1, Sizes, ModTrans, Zenon
<1>6. trampolineStart % 2 = 0
  BY <1>1, <1>5, SMT
<1>7. /\ LastPage \in Nat /\ LastPage % FLASH_ERASE_SIZE = 0 /\ LastPage <= trampolineStart
      /\ trampolineStart < LastPage + FLASH_ERASE_SIZE
  BY <1>1, PageLemma, Zenon DEF LastPage
<1>8. LastPage + FLASH_ERASE_SIZE <= trampolineStart + 2
  <2>1. LastPage < trampolineStart + 2
    BY <1>1, <1>7
  <2>2. QED
    BY <1>4, <1>7, <2>1, Sizes, ModGap, Zenon
<1>9. LastPage + FLASH_ERASE_SIZE = trampolineStart + 2
  <2>1. SUFFICES ASSUME LastPage + FLASH_ERASE_SIZE < trampolineStart + 2 PROVE FALSE
    BY <1>1, <1>7, <1>8, Sizes
  <2>2. LastPage + FLASH_ERASE_SIZE \in Nat /\ (LastPage + FLASH_ERASE_SIZE) % FLASH_ERASE_SIZE = 0
    <3>1. FLASH_ERASE_SIZE % FLASH_ERASE_SIZE = 0 /\ FLASH_ERASE_SIZE \in Nat
      BY Sizes, ModOnce
    <3>2. (LastPage + FLASH_ERASE_SIZE) % FLASH_ERASE_SIZE = 0
      BY <1>7, <3>1, Sizes, ModAdd, Zenon
    <3>3. QED
      BY <1>7, <3>1, <3>2
  <2>3. (LastPage + FLASH_ERASE_SIZE) + FLASH_ERASE_SIZE <= trampolineStart + 2
    BY <1>4, <2>1, <2>2, Sizes, ModGap, Zenon
  <2>4. FLASH_ERASE_SIZE > 2
    BY <1>1, <1>3, Sizes
  <2>5. QED
    BY <1>1, <1>7, <2>3, <2>4, Sizes
<1>10. LastPage >= FLASH_ERASE_SIZE
  <2>1. SUFFICES ASSUME LastPage < FLASH_ERASE_SIZE PROVE FALSE
    BY <1>7, Sizes
  <2>2. LastPage \in 0 .. FLASH_ERASE_SIZE - 1
    BY <1>7, <2>1, Sizes
  <2>3. LastPage = 0
    BY <1>7, <2>2, Sizes, ModSmall
  <2>4. trampolineStart = FLASH_ERASE_SIZE - 2
    BY <1>1, <1>9, <2>3, Sizes
  <2>5. QED
    BY <1>1, <2>4, Sizes
<1>11. QED
  BY <1>1, <1>2, <1>3, <1>6, <1>7, <1>9, <1>10

\* The addresses of that page, as the code tells them.
LEMMA TrampolinePage ==
  ASSUME NEW a \in Nat
  PROVE  /\ InTrampolinePage(a) <=> LastPage <= a /\ a < LastPage + FLASH_ERASE_SIZE
         /\ a % FLASH_ERASE_SIZE = 0 =>
              (a \div FLASH_ERASE_SIZE = trampolineStart \div FLASH_ERASE_SIZE <=> a = LastPage)
<1>1. a \div FLASH_ERASE_SIZE = trampolineStart \div FLASH_ERASE_SIZE
        <=> LastPage <= a /\ a < LastPage + FLASH_ERASE_SIZE
  BY LastPageLemma, Sizes, DivSame DEF LastPage, PageStart, BufferIndex
<1>2. ASSUME a % FLASH_ERASE_SIZE = 0, LastPage <= a, a < LastPage + FLASH_ERASE_SIZE
      PROVE  a = LastPage
  <2>1. SUFFICES ASSUME LastPage < a PROVE FALSE
    BY <1>2, LastPageLemma
  <2>2. LastPage + FLASH_ERASE_SIZE <= a
    BY <1>2, <2>1, LastPageLemma, Sizes, ModGap, Zenon
  <2>3. QED
    BY <1>2, <2>2, LastPageLemma, Sizes
<1>3. QED
  BY <1>1, <1>2, LastPageLemma, Sizes DEF InTrampolinePage

\* An address below the end of flash is the cell of its own.
LEMMA CellLemma ==
  ASSUME NEW a \in 0 .. FLASH_SIZE - 1
  PROVE  a % FLASH_SIZE = a /\ a \in Addr /\ AppAddress(a) = a
<1>1. a % FLASH_SIZE = a /\ a \in 0 .. ADDR - 1 /\ a \in Nat
  BY LastPageLemma, Sizes, ModSmall
<1>2. QED
  BY <1>1, LastPageLemma, Sizes, ModSmall DEF Addr, AppAddress

-----------------------------------------------------------------------------
(***************************************************************************)
(* Words and relative jumps.                                               *)
(***************************************************************************)
Words == 0 .. BYTE * BYTE - 1

\* A word and its two bytes.
LEMMA WordLemma ==
  /\ \A lo, hi \in Byte : /\ Word(lo, hi) \in Words
                          /\ LowByte(Word(lo, hi)) = lo
                          /\ HighByte(Word(lo, hi)) = hi
  /\ \A w \in Words : /\ LowByte(w) \in Byte /\ HighByte(w) \in Byte
                      /\ Word(LowByte(w), HighByte(w)) = w
<1>1. BYTE \in Nat \ {0} /\ Byte = 0 .. BYTE - 1
  BY WordAssumption
<1>2. ASSUME NEW lo \in Byte, NEW hi \in Byte
      PROVE  /\ Word(lo, hi) \in Words
             /\ LowByte(Word(lo, hi)) = lo
             /\ HighByte(Word(lo, hi)) = hi
  <2>1. lo \in 0 .. BYTE - 1 /\ hi \in 0 .. BYTE - 1
    BY <1>1
  <2> DEFINE w == lo + BYTE * hi
  <2>2. w \in 0 .. BYTE * BYTE - 1
    <3>1. BYTE * hi + BYTE <= BYTE * BYTE /\ BYTE * hi \in Nat
      <4>1. PICK k \in Nat : BYTE = hi + 1 + k
        <5>1. BYTE - hi - 1 \in Nat /\ BYTE = hi + 1 + (BYTE - hi - 1)
          BY <1>1, <2>1
        <5>2. QED
          BY <5>1
      <4>2. BYTE * BYTE = BYTE * hi + BYTE + BYTE * k /\ BYTE * k >= 0 /\ BYTE * hi >= 0
        BY <1>1, <2>1, <4>1, SMT
      <4>3. BYTE * BYTE \in Nat /\ BYTE * hi \in Nat
        BY <1>1, <2>1, SMT
      <4>4. QED
        BY <1>1, <4>2, <4>3
    <3>2. QED
      BY <1>1, <2>1, <3>1
  <2>3. w \in Nat /\ w = BYTE * hi + lo /\ hi \in Nat
    BY <1>1, <2>1, <2>2
  <2> HIDE DEF w
  <2>4. w % BYTE = lo
    <3>1. \A q \in Nat, r \in 0 .. BYTE - 1 : w = BYTE * q + r => w % BYTE = r
      BY <1>1, <2>3, ModUnique, Zenon
    <3>2. QED
      BY <2>1, <2>3, <3>1, Zenon
  <2>5. w \div BYTE = hi
    BY <1>1, <2>1, <2>3, DivUnique, Zenon
  <2>6. QED
    BY <2>2, <2>4, <2>5 DEF w, Word, Words, LowByte, HighByte
<1>3. ASSUME NEW w \in Words
      PROVE  /\ LowByte(w) \in Byte /\ HighByte(w) \in Byte
             /\ Word(LowByte(w), HighByte(w)) = w
  <2>1. w \in 0 .. BYTE * BYTE - 1 /\ w \in Nat
    BY DEF Words
  <2>2. w = BYTE * (w \div BYTE) + (w % BYTE) /\ w \div BYTE \in Nat /\ w % BYTE \in 0 .. BYTE - 1
    BY <1>1, <2>1, DivMod, ModRange
  <2>3. w \div BYTE <= BYTE - 1
    <3> DEFINE q == w \div BYTE
               r == w % BYTE
    <3>1. w = BYTE * q + r /\ q \in Nat /\ r \in Nat
      BY <1>1, <2>2
    <3> HIDE DEF q, r
    <3>2. q <= BYTE - 1
      <4>1. SUFFICES ASSUME q >= BYTE PROVE FALSE
        BY <1>1, <3>1
      <4>2. PICK k \in Nat : q = BYTE + k
        <5>1. q - BYTE \in Nat /\ q = BYTE + (q - BYTE)
          BY <1>1, <3>1, <4>1
        <5>2. QED
          BY <5>1
      <4>3. BYTE * q = BYTE * BYTE + BYTE * k /\ BYTE * k \in Nat /\ BYTE * BYTE \in Nat
        BY <1>1, <4>2, SMT
      <4>4. QED
        BY <1>1, <2>1, <3>1, <4>3
    <3>3. QED
      BY <3>2 DEF q
  <2>4. w = (w % BYTE) + BYTE * (w \div BYTE) /\ w \div BYTE \in 0 .. BYTE - 1
    BY <1>1, <2>2, <2>3
  <2>5. QED
    BY <1>1, <2>2, <2>4 DEF Word, LowByte, HighByte
<1>4. QED
  BY <1>2, <1>3

\* Moving a jump changes nothing but how far it goes, and gives 0 for what is
\* no relative jump only.
LEMMA JumpLemma ==
  ASSUME NEW w \in Words, NEW off \in Int
  PROVE  LET v == offsetRelativeJump(w, off)
         IN  /\ v \in Words
             /\ v # 0 <=> IsRelativeJump(w)
             /\ IsRelativeJump(w) =>
                  /\ v % JUMP = ((w % JUMP) + (off \div 2)) % JUMP
                  /\ v - (v % JUMP) = w - (w % JUMP)
                  /\ IsRelativeJump(v)
<1> DEFINE F == w - (w % JUMP)
           r == ((w % JUMP) + (off \div 2)) % JUMP
           v == offsetRelativeJump(w, off)
<1>1. /\ BYTE \in Nat \ {0} /\ JUMP \in Nat \ {0} /\ 2 * JUMP \in Nat \ {0}
      /\ BYTE * BYTE \in Nat \ {0} /\ (BYTE * BYTE) % (2 * JUMP) = 0 /\ (2 * JUMP) % JUMP = 0
      /\ OPCODE \in Nat \ {0}
  <2>1. JUMP \in Nat \ {0} /\ BYTE \in Nat \ {0} /\ BYTE * BYTE \in Nat \ {0}
    BY WordAssumption, SMT
  <2>2. (JUMP * 2) % JUMP = 0 /\ JUMP * 2 = 2 * JUMP
    BY <2>1, ModTimes, SMT
  <2>3. QED
    BY <2>1, <2>2, WordAssumption
<1>2. (BYTE * BYTE) % JUMP = 0
  BY <1>1, ModTrans, Zenon
<1>3. w \in Nat /\ w < BYTE * BYTE
  BY <1>1 DEF Words
<1>4. F \in Nat /\ F % JUMP = 0 /\ F <= w /\ w < F + JUMP /\ w % JUMP \in 0 .. JUMP - 1
  BY <1>1, <1>3, ModFloor, ModRange
<1>5. r \in 0 .. JUMP - 1
  <2>1. off \div 2 \in Int
    BY SMT
  <2>2. (w % JUMP) + (off \div 2) \in Int
    BY <1>4, <2>1
  <2>3. QED
    BY <1>1, <2>2, ModInt, Zenon
<1> HIDE DEF F, r, v
<1>6. CASE ~ IsRelativeJump(w)
  <2>1. v = 0
    BY <1>6 DEF v, offsetRelativeJump
  <2>2. 0 \in Words
    BY <1>1 DEF Words
  <2>3. QED
    BY <1>6, <2>1, <2>2 DEF v
<1>7. CASE IsRelativeJump(w)
  <2>1. v = F + r
    BY <1>7 DEF v, F, r, offsetRelativeJump
  <2>2. v % JUMP = r /\ v \in Nat
    <3>1. r % JUMP = r
      BY <1>1, <1>5, ModSmall
    <3>2. r \in Nat
      BY <1>5
    <3>3. (F + r) % JUMP = r % JUMP
      BY <1>1, <1>4, <3>2, ModAdd, Zenon
    <3>4. QED
      BY <1>4, <2>1, <3>1, <3>2, <3>3
  <2>3. v < BYTE * BYTE
    <3>1. F + JUMP <= BYTE * BYTE
      <4>1. F < BYTE * BYTE
        BY <1>1, <1>3, <1>4
      <4>2. QED
        BY <1>1, <1>2, <1>4, <4>1, ModGap, Zenon
    <3>2. QED
      BY <1>1, <1>4, <1>5, <2>1, <3>1
  <2> DEFINE G == w - (w % (2 * JUMP))
             Q == w \div (2 * JUMP)
  <2>4. /\ G \in Nat /\ G % (2 * JUMP) = 0 /\ G <= w /\ w < G + (2 * JUMP)
        /\ w = (2 * JUMP) * Q + (w % (2 * JUMP)) /\ w % (2 * JUMP) \in 0 .. (2 * JUMP) - 1
    BY <1>1, <1>3, ModFloor, DivMod, ModRange, Zenon
  <2>5. G % JUMP = 0
    BY <1>1, <2>4, ModTrans, Zenon
  <2>6. Q = OPCODE
    BY <1>7 DEF IsRelativeJump
  <2>7. G >= 2 * JUMP
    <3>1. PICK k \in Nat : OPCODE = k + 1
      <4>1. OPCODE - 1 \in Nat /\ OPCODE = (OPCODE - 1) + 1
        BY <1>1
      <4>2. QED
        BY <4>1
    <3>2. (2 * JUMP) * (k + 1) = (2 * JUMP) * k + (2 * JUMP) /\ (2 * JUMP) * k \in Nat
      BY <1>1, SMT
    <3>3. G = (2 * JUMP) * Q
      <4> DEFINE z == w % (2 * JUMP)
                 y == (2 * JUMP) * Q
      <4>1. w = y + z /\ z \in Int /\ y \in Int /\ G = w - z
        <5>1. y \in Int
          BY <1>1, <2>6, SMT
        <5>2. QED
          BY <1>1, <2>4, <5>1
      <4> HIDE DEF z, y, G, Q
      <4>2. G = y
        BY <1>3, <4>1
      <4>3. QED
        BY <4>2 DEF y
    <3>4. G = (2 * JUMP) * (k + 1)
      BY <2>6, <3>1, <3>3, Zenon
    <3>5. QED
      BY <1>1, <3>2, <3>4
  <2> HIDE DEF G, Q
  <2>8. G <= F
    <3>1. SUFFICES ASSUME F < G PROVE FALSE
      BY <1>4, <2>4
    <3>2. F + JUMP <= G
      BY <1>1, <1>4, <2>4, <2>5, <3>1, ModGap, Zenon
    <3>3. QED
      BY <1>1, <1>3, <1>4, <2>4, <3>2
  <2>9. F + JUMP <= G + (2 * JUMP)
    <3>0. 2 * JUMP \in Nat /\ (G + (2 * JUMP)) % JUMP = (2 * JUMP) % JUMP
      <4>1. 2 * JUMP \in Nat
        BY <1>1
      <4>2. QED
        BY <1>1, <2>4, <2>5, <4>1, ModAdd, Zenon
    <3>1. G + (2 * JUMP) \in Nat /\ (G + (2 * JUMP)) % JUMP = 0
      BY <1>1, <2>4, <3>0
    <3>2. F < G + (2 * JUMP)
      BY <1>1, <1>3, <1>4, <2>4
    <3>3. QED
      BY <1>1, <1>4, <3>1, <3>2, ModGap, Zenon
  <2>10. G <= v /\ v < G + (2 * JUMP)
    BY <1>1, <1>4, <1>5, <2>1, <2>4, <2>8, <2>9
  <2>11. v \div (2 * JUMP) = w \div (2 * JUMP)
    BY <1>1, <1>3, <2>2, <2>10, DivSame, Zenon DEF G
  <2>12. IsRelativeJump(v)
    BY <1>7, <2>11, Zenon DEF IsRelativeJump
  <2>13. v # 0
    BY <1>1, <2>4, <2>7, <2>10
  <2>14. v - (v % JUMP) = F
    BY <1>4, <1>5, <2>1, <2>2
  <2>15. v \in Words
    BY <1>1, <2>2, <2>3 DEF Words
  <2>16. QED
    BY <1>7, <2>2, <2>12, <2>13, <2>14, <2>15 DEF v, F, r
<1>8. QED
  BY <1>6, <1>7

\* The trampoline's jump, moved back, is the reset vector that was sent.
LEMMA JumpBack ==
  ASSUME NEW w \in Words, IsRelativeJump(w)
  PROVE  offsetRelativeJump(offsetRelativeJump(w, - trampolineStart), trampolineStart) = w
<1> DEFINE v == offsetRelativeJump(w, - trampolineStart)
           u == offsetRelativeJump(v, trampolineStart)
           k == trampolineStart \div 2
           x == w % JUMP
<1>1. JUMP \in Nat \ {0} /\ w \in Nat
  BY WordAssumption, SMT DEF Words
<1>2. /\ trampolineStart \in Int /\ - trampolineStart \in Int
      /\ k \in Nat /\ (- trampolineStart) \div 2 = 0 - k
  BY LastPageLemma, SMT
<1>3. /\ v \in Words /\ IsRelativeJump(v)
      /\ v % JUMP = (x + ((- trampolineStart) \div 2)) % JUMP
      /\ v - (v % JUMP) = w - (w % JUMP)
  BY <1>2, JumpLemma
<1>4. /\ u % JUMP = ((v % JUMP) + k) % JUMP
      /\ u - (u % JUMP) = v - (v % JUMP)
      /\ u \in Words
  BY <1>2, <1>3, JumpLemma
<1>5. x \in 0 .. JUMP - 1
  BY <1>1, ModRange
<1>6. v % JUMP = (x - k) % JUMP
  <2>1. x + ((- trampolineStart) \div 2) = x - k
    BY <1>2, <1>5
  <2>2. QED
    BY <1>3, <2>1, Zenon
<1>7. (((x - k) % JUMP) + k) % JUMP = x
  BY <1>1, <1>2, <1>5, ModBack, Zenon
<1>8. u % JUMP = w % JUMP
  BY <1>4, <1>6, <1>7, Zenon
<1>9. u - (u % JUMP) = w - (w % JUMP)
  BY <1>3, <1>4, Zenon
<1>10. u \in Int /\ w % JUMP \in Int
  BY <1>4, <1>5, WordAssumption, SMT DEF Words
<1> HIDE DEF u
<1>11. u = w
  BY <1>1, <1>8, <1>9, <1>10
<1>12. QED
  BY <1>11 DEF u

\* It goes where the reset vector went from address 0.
LEMMA JumpTarget ==
  ASSUME NEW t \in Words, NEW w \in Words, IsRelativeJump(t),
         w = offsetRelativeJump(t, trampolineStart)
  PROVE  Target(trampolineStart, t) = Target(0, w)
<1> DEFINE k == trampolineStart \div 2
           x == t % JUMP
           y == w % JUMP
           q == (x + k) \div JUMP
<1>1. /\ JUMP \in Nat \ {0} /\ t \in Nat /\ w \in Nat
      /\ FLASH_SIZE \in Nat \ {0} /\ 2 * JUMP \in Nat \ {0} /\ (2 * JUMP) % FLASH_SIZE = 0
  BY WordAssumption, LastPageLemma, SMT DEF Words
<1>2. k \in Nat /\ trampolineStart = 2 * k /\ trampolineStart \in Int
  BY LastPageLemma, SMT
<1>3. x \in Nat /\ y \in Nat
  BY <1>1, ModRange
<1>4. y = (x + k) % JUMP
  BY <1>2, JumpLemma
<1>5. x + k = JUMP * q + y /\ q \in Nat
  <2>1. \A z \in Nat : z = JUMP * (z \div JUMP) + (z % JUMP) /\ z \div JUMP \in Nat
    BY <1>1, DivMod
  <2>2. x + k \in Nat
    BY <1>2, <1>3
  <2>3. QED
    BY <1>4, <2>1, <2>2, Zenon
<1> HIDE DEF k, x, y, q
<1>6. (2 * JUMP) * q \in Nat /\ ((2 * JUMP) * q) % FLASH_SIZE = 0
  BY <1>1, <1>5, ModTimes, ModTrans, Zenon
<1>7. trampolineStart + 2 + 2 * x = (2 * JUMP) * q + (2 + 2 * y)
  BY <1>1, <1>2, <1>3, <1>5, SMT
<1>8. 2 + 2 * y \in Nat
  BY <1>3
<1>9. ((2 * JUMP) * q + (2 + 2 * y)) % FLASH_SIZE = (2 + 2 * y) % FLASH_SIZE
  BY <1>1, <1>6, <1>8, ModAdd, Zenon
<1>10. 0 + 2 + 2 * y = 2 + 2 * y
  BY <1>3
<1>11. (trampolineStart + 2 + 2 * x) % FLASH_SIZE = (0 + 2 + 2 * y) % FLASH_SIZE
  BY <1>7, <1>9, <1>10, Zenon
<1>12. QED
  BY <1>11 DEF Target, x, y

-----------------------------------------------------------------------------
(***************************************************************************)
(* What the locals of the call chain are worth.                            *)
(***************************************************************************)
\* Only a page that begins below the last one is erased by writePage itself,
\* and no row behind the last page is ever programmed.
Locals ==
  /\ CallLocals
  /\ cmd = "FINALIZE_FLASH" => finalizes > 0
  /\ InRows /\ len > 0 => offset % FLASH_WRITE_SIZE = 0
  /\ pc \in {"trampoline", "vector"} => base = 0 /\ offset = 0
  /\ pc = "program" => offset = 0 /\ base < LastPage
  /\ pc = "row" /\ offset > 0 => base <= LastPage

Inv1 == TypeOK /\ Locals

\* The variables the steps below need.
LEMMA Types ==
  ASSUME Inv1
  PROVE  /\ address \in Nat /\ nextWriteAddress \in Nat /\ base \in Nat
         /\ offset \in Nat /\ len \in Nat /\ CommitLen \in Nat /\ finalizes \in Nat
         /\ address < ADDR /\ nextWriteAddress < ADDR /\ base < ADDR
         /\ writeBuffer \in [0 .. FLASH_ERASE_SIZE - 1 -> Byte]
         /\ flash \in [Cells -> Byte]
         /\ received \in [Addr -> Byte]
  BY Numbers DEF Inv1, TypeOK, TypeInvariant

\* In the rows of a page, where the row at hand is.
LEMMA RowPlace ==
  ASSUME Inv1, InRows, len > 0
  PROVE  /\ base % FLASH_ERASE_SIZE = 0 /\ base + FLASH_ERASE_SIZE <= ADDR
         /\ offset \in 0 .. FLASH_ERASE_SIZE - 1
         /\ offset + len <= FLASH_ERASE_SIZE
         /\ offset + FLASH_WRITE_SIZE <= FLASH_ERASE_SIZE
         /\ RowLen \in 1 .. FLASH_WRITE_SIZE /\ RowLen <= len
         /\ len - RowLen > 0 => RowLen = FLASH_WRITE_SIZE
         /\ RowAddress = base + offset
<1>1. /\ base % FLASH_ERASE_SIZE = 0 /\ offset % FLASH_WRITE_SIZE = 0
      /\ offset + len <= FLASH_ERASE_SIZE
  BY DEF Inv1, Locals, CallLocals, InRows, InCommit, CommitLen
<1>2. base + FLASH_ERASE_SIZE <= ADDR
  <2>1. ADDR \in Nat /\ ADDR % FLASH_ERASE_SIZE = 0
    BY Sizes, SizeAssumption
  <2>2. base \in Nat /\ base < ADDR
    BY Types
  <2>3. QED
    BY <1>1, <2>1, <2>2, Sizes, ModGap, Zenon
<1>3. offset \in 0 .. FLASH_ERASE_SIZE - 1
  BY <1>1, Types, Sizes
<1>4. offset + FLASH_WRITE_SIZE <= FLASH_ERASE_SIZE
  BY <1>1, <1>3, RowInPage
<1>5. /\ RowLen \in 1 .. FLASH_WRITE_SIZE /\ RowLen <= len
      /\ len - RowLen > 0 => RowLen = FLASH_WRITE_SIZE
  BY Types, Sizes DEF RowLen
<1>6. RowAddress = base + offset
  <2>1. FLASH_APP_OFFSET + (base + offset) = base + offset
        /\ base + offset \in 0 .. ADDR - 1
    BY <1>2, <1>3, Types, Sizes, LastPageLemma
  <2>2. (base + offset) % ADDR = base + offset
    BY <2>1, Sizes, ModSmall, Zenon
  <2>3. QED
    BY <2>1, <2>2, Zenon DEF RowAddress, AppAddress
<1>7. QED
  BY <1>1, <1>2, <1>3, <1>4, <1>5, <1>6

\* A row that writePage is ready for.
LEMMA ReadyInRows ==
  ASSUME Inv1, RowReady \/ AtRow \/ pc = "program" \/ pc = "trampoline"
  PROVE  InRows /\ InCommit /\ len > 0
  BY Types DEF Inv1, Locals, CallLocals, InRows, InCommit, CommitLen, RowReady, AtRow

\* A row writePage accepts ends below the trampoline, with the byte that fills
\* its last word, and is erased for if it is the first of its page, and its
\* page is not the last one.
LEMMA RowAccepted ==
  ASSUME Inv1, RowReady, RowError(RowAddress, RowLen) = 0
  PROVE  /\ base <= LastPage
         /\ base + offset + RowLen <= trampolineStart
         /\ EraseNeeded(RowAddress) <=> offset = 0 /\ base # LastPage
<1>1. InRows /\ len > 0
  BY ReadyInRows
<1>2. /\ base \in Nat /\ base % FLASH_ERASE_SIZE = 0 /\ base + FLASH_ERASE_SIZE <= ADDR
      /\ offset \in 0 .. FLASH_ERASE_SIZE - 1 /\ offset \in Nat
      /\ offset + len <= FLASH_ERASE_SIZE
      /\ RowLen \in 1 .. FLASH_WRITE_SIZE /\ RowLen <= len
      /\ RowAddress = base + offset
  BY <1>1, RowPlace, Types
<1>3. (base + offset + RowLen) % ADDR <= trampolineStart
  BY <1>2, Sizes DEF RowError, trampolineStart
<1>4. base <= LastPage
  <2>1. CASE offset > 0
    BY <2>1, LastPageLemma DEF RowReady, AtRow, Inv1, Locals
  <2>2. CASE offset = 0
    <3>1. base + offset + RowLen \in 0 .. ADDR - 1
      BY <1>2, <2>2, LastPageLemma, Sizes
    <3>2. (base + offset + RowLen) % ADDR = base + offset + RowLen
      BY <3>1, Sizes, ModSmall, Zenon
    <3>3. base + RowLen <= trampolineStart
      BY <1>2, <1>3, <2>2, <3>2, Sizes
    <3>4. SUFFICES ASSUME LastPage < base PROVE FALSE
      BY <1>2, LastPageLemma
    <3>5. LastPage + FLASH_ERASE_SIZE <= base
      BY <1>2, <3>4, LastPageLemma, Sizes, ModGap, Zenon
    <3>6. QED
      BY <1>2, <3>3, <3>5, LastPageLemma, Sizes
  <2>3. QED
    BY <1>2, <2>1, <2>2
<1>5. base + offset + RowLen <= trampolineStart
  <2>1. base + offset + RowLen \in 0 .. ADDR - 1
    BY <1>2, <1>4, Types, LastPageLemma, Sizes
  <2>2. (base + offset + RowLen) % ADDR = base + offset + RowLen
    BY <2>1, Sizes, ModSmall, Zenon
  <2>3. QED
    BY <1>2, <1>3, <2>2, Sizes
<1>6. EraseNeeded(RowAddress) <=> offset = 0 /\ base # LastPage
  <2>1. BufferIndex(base + offset) = offset
    BY <1>2, IndexInPage
  <2>2. (base + offset) % FLASH_ERASE_SIZE = offset
    BY <2>1, Zenon DEF BufferIndex
  <2>3. CASE offset = 0
    <3>1. base + offset = base
      BY <1>2, <2>3
    <3>2. base \div FLASH_ERASE_SIZE = trampolineStart \div FLASH_ERASE_SIZE <=> base = LastPage
      BY <1>2, TrampolinePage
    <3>3. QED
      BY <1>2, <2>3, <3>1, <3>2, Zenon DEF EraseNeeded
  <2>4. CASE offset # 0
    BY <1>2, <2>2, <2>4, Zenon DEF EraseNeeded
  <2>5. QED
    BY <2>3, <2>4
<1>7. QED
  BY <1>4, <1>5, <1>6

\* A row is programmed below the trampoline, in whole words.
LEMMA ProgramPlace ==
  ASSUME Inv1, ProgramRow
  PROVE  /\ InRows /\ InCommit /\ pc \in {"row", "program"} /\ len > 0
         /\ base <= LastPage
         /\ WordBytes(RowLen) \in 2 .. FLASH_WRITE_SIZE
         /\ RowLen <= WordBytes(RowLen) /\ WordBytes(RowLen) <= RowLen + 1
         /\ base + offset + WordBytes(RowLen) <= trampolineStart
         /\ pc = "row" => offset > 0 \/ base = LastPage
<1>1. InRows /\ InCommit /\ len > 0
  BY ReadyInRows DEF ProgramRow
<1>2. /\ base \in Nat /\ base % FLASH_ERASE_SIZE = 0
      /\ offset \in 0 .. FLASH_ERASE_SIZE - 1 /\ offset \in Nat
      /\ offset + len <= FLASH_ERASE_SIZE
      /\ offset + FLASH_WRITE_SIZE <= FLASH_ERASE_SIZE
      /\ RowLen \in 1 .. FLASH_WRITE_SIZE /\ RowLen <= len
  BY <1>1, RowPlace, Types
<1>3. /\ WordBytes(RowLen) \in 2 .. FLASH_WRITE_SIZE
      /\ RowLen <= WordBytes(RowLen) /\ WordBytes(RowLen) <= RowLen + 1
      /\ RowLen % 2 = 0 => WordBytes(RowLen) = RowLen
  <2>1. RowLen % 2 \in {0, 1} /\ (RowLen = 1 => RowLen % 2 = 1)
    BY <1>2, Sizes, SMT
  <2>2. FLASH_WRITE_SIZE % 2 = 0
    BY AttinyAssumption
  <2>3. RowLen % 2 = 1 => RowLen < FLASH_WRITE_SIZE
    BY <1>2, <2>2, Sizes
  <2>4. QED
    BY <1>2, <2>1, <2>3, Sizes DEF WordBytes
<1>4. CASE pc = "program"
  <2>1. offset = 0 /\ base < LastPage
    BY <1>4 DEF Inv1, Locals
  <2>2. base + FLASH_ERASE_SIZE <= LastPage
    BY <1>2, <2>1, LastPageLemma, Sizes, ModGap, Zenon
  <2>3. base + offset + WordBytes(RowLen) <= trampolineStart
    BY <1>2, <1>3, <2>1, <2>2, LastPageLemma, Sizes
  <2>4. base <= LastPage
    BY <1>2, <2>1, LastPageLemma
  <2>5. QED
    BY <1>1, <1>3, <1>4, <2>3, <2>4
<1>5. CASE pc # "program"
  <2>1. RowReady /\ RowError(RowAddress, RowLen) = 0 /\ ~ EraseNeeded(RowAddress)
    BY <1>5 DEF ProgramRow
  <2>2. /\ base <= LastPage /\ base + offset + RowLen <= trampolineStart
        /\ offset # 0 \/ base = LastPage
    BY <2>1, RowAccepted
  <2>3. pc = "row"
    BY <2>1, <2>2, LastPageLemma, Sizes DEF RowReady, AtRow, Inv1, Locals
  <2>4. base + offset + WordBytes(RowLen) <= trampolineStart
    <3>1. base % 2 = 0 /\ offset % 2 = 0
      <4>1. 2 \in Nat \ {0} /\ FLASH_WRITE_SIZE % 2 = 0 /\ FLASH_ERASE_SIZE % 2 = 0
        BY AttinyAssumption
      <4>2. base % 2 = 0
        BY <1>2, <4>1, Sizes, ModTrans, ZenonT(60)
      <4>3. offset % FLASH_WRITE_SIZE = 0
        BY <1>1 DEF Inv1, Locals
      <4>4. offset % 2 = 0
        BY <1>2, <4>1, <4>3, Sizes, ModTrans, Zenon
      <4>5. QED
        BY <4>2, <4>4
    <3>2. CASE RowLen % 2 = 0
      BY <1>3, <2>2, <3>2
    <3>3. CASE RowLen % 2 # 0
      <4>1. RowLen \in Nat /\ trampolineStart \in Nat /\ trampolineStart % 2 = 0
        BY <1>2, LastPageLemma
      <4>2. base + offset + RowLen # trampolineStart
        BY <1>2, <3>1, <3>3, <4>1, SMT
      <4>3. QED
        BY <1>2, <1>3, <2>2, <4>1, <4>2, LastPageLemma, Sizes
    <3>4. QED
      BY <3>2, <3>3
  <2>5. QED
    BY <1>1, <1>2, <1>3, <2>2, <2>3, <2>4
<1>6. QED
  BY <1>4, <1>5

-----------------------------------------------------------------------------
(***************************************************************************)
(* What the steps of writePage do to flash.                                *)
(***************************************************************************)
\* What programming leaves of a byte is a byte.
LEMMA BurnLemma ==
  ASSUME NEW a \in Byte, NEW b \in Byte
  PROVE  Burn[<<a, b>>] \in Byte
  BY BurnAssumption

\* Programming a row changes the bytes of its words.
LEMMA ProgramFlash ==
  ASSUME Inv1, ProgramRow
  PROVE  /\ flash' \in [Cells -> Byte]
         /\ \A c \in Cells :
              flash'[c] = IF c \in base + offset .. base + offset + WordBytes(RowLen) - 1
                            THEN Burn[<<flash[c], writeBuffer[c - base]>>] ELSE flash[c]
         /\ len' = len - RowLen /\ offset' = offset + RowLen
<1> DEFINE n == WordBytes(RowLen)
           values == [i \in 0 .. n - 1 |-> writeBuffer[offset + i]]
<1>1. /\ InRows /\ len > 0 /\ base <= LastPage /\ n \in 2 .. FLASH_WRITE_SIZE
      /\ base + offset + n <= trampolineStart
  BY ProgramPlace
<1>2. /\ RowAddress = base + offset /\ offset + FLASH_WRITE_SIZE <= FLASH_ERASE_SIZE
      /\ base \in Nat /\ offset \in Nat
  BY <1>1, RowPlace, Types
<1> HIDE DEF n
<1>3. RowAddress % FLASH_SIZE = base + offset
  <2>1. RowAddress \in 0 .. FLASH_SIZE - 1
    BY <1>1, <1>2, LastPageLemma, Sizes
  <2>2. QED
    BY <1>2, <2>1, CellLemma, Zenon
<1>4. flash' = Burnt(RowAddress, values)
  BY DEF ProgramRow, n
<1>5. ASSUME NEW c \in Cells
      PROVE  /\ flash'[c] = IF c \in base + offset .. base + offset + n - 1
                              THEN Burn[<<flash[c], writeBuffer[c - base]>>] ELSE flash[c]
             /\ flash'[c] \in Byte
  <2>1. flash'[c] = IF c - (base + offset) \in 0 .. n - 1
                      THEN Burn[<<flash[c], values[c - (base + offset)]>>] ELSE flash[c]
    BY <1>3, <1>4 DEF Burnt
  <2>2. c \in Nat
    BY LastPageLemma DEF Cells
  <2>3. CASE c \in base + offset .. base + offset + n - 1
    <3>1. c - (base + offset) \in 0 .. n - 1
      BY <1>1, <1>2, <2>2, <2>3, Sizes
    <3>2. offset + (c - (base + offset)) = c - base
      BY <1>2, <2>2
    <3>3. values[c - (base + offset)] = writeBuffer[c - base]
      BY <3>1, <3>2
    <3>4. c - base \in 0 .. FLASH_ERASE_SIZE - 1
      BY <1>1, <1>2, <2>2, <2>3, Sizes
    <3>5. flash[c] \in Byte /\ writeBuffer[c - base] \in Byte
      BY <3>4, Types
    <3>6. QED
      BY <2>1, <2>3, <3>1, <3>3, <3>5, BurnLemma, Zenon
  <2>4. CASE c \notin base + offset .. base + offset + n - 1
    <3>1. c - (base + offset) \notin 0 .. n - 1
      BY <1>1, <1>2, <2>2, <2>4, Sizes
    <3>2. flash[c] \in Byte
      BY Types
    <3>3. QED
      BY <2>1, <2>4, <3>1, <3>2, Zenon
  <2>5. QED
    BY <2>3, <2>4
<1>6. flash' \in [Cells -> Byte]
  <2>1. flash' = [c \in Cells |-> flash'[c]]
    BY <1>4 DEF Burnt
  <2>2. QED
    BY <1>5, <2>1
<1>7. len' = len - RowLen /\ offset' = offset + RowLen
  BY DEF ProgramRow, RowDone
<1>8. QED
  BY <1>5, <1>6, <1>7 DEF n

\* Erasing is for the first row of a page below the last one.
LEMMA EraseFlash ==
  ASSUME Inv1, ErasePage
  PROVE  /\ InRows /\ InCommit /\ len > 0 /\ offset = 0 /\ base < LastPage
         /\ base + FLASH_ERASE_SIZE <= LastPage
         /\ pc \in {"row", "vector"} /\ (pc = "row" => base # 0)
         /\ flash' \in [Cells -> Byte]
         /\ \A c \in Cells :
              flash'[c] = IF c \in base .. base + FLASH_ERASE_SIZE - 1 THEN ERASED ELSE flash[c]
<1>1. /\ RowReady /\ RowError(RowAddress, RowLen) = 0 /\ EraseNeeded(RowAddress)
      /\ flash' = ErasedPage(RowAddress)
  BY DEF ErasePage
<1>2. InRows /\ InCommit /\ len > 0
  BY <1>1, ReadyInRows
<1>3. /\ base \in Nat /\ base % FLASH_ERASE_SIZE = 0 /\ RowAddress = base + offset
      /\ offset = 0 /\ base < LastPage
  BY <1>1, <1>2, RowAccepted, RowPlace, Types, LastPageLemma
<1>4. base + FLASH_ERASE_SIZE <= LastPage
  BY <1>3, LastPageLemma, Sizes, ModGap, Zenon
<1>5. pc \in {"row", "vector"} /\ (pc = "row" => base # 0)
  BY <1>1, <1>3 DEF RowReady, AtRow
<1>6. RowAddress = base /\ PageStart(RowAddress % FLASH_SIZE) = base
  <2>1. RowAddress = base /\ base \in 0 .. FLASH_SIZE - 1
    BY <1>3, LastPageLemma, Sizes
  <2>2. base % FLASH_SIZE = base
    BY <2>1, CellLemma
  <2>3. PageStart(base) = base
    BY <1>3, PageStartOfStart
  <2>4. QED
    BY <2>1, <2>2, <2>3, Zenon
<1>7. flash' = [c \in Cells |-> IF c \in base .. base + FLASH_ERASE_SIZE - 1 THEN ERASED
                                ELSE flash[c]]
  BY <1>1, <1>6, Zenon DEF ErasedPage
<1>8. flash' \in [Cells -> Byte]
  BY <1>7, Types, ByteAssumption
<1>9. QED
  BY <1>2, <1>3, <1>4, <1>5, <1>7, <1>8

\* For the first row of page 0, the page of the trampoline is erased.
LEMMA EraseTrampolineFlash ==
  ASSUME Inv1, EraseTrampoline
  PROVE  /\ InRows /\ InCommit /\ pc = "row" /\ len > 0 /\ base = 0 /\ offset = 0
         /\ flash' \in [Cells -> Byte]
         /\ \A c \in Cells :
              flash'[c] = IF c \in LastPage .. trampolineStart + 1 THEN ERASED ELSE flash[c]
<1>1. /\ AtRow /\ RowAddress = 0 /\ pc = "row" /\ flash' = ErasedPage(trampolineStart)
  BY DEF EraseTrampoline, AtRow
<1>2. InRows /\ InCommit /\ len > 0
  BY <1>1, ReadyInRows
<1>3. base = 0 /\ offset = 0
  BY <1>1, <1>2, RowPlace, Types
<1>4. trampolineStart % FLASH_SIZE = trampolineStart
  <2>1. trampolineStart \in 0 .. FLASH_SIZE - 1
    BY LastPageLemma
  <2>2. QED
    BY <2>1, CellLemma
<1>5. LastPage + FLASH_ERASE_SIZE - 1 = trampolineStart + 1
  BY LastPageLemma, Sizes
<1>6. flash' = [c \in Cells |-> IF c \in LastPage .. trampolineStart + 1 THEN ERASED
                                ELSE flash[c]]
  BY <1>1, <1>4, <1>5, Zenon DEF ErasedPage, LastPage
<1>7. flash' \in [Cells -> Byte]
  BY <1>6, Types, ByteAssumption
<1>8. QED
  BY <1>1, <1>2, <1>3, <1>6, <1>7

\* The instruction for the trampoline is a word.
LEMMA RelocatedWord ==
  ASSUME Inv1, pc \in {"row", "trampoline"}, base = 0, offset = 0, len > 0
  PROVE  /\ Word(writeBuffer[0], writeBuffer[1]) \in Words
         /\ Relocated = offsetRelativeJump(Word(writeBuffer[0], writeBuffer[1]), - trampolineStart)
         /\ Relocated \in Words
<1>1. writeBuffer[0] \in Byte /\ writeBuffer[1] \in Byte
  <2>1. 0 \in 0 .. FLASH_ERASE_SIZE - 1 /\ 1 \in 0 .. FLASH_ERASE_SIZE - 1
    BY LastPageLemma, Sizes
  <2>2. QED
    BY <2>1, Types
<1>2. Word(writeBuffer[0], writeBuffer[1]) \in Words
  BY <1>1, WordLemma
<1>3. Relocated = offsetRelativeJump(Word(writeBuffer[0], writeBuffer[1]), - trampolineStart)
  BY DEF Relocated
<1>4. - trampolineStart \in Int
  BY LastPageLemma
<1>5. QED
  BY <1>2, <1>3, <1>4, JumpLemma

\* Programming the trampoline changes its word, and puts the reset vector of
\* the bootloader into the buffer.
LEMMA ProgramTrampolineFlash ==
  ASSUME Inv1, ProgramTrampoline
  PROVE  /\ InRows /\ InCommit /\ len > 0 /\ base = 0 /\ offset = 0 /\ pc = "trampoline"
         /\ Relocated \in Words
         /\ flash' \in [Cells -> Byte]
         /\ \A c \in Cells :
              flash'[c] = IF c = trampolineStart THEN Burn[<<flash[c], LowByte(Relocated)>>]
                          ELSE IF c = trampolineStart + 1 THEN Burn[<<flash[c], HighByte(Relocated)>>]
                          ELSE flash[c]
         /\ writeBuffer' = [writeBuffer EXCEPT ![0] = flash[0], ![1] = flash[1]]
         /\ writeBuffer' \in [0 .. FLASH_ERASE_SIZE - 1 -> Byte]
<1> DEFINE values == [i \in {0, 1} |-> IF i = 0 THEN LowByte(Relocated) ELSE HighByte(Relocated)]
<1>1. /\ pc = "trampoline" /\ flash' = Burnt(trampolineStart, values)
      /\ writeBuffer' = WithResetVector(writeBuffer)
  BY DEF ProgramTrampoline
<1>2. InRows /\ InCommit /\ len > 0 /\ base = 0 /\ offset = 0
  BY <1>1, ReadyInRows DEF Inv1, Locals
<1>3. /\ Relocated \in Words /\ LowByte(Relocated) \in Byte /\ HighByte(Relocated) \in Byte
  BY <1>1, <1>2, RelocatedWord, WordLemma
<1>4. trampolineStart % FLASH_SIZE = trampolineStart
  <2>1. trampolineStart \in 0 .. FLASH_SIZE - 1
    BY LastPageLemma
  <2>2. QED
    BY <2>1, CellLemma
<1>5. ASSUME NEW c \in Cells
      PROVE  /\ flash'[c] = IF c = trampolineStart THEN Burn[<<flash[c], LowByte(Relocated)>>]
                            ELSE IF c = trampolineStart + 1 THEN Burn[<<flash[c], HighByte(Relocated)>>]
                            ELSE flash[c]
             /\ flash'[c] \in Byte
  <2>1. flash'[c] = IF c - trampolineStart \in {0, 1}
                      THEN Burn[<<flash[c], values[c - trampolineStart]>>] ELSE flash[c]
    BY <1>1, <1>4, Zenon DEF Burnt
  <2>2. c \in Nat /\ trampolineStart \in Nat /\ flash[c] \in Byte
    BY Types, LastPageLemma DEF Cells
  <2>3. c = trampolineStart <=> c - trampolineStart = 0
    BY <2>2
  <2>4. c = trampolineStart + 1 <=> c - trampolineStart = 1
    BY <2>2
  <2>5. values[0] = LowByte(Relocated) /\ values[1] = HighByte(Relocated)
    OBVIOUS
  <2>6. CASE c = trampolineStart
    BY <1>3, <2>1, <2>2, <2>3, <2>5, <2>6, BurnLemma, Zenon
  <2>7. CASE c = trampolineStart + 1
    <3>1. c # trampolineStart
      BY <2>2, <2>7
    <3>2. QED
      BY <1>3, <2>1, <2>2, <2>4, <2>5, <2>7, <3>1, BurnLemma, Zenon
  <2>8. CASE c # trampolineStart /\ c # trampolineStart + 1
    BY <2>1, <2>2, <2>3, <2>4, <2>8, Zenon
  <2>9. QED
    BY <2>6, <2>7, <2>8
<1>6. flash' \in [Cells -> Byte]
  <2>1. flash' = [c \in Cells |-> flash'[c]]
    BY <1>1 DEF Burnt
  <2>2. QED
    BY <1>5, <2>1
<1>7. /\ writeBuffer' = [writeBuffer EXCEPT ![0] = flash[0], ![1] = flash[1]]
      /\ writeBuffer' \in [0 .. FLASH_ERASE_SIZE - 1 -> Byte]
  <2>1. writeBuffer' = [writeBuffer EXCEPT ![0] = flash[0], ![1] = flash[1]]
    BY <1>1, <1>2 DEF WithResetVector
  <2>2. 0 \in Cells /\ 1 \in Cells
    BY LastPageLemma DEF Cells
  <2>3. QED
    BY <2>1, <2>2, Types
<1>8. QED
  BY <1>1, <1>2, <1>3, <1>5, <1>6, <1>7

-----------------------------------------------------------------------------
(***************************************************************************)
(* Types, and what the locals are worth.                                   *)
(***************************************************************************)
WriteSteps == RejectVector \/ EraseTrampoline \/ ProgramTrampoline
              \/ RejectRow \/ ErasePage \/ ProgramRow

CompareStep == CommitSkip(ReadByte) \/ CommitStart(ReadByte) \/ CommitDone

\* Every step is one of a command, compares, or is one of writePage.
LEMMA StepKinds ==
  ASSUME Inv1, [Next]_attinyVars
  PROVE  \/ /\ CommandStep
            /\ flash' = flash
            /\ pc' \in {"idle", "copy", "commit"} \/ UNCHANGED vars
            /\ finalizes' \in 0 .. 2 /\ fresh' \in BOOLEAN /\ cut' \in BOOLEAN
            /\ cmd' = "FINALIZE_FLASH" => finalizes' > 0
         \/ CompareStep /\ UNCHANGED attinyHistory
         \/ WriteSteps
<1>0. /\ finalizes \in 0 .. 2 /\ fresh \in BOOLEAN /\ cut \in BOOLEAN
      /\ cmd = "FINALIZE_FLASH" => finalizes > 0
      /\ pc = "copy" => cmd = "WRITE_FLASH"
  BY DEF Inv1, TypeOK, Locals, CallLocals
<1> DEFINE Goal == /\ CommandStep
                   /\ flash' = flash
                   /\ pc' \in {"idle", "copy", "commit"} \/ UNCHANGED vars
                   /\ finalizes' \in 0 .. 2 /\ fresh' \in BOOLEAN /\ cut' \in BOOLEAN
                   /\ cmd' = "FINALIZE_FLASH" => finalizes' > 0
<1>1. CASE UNCHANGED attinyVars
  BY <1>0, <1>1 DEF attinyVars, attinyHistory, vars, CommandStep
<1>2. CASE Restart
  <2>1. flash' = flash /\ pc' = "idle" /\ cmd' = "none" /\ finalizes' = 0
    BY <1>2 DEF Restart, Reset
  <2>2. fresh' \in BOOLEAN /\ cut' \in BOOLEAN
    BY <1>2, Zenon DEF Restart
  <2>3. CommandStep
    BY <1>2 DEF Restart, CommandStep
  <2>4. QED
    BY <2>1, <2>2, <2>3
<1>3. CASE Upload
  <2>1. PICK a \in Addr, n \in 0 .. MaxData, img \in Images : Accepted(a, n, img)
    BY <1>3 DEF Upload
  <2>2. CommandStep
    BY <2>1 DEF Accepted, CommandStep
  <2>3. flash' = flash /\ pc' = "copy" /\ cmd' = "WRITE_FLASH"
    BY <2>1 DEF Accepted, WriteAccepted
  <2>4. finalizes' \in 0 .. 2 /\ fresh' \in BOOLEAN /\ cut' \in BOOLEAN
    BY <1>0, <2>1 DEF Accepted
  <2>5. QED
    BY <2>2, <2>3, <2>4
<1>4. CASE Finalize
  BY <1>0, <1>4 DEF Finalize, FinalizeFlash, CommandStep
<1>5. CASE (\E a \in Addr : WriteRejected(a)) /\ UNCHANGED attinyHistory
  BY <1>0, <1>5 DEF WriteRejected, CommandStep, attinyHistory
<1>6. CASE (CopyByte \/ CopyDone \/ CommitOk \/ CommitFailed) /\ UNCHANGED attinyHistory
  BY <1>0, <1>6 DEF CopyByte, CopyDone, CommitOk, CommitFailed, CommandStep, attinyHistory
<1>7. CASE LocalStep(ReadByte) /\ UNCHANGED attinyHistory
  BY <1>6, <1>7 DEF LocalStep, CompareStep
<1>8. QED
  BY <1>1, <1>2, <1>3, <1>4, <1>5, <1>7 DEF Next, WriteSteps

\* At power-on the types are right, and no local is in use.
LEMMA InitInv1 == Init => Inv1
<1> SUFFICES ASSUME Init PROVE Inv1
  OBVIOUS
<1>1. TypeInvariant /\ CallLocals
  BY RamInitLocals DEF Init
<1>2. flash \in [Cells -> Byte] /\ finalizes = 0 /\ pc = "idle" /\ cmd = "none"
  BY DEF Init, RamInit
<1>3. fresh \in BOOLEAN /\ cut \in BOOLEAN
  BY Zenon DEF Init
<1>4. QED
  BY <1>1, <1>2, <1>3 DEF Inv1, TypeOK, Locals, InRows

\* They are kept by the steps of writePage.
LEMMA StepInv1Write == Inv1 /\ WriteSteps => Inv1'
<1> SUFFICES ASSUME Inv1, WriteSteps PROVE Inv1'
  OBVIOUS
<1>0. TypeInvariant /\ CallLocals /\ finalizes \in 0 .. 2 /\ fresh \in BOOLEAN /\ cut \in BOOLEAN
  BY DEF Inv1, TypeOK, Locals
<1> USE Sizes, LastPageLemma
<1> USE DEF Inv1, TypeOK, TypeInvariant, Locals, CallLocals, InCommit, InRows, CommitLen
<1>1. CASE RejectVector \/ RejectRow
  <2>1. /\ UNCHANGED <<flash, buffers, eraseCount, cmd, reply, history, attinyHistory, commitV>>
        /\ pc' = "return" /\ err' \in {1, 2, 3} /\ InRows
    <3>1. InRows
      BY <1>1, ReadyInRows DEF RejectVector, RejectRow
    <3>2. QED
      BY <1>1, <3>1 DEF RejectVector, RejectRow, RowFailed, RowError
  <2>2. QED
    BY <2>1 DEF buffers, commitV, history, attinyHistory, PageStart, BufferIndex
<1>2. CASE EraseTrampoline
  <2>1. /\ pc = "row" /\ len > 0 /\ base = 0 /\ offset = 0 /\ InCommit
        /\ flash' \in [Cells -> Byte]
    BY <1>2, EraseTrampolineFlash
  <2>2. /\ UNCHANGED <<buffers, cmd, commitV, err, reply, history, finalizes, cut>>
        /\ pc' = "trampoline" /\ fresh' = TRUE /\ eraseCount' \in 0 .. MaxErase
    BY <1>0, <1>2 DEF EraseTrampoline, CountErase
  <2>3. QED
    BY <2>1, <2>2 DEF buffers, commitV, history, PageStart, BufferIndex
<1>3. CASE ProgramTrampoline
  <2>1. /\ pc = "trampoline" /\ len > 0 /\ base = 0 /\ offset = 0 /\ InCommit
        /\ flash' \in [Cells -> Byte]
        /\ writeBuffer' \in [0 .. FLASH_ERASE_SIZE - 1 -> Byte]
    BY <1>3, ProgramTrampolineFlash
  <2>2. /\ UNCHANGED <<nextWriteAddress, address, eraseCount, cmd, commitV, err, reply,
                       history, attinyHistory>>
        /\ pc' = "vector"
    BY <1>3 DEF ProgramTrampoline
  <2>3. QED
    BY <2>1, <2>2 DEF commitV, history, attinyHistory, PageStart, BufferIndex
<1>4. CASE ErasePage
  <2>1. /\ pc \in {"row", "vector"} /\ len > 0 /\ offset = 0 /\ base < LastPage /\ InCommit
        /\ flash' \in [Cells -> Byte]
    BY <1>4, EraseFlash
  <2>2. /\ UNCHANGED <<buffers, cmd, commitV, err, reply, history, attinyHistory>>
        /\ pc' = "program" /\ eraseCount' \in 0 .. MaxErase
    BY <1>0, <1>4 DEF ErasePage, CountErase
  <2>3. QED
    BY <2>1, <2>2 DEF buffers, commitV, history, attinyHistory, PageStart, BufferIndex
<1>5. CASE ProgramRow
  <2>1. /\ pc \in {"row", "program"} /\ len > 0 /\ base <= LastPage /\ InCommit /\ InRows
        /\ flash' \in [Cells -> Byte]
        /\ len' = len - RowLen /\ offset' = offset + RowLen
    BY <1>5, ProgramPlace, ProgramFlash
  <2>2. /\ UNCHANGED <<buffers, eraseCount, cmd, reply, history, attinyHistory, base, err>>
        /\ pc' = "row"
    BY <1>5 DEF ProgramRow, RowDone
  <2>3. /\ RowLen \in 1 .. FLASH_WRITE_SIZE /\ RowLen <= len
        /\ len - RowLen > 0 => RowLen = FLASH_WRITE_SIZE
        /\ offset \in Nat /\ len \in Nat /\ offset + len <= FLASH_ERASE_SIZE
    BY <2>1, RowPlace, Types
  <2>4. /\ len' \in 0 .. FLASH_ERASE_SIZE /\ offset' \in 0 .. FLASH_ERASE_SIZE
        /\ offset' + len' = offset + len
    BY <2>1, <2>3
  <2>5. len' > 0 => offset' % FLASH_WRITE_SIZE = 0
    <3>1. SUFFICES ASSUME len' > 0 PROVE offset' % FLASH_WRITE_SIZE = 0
      OBVIOUS
    <3>2. offset' = FLASH_WRITE_SIZE + offset /\ offset % FLASH_WRITE_SIZE = 0
      BY <2>1, <2>3, <3>1
    <3>3. FLASH_WRITE_SIZE % FLASH_WRITE_SIZE = 0
      BY ModOnce
    <3>4. offset \in Nat /\ FLASH_WRITE_SIZE \in Nat
      BY <2>3
    <3>5. QED
      BY <3>2, <3>3, <3>4, ModAdd
  <2>6. QED
    BY <2>1, <2>2, <2>3, <2>4, <2>5 DEF buffers, history, attinyHistory, PageStart, BufferIndex
<1>6. QED
  BY <1>1, <1>2, <1>3, <1>4, <1>5 DEF WriteSteps

\* Every step keeps the types and what the locals are worth.
LEMMA StepInv1 == Inv1 /\ [Next]_attinyVars => Inv1'
<1> SUFFICES ASSUME Inv1, [Next]_attinyVars PROVE Inv1'
  OBVIOUS
<1>0. /\ TypeInvariant /\ CallLocals /\ flash \in [Cells -> Byte]
      /\ finalizes \in 0 .. 2 /\ fresh \in BOOLEAN /\ cut \in BOOLEAN
  BY DEF Inv1, TypeOK, Locals
<1>1. CASE /\ CommandStep
           /\ flash' = flash
           /\ pc' \in {"idle", "copy", "commit"} \/ UNCHANGED vars
           /\ finalizes' \in 0 .. 2 /\ fresh' \in BOOLEAN /\ cut' \in BOOLEAN
           /\ cmd' = "FINALIZE_FLASH" => finalizes' > 0
  <2>1. TypeInvariant' /\ CallLocals'
    BY <1>0, <1>1, CommandStepLocals
  <2>2. CASE pc' \in {"idle", "copy", "commit"}
    BY <1>0, <1>1, <2>1, <2>2 DEF Inv1, TypeOK, Locals, InRows
  <2>3. CASE UNCHANGED vars
    BY <1>0, <1>1, <2>1, <2>3 DEF vars, Inv1, TypeOK, Locals, InRows
  <2>4. QED
    BY <1>1, <2>2, <2>3
<1>2. CASE CompareStep /\ UNCHANGED attinyHistory
  <2>1. TypeInvariant' /\ CallLocals'
    BY <1>0, <1>2, CompareSteps DEF CompareStep
  <2>2. flash' = flash /\ offset' = offset /\ cmd' = cmd
    BY <1>2 DEF CompareStep, CommitSkip, CommitStart, CommitDone, commitV
  <2>3. pc' = "return" \/ (pc' = "row" /\ offset = 0)
    BY <1>0, <1>2 DEF CompareStep, CommitSkip, CommitStart, CommitDone, CallLocals
  <2>4. 0 % FLASH_WRITE_SIZE = 0
    BY Sizes, ModSmall
  <2>5. QED
    BY <1>0, <1>2, <2>1, <2>2, <2>3, <2>4 DEF Inv1, TypeOK, Locals, InRows, attinyHistory
<1>3. QED
  BY <1>1, <1>2, StepKinds, StepInv1Write

\* The type invariant holds in every reachable state.
THEOREM TypeCorrect == Spec => []TypeOK
<1>1. Inv1 => TypeOK
  BY DEF Inv1
<1>2. QED
  BY InitInv1, StepInv1, <1>1, PTL DEF Spec

\* No step changes a cell of the bootloader.
THEOREM BootloaderKeptCorrect == Spec => BootloaderKept
<1>1. ASSUME Inv1, Next, NEW c \in trampolineStart + 2 .. FLASH_SIZE - 1
      PROVE  flash'[c] = flash[c]
  <2>1. c \in Cells /\ c \in Nat /\ c > trampolineStart + 1
    BY LastPageLemma DEF Cells
  <2>2. CASE EraseTrampoline
    BY <1>1, <2>1, <2>2, EraseTrampolineFlash, LastPageLemma
  <2>3. CASE ProgramTrampoline
    <3>1. c # trampolineStart /\ c # trampolineStart + 1
      BY <2>1, LastPageLemma
    <3>2. QED
      BY <1>1, <2>1, <2>3, <3>1, ProgramTrampolineFlash, Zenon
  <2>4. CASE ErasePage
    <3>1. c \notin base .. base + FLASH_ERASE_SIZE - 1
      BY <1>1, <2>1, <2>4, EraseFlash, Types, LastPageLemma, Sizes
    <3>2. QED
      BY <1>1, <2>1, <2>4, <3>1, EraseFlash
  <2>5. CASE ProgramRow
    <3>1. c \notin base + offset .. base + offset + WordBytes(RowLen) - 1
      <4> DEFINE n == WordBytes(RowLen)
      <4>1. n \in Int /\ base + offset + n <= trampolineStart /\ base \in Nat /\ offset \in Nat
        BY <1>1, <2>5, ProgramPlace, Types
      <4> HIDE DEF n
      <4>2. c \notin base + offset .. base + offset + n - 1
        BY <2>1, <4>1, LastPageLemma
      <4>3. QED
        BY <4>2 DEF n
    <3>2. QED
      BY <1>1, <2>1, <2>5, <3>1, ProgramFlash
  <2>6. CASE CommandStep /\ flash' = flash
    BY <2>6
  <2>7. CASE CompareStep \/ RejectVector \/ RejectRow
    BY <2>7 DEF CompareStep, CommitSkip, CommitStart, CommitDone, RejectVector, RejectRow
  <2>8. QED
    BY <1>1, <2>2, <2>3, <2>4, <2>5, <2>6, <2>7, StepKinds DEF WriteSteps
<1>2. Inv1 /\ [Next]_attinyVars =>
        [\A c \in trampolineStart + 2 .. FLASH_SIZE - 1 : flash'[c] = flash[c]]_attinyVars
  BY <1>1
<1>3. QED
  BY InitInv1, StepInv1, <1>2, PTL DEF Spec, BootloaderKept

-----------------------------------------------------------------------------
(***************************************************************************)
(* The reset vector of the bootloader.                                     *)
(***************************************************************************)
\* What is programmed was erased: a page of the application in the step before,
\* the trampoline too.
Erased ==
  /\ pc = "program" => \A i \in 0 .. FLASH_ERASE_SIZE - 1 : flash[base + i] = ERASED
  /\ pc = "trampoline" => flash[trampolineStart] = ERASED /\ flash[trampolineStart + 1] = ERASED

\* While page 0 has no reset vector the buffer holds it, unless a reset hits.
VectorHeld ==
  ~ cut =>
    /\ ~ (pc = "program" /\ base = 0) => ResetVector = BootVector
    /\ pc = "vector" \/ (pc = "program" /\ base = 0) =>
         writeBuffer[0] = BootVector[1] /\ writeBuffer[1] = BootVector[2]

\* The steps, sorted by what they do to flash and to the locals of writePage.
LEMMA Actions ==
  ASSUME [Next]_attinyVars
  PROVE  \/ Restart
         \/ Upload \/ Finalize
         \/ /\ CopyByte \/ CopyDone \/ CommitOk \/ CommitFailed
               \/ \E a \in Addr : WriteRejected(a)
            /\ UNCHANGED attinyHistory
         \/ CompareStep /\ UNCHANGED attinyHistory
         \/ RejectVector \/ RejectRow
         \/ EraseTrampoline \/ ProgramTrampoline \/ ErasePage \/ ProgramRow
         \/ UNCHANGED attinyVars
<1>1. CASE LocalStep(ReadByte) /\ UNCHANGED attinyHistory
  BY <1>1, Zenon DEF LocalStep, CompareStep
<1>2. CASE (\E a \in Addr : WriteRejected(a)) /\ UNCHANGED attinyHistory
  BY <1>2, Zenon
<1>3. QED
  BY <1>1, <1>2 DEF Next

\* How each place of writePage is reached.
LEMMA IntoPlaces ==
  ASSUME [Next]_attinyVars
  PROVE  /\ pc' = "program" => ErasePage \/ UNCHANGED attinyVars
         /\ pc' = "trampoline" => EraseTrampoline \/ UNCHANGED attinyVars
         /\ pc' = "vector" => ProgramTrampoline \/ UNCHANGED attinyVars
         /\ pc' = "row" => CommitStart(ReadByte) \/ ProgramRow \/ UNCHANGED attinyVars
<1>1. Next /\ pc' \in {"program", "trampoline", "vector", "row"} =>
        \/ CommitStart(ReadByte)
        \/ EraseTrampoline \/ ProgramTrampoline \/ ErasePage \/ ProgramRow
  BY DEF Next, Restart, Reset, Upload, Accepted, WriteRejected, WriteAccepted, Finalize,
         FinalizeFlash, LocalStep, CopyByte, CopyDone, CommitSkip, CommitDone, CommitOk,
         CommitFailed, RejectVector, RejectRow, RowFailed
<1>2. CommitStart(ReadByte) => pc' = "row"
  BY DEF CommitStart
<1>3. EraseTrampoline => pc' = "trampoline"
  BY DEF EraseTrampoline
<1>4. ProgramTrampoline => pc' = "vector"
  BY DEF ProgramTrampoline
<1>5. ErasePage => pc' = "program"
  BY DEF ErasePage
<1>6. ProgramRow => pc' = "row"
  BY DEF ProgramRow, RowDone
<1>7. QED
  BY <1>1, <1>2, <1>3, <1>4, <1>5, <1>6

\* Only an erase leads to the places where flash is known to be erased.
LEMMA StepErased == Inv1 /\ Erased /\ [Next]_attinyVars => Erased'
<1> SUFFICES ASSUME Inv1, Erased, [Next]_attinyVars PROVE Erased'
  OBVIOUS
<1>1. CASE UNCHANGED attinyVars
  BY <1>1 DEF attinyVars, vars, Erased
<1>2. CASE ErasePage
  <2>1. /\ base + FLASH_ERASE_SIZE <= LastPage /\ pc' = "program" /\ base' = base
        /\ \A c \in Cells :
             flash'[c] = IF c \in base .. base + FLASH_ERASE_SIZE - 1 THEN ERASED ELSE flash[c]
    BY <1>2, EraseFlash DEF ErasePage, commitV
  <2>2. ASSUME NEW i \in 0 .. FLASH_ERASE_SIZE - 1
        PROVE  flash'[base + i] = ERASED
    <3>1. base + i \in Cells /\ base + i \in base .. base + FLASH_ERASE_SIZE - 1
      BY <2>1, Types, LastPageLemma, Sizes DEF Cells
    <3>2. QED
      BY <2>1, <3>1
  <2>3. QED
    BY <2>1, <2>2 DEF Erased
<1>3. CASE EraseTrampoline
  <2>1. /\ pc' = "trampoline"
        /\ \A c \in Cells :
              flash'[c] = IF c \in LastPage .. trampolineStart + 1 THEN ERASED ELSE flash[c]
    BY <1>3, EraseTrampolineFlash DEF EraseTrampoline
  <2>2. /\ trampolineStart \in Cells /\ trampolineStart + 1 \in Cells
        /\ trampolineStart \in LastPage .. trampolineStart + 1
        /\ trampolineStart + 1 \in LastPage .. trampolineStart + 1
    BY LastPageLemma, Sizes DEF Cells
  <2>3. QED
    BY <2>1, <2>2 DEF Erased
<1>4. QED
  BY <1>1, <1>2, <1>3, IntoPlaces DEF Erased

\* The reset vector is written back before any step but the one that programs
\* the first row of page 0, or a reset.
LEMMA StepVectorHeld == Inv1 /\ Erased /\ VectorHeld /\ [Next]_attinyVars => VectorHeld'
<1> SUFFICES ASSUME Inv1, Erased, VectorHeld, [Next]_attinyVars, ~ cut' PROVE VectorHeld'
  BY DEF VectorHeld
<1>0. /\ 0 \in Cells /\ 1 \in Cells /\ 0 < LastPage /\ 1 < LastPage
      /\ 0 \in 0 .. FLASH_ERASE_SIZE - 1 /\ 1 \in 0 .. FLASH_ERASE_SIZE - 1
      /\ BootVector[1] \in Byte /\ BootVector[2] \in Byte
      /\ BootVector = <<BootVector[1], BootVector[2]>>
  BY LastPageLemma, Sizes, WordAssumption DEF Cells
<1>1. CASE EraseTrampoline
  <2>1. pc = "row" /\ pc' = "trampoline" /\ cut' = cut
    BY <1>1 DEF EraseTrampoline, AtRow
  <2>2. 0 \notin LastPage .. trampolineStart + 1 /\ 1 \notin LastPage .. trampolineStart + 1
    BY <1>0, LastPageLemma
  <2>3. flash'[0] = flash[0] /\ flash'[1] = flash[1]
    BY <1>0, <1>1, <2>2, EraseTrampolineFlash, Zenon
  <2>4. QED
    BY <2>1, <2>3 DEF VectorHeld, ResetVector
<1>2. CASE ProgramTrampoline
  <2>1. /\ pc = "trampoline" /\ pc' = "vector" /\ cut' = cut
        /\ writeBuffer' = [writeBuffer EXCEPT ![0] = flash[0], ![1] = flash[1]]
    BY <1>2, ProgramTrampolineFlash DEF ProgramTrampoline, attinyHistory
  <2>2. flash'[0] = flash[0] /\ flash'[1] = flash[1]
    <3>1. 0 # trampolineStart /\ 1 # trampolineStart /\ 0 # trampolineStart + 1
          /\ 1 # trampolineStart + 1
      BY <1>0, LastPageLemma, Sizes
    <3>2. QED
      BY <1>0, <1>2, <3>1, ProgramTrampolineFlash, Zenon
  <2>3. <<flash[0], flash[1]>> = BootVector
    BY <2>1 DEF VectorHeld, ResetVector
  <2>4. writeBuffer'[0] = flash[0] /\ writeBuffer'[1] = flash[1]
    BY <1>0, <2>1, Types
  <2>5. flash[0] = BootVector[1] /\ flash[1] = BootVector[2]
    BY <2>3
  <2>6. QED
    BY <2>1, <2>2, <2>3, <2>4, <2>5 DEF VectorHeld, ResetVector
<1>3. CASE ErasePage
  <2>1. /\ pc' = "program" /\ cut' = cut /\ base' = base /\ writeBuffer' = writeBuffer
        /\ pc \in {"row", "vector"} /\ (pc = "row" => base # 0)
        /\ pc = "vector" => base = 0
    BY <1>3, EraseFlash DEF ErasePage, attinyHistory, buffers, commitV, Inv1, Locals
  <2>2. CASE base = 0
    BY <2>1, <2>2 DEF VectorHeld
  <2>3. CASE base # 0
    <3>1. 0 \notin base .. base + FLASH_ERASE_SIZE - 1 /\ 1 \notin base .. base + FLASH_ERASE_SIZE - 1
      <4>1. /\ base \in Nat /\ base > 0 /\ base % FLASH_ERASE_SIZE = 0
        BY <1>3, <2>3, Types, EraseFlash, RowPlace
      <4>2. 0 \in Nat /\ 0 % FLASH_ERASE_SIZE = 0
        BY Sizes, ModSmall
      <4>3. 0 + FLASH_ERASE_SIZE <= base
        BY <4>1, <4>2, Sizes, ModGap, Zenon
      <4>4. QED
        BY <4>1, <4>3, LastPageLemma, Sizes
    <3>2. flash'[0] = flash[0] /\ flash'[1] = flash[1]
      BY <1>0, <1>3, <3>1, EraseFlash
    <3>3. QED
      BY <2>1, <2>3, <3>2 DEF VectorHeld, ResetVector
  <2>4. QED
    BY <2>2, <2>3
<1>4. CASE ProgramRow
  <2> DEFINE n == WordBytes(RowLen)
  <2>1. /\ pc' = "row" /\ cut' = cut /\ base' = base
        /\ pc \in {"row", "program"} /\ n \in 2 .. FLASH_WRITE_SIZE
        /\ pc = "row" => offset > 0 \/ base = LastPage
        /\ pc = "program" => offset = 0
        /\ \A c \in Cells :
              flash'[c] = IF c \in base + offset .. base + offset + n - 1
                            THEN Burn[<<flash[c], writeBuffer[c - base]>>] ELSE flash[c]
    BY <1>4, ProgramPlace, ProgramFlash DEF ProgramRow, RowDone, attinyHistory, Inv1, Locals
  <2> HIDE DEF n
  <2>2. CASE pc = "program" /\ base = 0
    <3>1. /\ 0 \in base + offset .. base + offset + n - 1
          /\ 1 \in base + offset .. base + offset + n - 1
          /\ 0 - base = 0 /\ 1 - base = 1
      BY <2>1, <2>2
    <3>2. flash[0] = ERASED /\ flash[1] = ERASED
      <4>1. base + 0 = 0 /\ base + 1 = 1
        BY <2>2
      <4>2. QED
        BY <1>0, <2>2, <4>1 DEF Erased
    <3>3. writeBuffer[0] = BootVector[1] /\ writeBuffer[1] = BootVector[2]
      BY <2>1, <2>2 DEF VectorHeld
    <3>4. flash'[0] = BootVector[1]
      <4>1. flash'[0] = Burn[<<flash[0], writeBuffer[0 - base]>>]
        BY <1>0, <2>1, <3>1, Zenon
      <4>2. flash'[0] = Burn[<<ERASED, BootVector[1]>>]
        BY <3>1, <3>2, <3>3, <4>1, Zenon
      <4>3. QED
        BY <1>0, <4>2, BurnAssumption, Zenon
    <3>5. flash'[1] = BootVector[2]
      <4>1. flash'[1] = Burn[<<flash[1], writeBuffer[1 - base]>>]
        BY <1>0, <2>1, <3>1, Zenon
      <4>2. flash'[1] = Burn[<<ERASED, BootVector[2]>>]
        BY <3>1, <3>2, <3>3, <4>1, Zenon
      <4>3. QED
        BY <1>0, <4>2, BurnAssumption, Zenon
    <3>6. QED
      BY <1>0, <2>1, <3>4, <3>5 DEF VectorHeld, ResetVector
  <2>3. CASE ~ (pc = "program" /\ base = 0)
    <3>1. /\ base \in Nat /\ base % FLASH_ERASE_SIZE = 0 /\ offset \in Nat
          /\ offset > 0 => offset >= 2
      <4>1. /\ base \in Nat /\ base % FLASH_ERASE_SIZE = 0 /\ offset \in Nat
            /\ offset % FLASH_WRITE_SIZE = 0
        BY <1>4, Types, ProgramPlace, RowPlace DEF Inv1, Locals
      <4>2. offset > 0 => offset >= FLASH_WRITE_SIZE
        <5>1. 0 \in Nat /\ 0 % FLASH_WRITE_SIZE = 0
          BY Sizes, ModSmall
        <5>2. SUFFICES ASSUME 0 < offset PROVE 0 + FLASH_WRITE_SIZE <= offset
          BY <4>1, Sizes
        <5>3. QED
          BY <4>1, <5>1, <5>2, Sizes, ModGap, Zenon
      <4>3. QED
        BY <4>1, <4>2, LastPageLemma, Sizes
    <3>2. base + offset >= 2
      <4>1. CASE base = 0
        BY <2>1, <2>3, <3>1, <4>1, LastPageLemma, Sizes
      <4>2. CASE base # 0
        <5>1. 0 \in Nat /\ 0 % FLASH_ERASE_SIZE = 0 /\ 0 < base
          BY <3>1, <4>2, Sizes, ModSmall
        <5>2. 0 + FLASH_ERASE_SIZE <= base
          BY <3>1, <5>1, Sizes, ModGap, Zenon
        <5>3. QED
          BY <3>1, <5>2, LastPageLemma, Sizes
      <4>3. QED
        BY <4>1, <4>2
    <3>3. /\ 0 \notin base + offset .. base + offset + n - 1
          /\ 1 \notin base + offset .. base + offset + n - 1
      BY <2>1, <3>1, <3>2
    <3>4. flash'[0] = flash[0] /\ flash'[1] = flash[1]
      BY <1>0, <2>1, <3>3, Zenon
    <3>5. QED
      BY <2>1, <2>3, <3>4 DEF VectorHeld, ResetVector
  <2>4. QED
    BY <2>2, <2>3
<1>5. CASE CompareStep /\ UNCHANGED attinyHistory
  <2>1. /\ flash' = flash /\ cut' = cut /\ pc \in {"commit", "row"} /\ pc' \in {"row", "return"}
    BY <1>5 DEF CompareStep, CommitSkip, CommitStart, CommitDone, attinyHistory
  <2>2. QED
    BY <2>1 DEF VectorHeld, ResetVector
<1>6. CASE RejectVector \/ RejectRow
  <2>1. flash' = flash /\ cut' = cut /\ pc \in {"row", "vector"} /\ pc' = "return"
    BY <1>6 DEF RejectVector, RejectRow, RowReady, AtRow, RowFailed, attinyHistory
  <2>2. QED
    BY <2>1 DEF VectorHeld, ResetVector
<1>7. CASE UNCHANGED attinyVars
  BY <1>7 DEF attinyVars, attinyHistory, vars, VectorHeld, ResetVector
<1>8. CASE Restart
  <2>1. /\ flash' = flash /\ pc' = "idle" /\ ~ cut /\ ~ (pc = "program" /\ RowAddress = 0)
    BY <1>8 DEF Restart, Reset
  <2>2. ~ (pc = "program" /\ base = 0)
    <3>1. SUFFICES ASSUME pc = "program", base = 0 PROVE FALSE
      OBVIOUS
    <3>2. RowAddress = base + offset /\ offset = 0
      BY <3>1, ReadyInRows, RowPlace DEF Inv1, Locals
    <3>3. QED
      BY <2>1, <3>1, <3>2
  <2>3. QED
    BY <2>1, <2>2 DEF VectorHeld, ResetVector
<1>9. CASE /\ flash' = flash /\ cut' = cut
           /\ pc \in {"idle", "copy", "return"} /\ pc' \in {"idle", "copy", "commit"}
  BY <1>9 DEF VectorHeld, ResetVector
<1>10. CASE \/ Upload \/ Finalize
            \/ /\ CopyByte \/ CopyDone \/ CommitOk \/ CommitFailed
                  \/ \E a \in Addr : WriteRejected(a)
               /\ UNCHANGED attinyHistory
  BY <1>9, <1>10 DEF Upload, Accepted, WriteAccepted, Finalize, FinalizeFlash, CopyByte, CopyDone,
     CommitOk, CommitFailed, WriteRejected, attinyHistory
<1>11. QED
  BY <1>1, <1>2, <1>3, <1>4, <1>5, <1>6, <1>7, <1>8, <1>10, Actions, Zenon

\* The reset vector of the bootloader is in flash at every moment except while
\* page 0 is erased, unless a reset hit exactly then.
THEOREM ResetVectorKeptCorrect == Spec => []ResetVectorKept
<1> DEFINE I == Inv1 /\ Erased /\ VectorHeld
<1>1. Init => I
  <2> SUFFICES ASSUME Init PROVE I
    OBVIOUS
  <2>1. pc = "idle" /\ ResetVector = BootVector
    BY DEF Init, RamInit
  <2>2. QED
    BY <2>1, InitInv1 DEF Erased, VectorHeld
<1>2. I /\ [Next]_attinyVars => I'
  BY StepInv1, StepErased, StepVectorHeld
<1>3. I => ResetVectorKept
  <2> SUFFICES ASSUME I, ~ cut, pc = "program", base = 0 PROVE RowAddress = 0
    BY DEF VectorHeld, ResetVectorKept
  <2>1. RowAddress = base + offset /\ offset = 0
    BY ReadyInRows, RowPlace DEF Inv1, Locals
  <2>2. QED
    BY <2>1
<1>4. QED
  BY <1>1, <1>2, <1>3, PTL DEF Spec

-----------------------------------------------------------------------------
(***************************************************************************)
(* What an upload has stored.  Promises about the reset vector and the     *)
(* last page are made for uploads that are finalized once, at their end.   *)
(***************************************************************************)
\* The upload has not been finalized before.
Once == clean /\ (finalizes = 0 \/ (finalizes = 1 /\ cmd = "FINALIZE_FLASH"))

\* It has erased the last page, too.
Clear == Once /\ fresh

\* Every step goes on with a command, or with the page it commits.
LEMMA Steps ==
  ASSUME Inv1, [Next]_attinyVars
  PROVE  /\ TypeInvariant /\ CallLocals
         /\ (CommandStep /\ flash' = flash) \/ (CommitStep /\ UNCHANGED finalizes)
         /\ WriteSteps => CommitStep /\ UNCHANGED finalizes
         /\ CompareStep => CommitStep /\ flash' = flash
<1>1. TypeInvariant /\ CallLocals
  BY DEF Inv1, TypeOK, Locals
<1>2. CompareStep => CommitStep /\ flash' = flash
  <2>1. CompareStep => flash' = flash
    BY DEF CompareStep, CommitSkip, CommitStart, CommitDone
  <2>2. QED
    BY <1>1, <2>1, CompareSteps DEF CompareStep
<1>3. WriteSteps => CommitStep /\ UNCHANGED finalizes
  <2>1. ASSUME RejectVector \/ RejectRow \/ EraseTrampoline \/ ProgramTrampoline \/ ErasePage
        PROVE  CommitStep /\ UNCHANGED finalizes
    <3>1. InRows
      BY <2>1, ReadyInRows DEF RejectVector, RejectRow, EraseTrampoline, ProgramTrampoline, ErasePage
    <3>2. /\ UNCHANGED <<base, len, offset, nextWriteAddress, address, cmd, received, clean, finalizes>>
          /\ pc' \in {"return", "trampoline", "vector", "program"}
      BY <2>1 DEF RejectVector, RejectRow, EraseTrampoline, ProgramTrampoline, ErasePage,
         RowFailed, buffers, commitV, history, attinyHistory
    <3>3. QED
      BY <3>1, <3>2 DEF CommitStep, InRows, InCommit, CommitLen
  <2>2. ASSUME ProgramRow PROVE CommitStep /\ UNCHANGED finalizes
    <3>1. InRows /\ len > 0
      BY <2>2, ProgramPlace
    <3>2. RowLen \in Nat
      BY <3>1, RowPlace, Sizes
    <3>3. /\ UNCHANGED <<base, nextWriteAddress, address, cmd, received, clean, finalizes>>
          /\ len' = len - RowLen /\ offset' = offset + RowLen /\ pc' = "row"
      BY <2>2 DEF ProgramRow, RowDone, buffers, history, attinyHistory
    <3>4. CommitLen' = CommitLen
      BY <3>2, <3>3, Types DEF CommitLen
    <3>5. QED
      BY <3>1, <3>3, <3>4 DEF CommitStep, InRows, InCommit
  <2>3. QED
    BY <2>1, <2>2 DEF WriteSteps
<1>4. QED
  BY <1>1, <1>2, <1>3, StepKinds DEF attinyHistory

\* The first upload after a restart or a write at 0 is finalized only once
\* up to its first FINALIZE_FLASH, and the last page is erased with page 0.
LEMMA OnceKept ==
  ASSUME Inv1, [Next]_attinyVars, Once'
  PROVE  \/ (Restart \/ StartUpload) /\ ~ fresh'
         \/ /\ Once
            /\ finalizes' = finalizes \/ (Finalize /\ finalizes = 0 /\ finalizes' = 1)
            /\ fresh' => fresh \/ EraseTrampoline
<1>1. CASE Restart
  BY <1>1 DEF Restart
<1>2. CASE Upload
  <2>1. PICK a \in Addr, n \in 0 .. MaxData, img \in Images : Accepted(a, n, img)
    BY <1>2 DEF Upload
  <2>2. CASE a = 0
    <3>1. ~ fresh'
      BY <2>1, <2>2 DEF Accepted
    <3>2. StartUpload
      BY <2>1, <2>2 DEF Accepted, StartUpload
    <3>3. QED
      BY <3>1, <3>2
  <2>3. CASE a # 0
    <3>1. /\ finalizes' = finalizes /\ cmd' = "WRITE_FLASH"
          /\ clean' => clean
      BY <2>1, <2>3 DEF Accepted, WriteAccepted
    <3>2. fresh' => fresh
      BY <2>1 DEF Accepted
    <3>3. QED
      BY <3>1, <3>2 DEF Once
  <2>4. QED
    BY <2>2, <2>3
<1>3. CASE Finalize
  <2>1. /\ finalizes' = IF finalizes < 2 THEN finalizes + 1 ELSE 2
        /\ fresh' = fresh /\ clean' = clean
    BY <1>3 DEF Finalize, FinalizeFlash, history
  <2>2. finalizes \in Nat
    BY Types
  <2>3. finalizes' = 1 /\ finalizes = 0
    BY <2>1, <2>2 DEF Once
  <2>4. QED
    BY <1>3, <2>1, <2>3 DEF Once
<1>4. CASE (\E a \in Addr : WriteRejected(a)) /\ UNCHANGED attinyHistory
  BY <1>4 DEF WriteRejected, attinyHistory, history, Once
<1>5. CASE (CopyByte \/ CopyDone \/ CommitOk \/ CommitFailed) /\ UNCHANGED attinyHistory
  BY <1>5 DEF CopyByte, CopyDone, CommitOk, CommitFailed, attinyHistory, history, Once
<1>6. CASE CompareStep /\ UNCHANGED attinyHistory
  BY <1>6 DEF CompareStep, CommitSkip, CommitStart, CommitDone, attinyHistory, history, Once
<1>7. CASE WriteSteps
  <2>1. fresh' => fresh \/ EraseTrampoline
    BY <1>7 DEF WriteSteps, RejectVector, ProgramTrampoline, RejectRow, ErasePage, ProgramRow,
       attinyHistory
  <2>2. UNCHANGED <<finalizes, clean, cmd>>
    BY <1>7, Steps DEF CommitStep
  <2>3. QED
    BY <2>1, <2>2 DEF Once
<1>8. CASE UNCHANGED attinyVars
  BY <1>8 DEF attinyVars, attinyHistory, vars, Once
<1>9. QED
  BY <1>1, <1>2, <1>3, <1>4, <1>5, <1>6, <1>7, <1>8, Actions DEF WriteSteps

\* The buffer holds what was received of its page, but for the reset vector.
Buffered == BufferedFrom(2)

\* The page under commit is erased before its first row: the last page is only
\* with page 0.
Firm == base # LastPage \/ Clear

\* The rows done so far are in flash, the rest of the page is erased.
RowsDone ==
  pc = "row" /\ offset > 0 /\ Firm =>
    /\ \A i \in 0 .. offset - 1 : flash[base + i] = writeBuffer[i]
    /\ len > 0 => \A i \in offset .. FLASH_ERASE_SIZE - 1 :
                    base + i < trampolineStart => flash[base + i] = ERASED

\* When commitToFlash returns 0, the page reads as the buffer.
PageDone ==
  pc = "return" /\ err = 0 /\ Firm =>
    \A i \in 0 .. CommitLen - 1 : base + i > 1 => ReadByte[AppAddress(base + i)] = writeBuffer[i]

\* What the last page has not been given yet is erased.
LastErased ==
  Clear /\ Bound <= LastPage
    /\ ~ (InCommit /\ base = LastPage /\ (pc = "return" \/ offset > 0))
    /\ ~ (pc = "idle" /\ finalizes = 1) =>
    \A c \in LastPage .. trampolineStart - 1 : flash[c] = ERASED

\* Where the promise holds.
Promised(i) == ~ InTrampolinePage(i) \/ Clear

\* The pages behind the buffer are in flash.
Behind == clean => \A i \in 2 .. Bound - 1 : Promised(i) => Stored(ReadByte, i)

\* So is all of an upload that was confirmed.
Durable ==
  UploadConfirmed => \A i \in 2 .. nextWriteAddress - 1 : Promised(i) => Stored(ReadByte, i)

\* The cells below the trampoline that a step leaves alone.
LEMMA FlashBehind ==
  ASSUME Inv1, [Next]_attinyVars, NEW c \in Cells,
         InCommit => c < base,
         c < LastPage \/ ~ EraseTrampoline,
         c # trampolineStart, c # trampolineStart + 1
  PROVE  flash'[c] = flash[c]
<1>0. c \in Nat /\ base \in Nat /\ offset \in Nat
  BY Types DEF Cells
<1>1. CASE EraseTrampoline
  <2>1. c \notin LastPage .. trampolineStart + 1
    BY <1>0, <1>1, LastPageLemma
  <2>2. QED
    BY <1>1, <2>1, EraseTrampolineFlash
<1>2. CASE ProgramTrampoline
  BY <1>2, ProgramTrampolineFlash, Zenon
<1>3. CASE ErasePage
  <2>1. c \notin base .. base + FLASH_ERASE_SIZE - 1
    BY <1>0, <1>3, EraseFlash
  <2>2. QED
    BY <1>3, <2>1, EraseFlash
<1>4. CASE ProgramRow
  <2>1. InCommit
    BY <1>4, ProgramPlace
  <2>2. c \notin base + offset .. base + offset + WordBytes(RowLen) - 1
    BY <1>0, <2>1
  <2>3. QED
    BY <1>4, <2>2, ProgramFlash
<1>5. CASE CommandStep /\ flash' = flash
  BY <1>5
<1>6. CASE CompareStep \/ RejectVector \/ RejectRow
  BY <1>6 DEF CompareStep, CommitSkip, CommitStart, CommitDone, RejectVector, RejectRow
<1>7. QED
  BY <1>1, <1>2, <1>3, <1>4, <1>5, <1>6, StepKinds DEF WriteSteps

\* In the rows of a page, only an erase of the trampoline makes it firm.
LEMMA FirmKept ==
  ASSUME Inv1, [Next]_attinyVars, InCommit, base' = base, ~ EraseTrampoline, Firm'
  PROVE  Firm
  BY OnceKept DEF Firm, Clear

\* A row that writePage programs lies on erased cells, behind the rows done.
LEMMA BeforeProgram ==
  ASSUME Inv1, Erased, RowsDone, LastErased, ProgramRow, Firm
  PROVE  /\ \A i \in 0 .. offset - 1 : flash[base + i] = writeBuffer[i]
         /\ \A i \in offset .. FLASH_ERASE_SIZE - 1 :
              base + i < trampolineStart => flash[base + i] = ERASED
<1>1. /\ pc \in {"row", "program"} /\ len > 0 /\ base <= LastPage /\ InCommit
      /\ pc = "row" => offset > 0 \/ base = LastPage
  BY ProgramPlace
<1>2. CASE pc = "program"
  <2>1. offset = 0
    BY <1>2 DEF Inv1, Locals
  <2>2. QED
    BY <1>2, <2>1 DEF Erased
<1>3. CASE pc = "row" /\ offset > 0
  BY <1>1, <1>3 DEF RowsDone
<1>4. CASE pc = "row" /\ offset = 0 /\ base = LastPage
  <2>1. Clear /\ Bound = LastPage
    BY <1>1, <1>4 DEF Firm, Bound
  <2>2. Bound <= LastPage
    BY <2>1, LastPageLemma
  <2>3. \A c \in LastPage .. trampolineStart - 1 : flash[c] = ERASED
    BY <1>4, <2>1, <2>2 DEF LastErased
  <2>4. ASSUME NEW i \in offset .. FLASH_ERASE_SIZE - 1, base + i < trampolineStart
        PROVE  flash[base + i] = ERASED
    <3>1. base + i \in LastPage .. trampolineStart - 1
      BY <1>4, <2>4, LastPageLemma, Sizes
    <3>2. QED
      BY <2>3, <3>1
  <2>5. \A i \in 0 .. offset - 1 : FALSE
    BY <1>4
  <2>6. QED
    BY <2>4, <2>5
<1>5. offset \in Nat
  BY Types
<1>6. QED
  BY <1>1, <1>2, <1>3, <1>4, <1>5

\* Programming a row puts its bytes behind the rows done, and leaves the rest
\* of the page.
LEMMA AfterProgram ==
  ASSUME Inv1, Erased, RowsDone, LastErased, ProgramRow, Firm
  PROVE  /\ \A i \in 0 .. offset + RowLen - 1 : flash'[base + i] = writeBuffer[i]
         /\ len - RowLen > 0 =>
              \A i \in offset + RowLen .. FLASH_ERASE_SIZE - 1 :
                base + i < trampolineStart => flash'[base + i] = ERASED
<1> DEFINE n == WordBytes(RowLen)
<1>1. /\ InRows /\ len > 0 /\ n \in 2 .. FLASH_WRITE_SIZE /\ RowLen <= n
      /\ base + offset + n <= trampolineStart
  BY ProgramPlace
<1>2. /\ offset \in 0 .. FLASH_ERASE_SIZE - 1
      /\ offset + len <= FLASH_ERASE_SIZE
      /\ RowLen \in 1 .. FLASH_WRITE_SIZE /\ RowLen <= len
      /\ len - RowLen > 0 => RowLen = FLASH_WRITE_SIZE
  BY <1>1, RowPlace
<1>3. len - RowLen > 0 => RowLen = n
  BY <1>1, <1>2, Sizes
<1>4. \A c \in Cells :
         flash'[c] = IF c \in base + offset .. base + offset + n - 1
                       THEN Burn[<<flash[c], writeBuffer[c - base]>>] ELSE flash[c]
  BY ProgramFlash
<1> HIDE DEF n
<1>5. /\ base \in Nat /\ len \in Nat /\ RowLen \in Nat /\ n \in Nat
  BY <1>1, <1>2, Types, Sizes
<1>6. ASSUME NEW i \in 0 .. offset + RowLen - 1 PROVE flash'[base + i] = writeBuffer[i]
  <2>1. base + i \in Cells /\ (base + i) - base = i /\ i \in 0 .. FLASH_ERASE_SIZE - 1
    BY <1>1, <1>2, <1>5, LastPageLemma, Sizes DEF Cells
  <2>2. CASE i < offset
    <3>1. base + i \notin base + offset .. base + offset + n - 1
      BY <1>2, <1>5, <2>2
    <3>2. i \in 0 .. offset - 1
      BY <1>2, <2>2
    <3>3. flash[base + i] = writeBuffer[i]
      BY <3>2, BeforeProgram
    <3>4. QED
      BY <1>4, <2>1, <3>1, <3>3
  <2>3. CASE i >= offset
    <3>1. base + i \in base + offset .. base + offset + n - 1
      BY <1>1, <1>2, <1>5, <2>3
    <3>2. i \in offset .. FLASH_ERASE_SIZE - 1 /\ base + i < trampolineStart
      BY <1>1, <1>2, <1>5, <2>1, <2>3, LastPageLemma
    <3>3. flash[base + i] = ERASED
      BY <3>2, BeforeProgram
    <3>4. writeBuffer[i] \in Byte
      BY <2>1, Types
    <3>5. Burn[<<ERASED, writeBuffer[i]>>] = writeBuffer[i]
      BY <3>4, BurnAssumption
    <3>6. QED
      BY <1>4, <2>1, <3>1, <3>3, <3>5
  <2>4. QED
    BY <1>2, <2>2, <2>3
<1>7. ASSUME len - RowLen > 0, NEW i \in offset + RowLen .. FLASH_ERASE_SIZE - 1,
             base + i < trampolineStart
      PROVE  flash'[base + i] = ERASED
  <2>1. /\ base + i \in Cells /\ base + i \notin base + offset .. base + offset + n - 1
        /\ i \in offset .. FLASH_ERASE_SIZE - 1
    BY <1>2, <1>3, <1>5, <1>7, LastPageLemma, Sizes DEF Cells
  <2>2. flash[base + i] = ERASED
    BY <1>7, <2>1, BeforeProgram
  <2>3. QED
    BY <1>4, <2>1, <2>2
<1>8. QED
  BY <1>6, <1>7

\* Row after row, the page is filled.
LEMMA StepRowsDone ==
  Inv1 /\ Erased /\ RowsDone /\ LastErased /\ [Next]_attinyVars => RowsDone'
<1> SUFFICES ASSUME Inv1, Erased, RowsDone, LastErased, [Next]_attinyVars,
                    pc' = "row", offset' > 0, Firm'
             PROVE  /\ \A i \in 0 .. offset' - 1 : flash'[base' + i] = writeBuffer'[i]
                    /\ len' > 0 => \A i \in offset' .. FLASH_ERASE_SIZE - 1 :
                         base' + i < trampolineStart => flash'[base' + i] = ERASED
  BY DEF RowsDone
<1>1. CASE CommitStart(ReadByte)
  <2>1. offset' = offset /\ pc = "commit"
    BY <1>1 DEF CommitStart, commitV
  <2>2. QED
    BY <2>1 DEF Inv1, Locals, CallLocals
<1>2. CASE ProgramRow
  <2>1. /\ base' = base /\ offset' = offset + RowLen /\ len' = len - RowLen
        /\ writeBuffer' = writeBuffer
    BY <1>2 DEF ProgramRow, RowDone, buffers
  <2>2. ~ EraseTrampoline
    BY DEF EraseTrampoline
  <2>3. InCommit
    BY <1>2, ProgramPlace
  <2>4. Firm
    BY <2>1, <2>2, <2>3, FirmKept
  <2>5. /\ \A i \in 0 .. offset + RowLen - 1 : flash'[base + i] = writeBuffer[i]
        /\ len - RowLen > 0 =>
             \A i \in offset + RowLen .. FLASH_ERASE_SIZE - 1 :
               base + i < trampolineStart => flash'[base + i] = ERASED
    BY <1>2, <2>4, AfterProgram, Zenon
  <2>6. offset' - 1 = offset + RowLen - 1
    <3>1. InRows /\ len > 0
      BY <1>2, ProgramPlace
    <3>2. RowLen \in 1 .. FLASH_WRITE_SIZE
      BY <3>1, RowPlace
    <3>3. QED
      BY <2>1, <3>2, Types, Sizes, SMTT(60)
  <2>7. QED
    BY <2>1, <2>5, <2>6, Zenon
<1>3. CASE UNCHANGED attinyVars
  BY <1>3 DEF attinyVars, attinyHistory, vars, RowsDone, Firm, Clear, Once
<1>4. QED
  BY <1>1, <1>2, <1>3, IntoPlaces

\* How commitToFlash comes to return 0.
LEMMA IntoReturn ==
  ASSUME Inv1, [Next]_attinyVars, pc' = "return", err' = 0
  PROVE  CommitSkip(ReadByte) \/ CommitDone \/ UNCHANGED attinyVars
<1>1. ~ RejectVector /\ ~ RejectRow
  BY DEF RejectVector, RejectRow, RowFailed
<1>2. ~ EraseTrampoline /\ ~ ProgramTrampoline /\ ~ ErasePage /\ ~ ProgramRow
  BY DEF EraseTrampoline, ProgramTrampoline, ErasePage, ProgramRow, RowDone
<1>3. ~ Restart /\ ~ Upload /\ ~ Finalize
  BY DEF Restart, Reset, Upload, Accepted, WriteAccepted, Finalize, FinalizeFlash
<1>4. /\ ~ CopyByte /\ ~ CopyDone /\ ~ CommitOk /\ ~ CommitFailed
      /\ \A a \in Addr : ~ WriteRejected(a)
  BY DEF CopyByte, CopyDone, CommitOk, CommitFailed, WriteRejected
<1>5. ~ CommitStart(ReadByte)
  BY DEF CommitStart
<1>6. QED
  BY <1>1, <1>2, <1>3, <1>4, <1>5, Actions DEF CompareStep

\* When commitToFlash returns 0, the whole page equals the buffer: after the
\* loop because all rows are done, and before it because nothing differed.
LEMMA StepPageDone == Inv1 /\ RowsDone /\ PageDone /\ [Next]_attinyVars => PageDone'
<1> SUFFICES ASSUME Inv1, RowsDone, PageDone, [Next]_attinyVars, pc' = "return", err' = 0, Firm'
             PROVE  \A i \in 0 .. CommitLen' - 1 :
                      base' + i > 1 => ReadByte'[AppAddress(base + i)'] = writeBuffer'[i]
  BY DEF PageDone, AppAddress
<1>1. CASE CommitSkip(ReadByte)
  <2>1. /\ UNCHANGED <<flash, writeBuffer, base, offset, len>>
        /\ offset = 0 /\ len \in Nat
        /\ \A i \in 0 .. len - 1 : writeBuffer[i] = ReadByte[AppAddress(base + i)]
    BY <1>1, Types DEF CommitSkip, EqualToFlash, buffers, commitV, Inv1, Locals, CallLocals
  <2>2. ReadByte' = ReadByte
    BY <2>1 DEF ReadByte, TrampolineWord
  <2>3. CommitLen' = len
    BY <2>1 DEF CommitLen
  <2>4. QED
    BY <2>1, <2>2, <2>3 DEF AppAddress
<1>2. CASE CommitDone
  <2>1. /\ UNCHANGED <<flash, writeBuffer, base, offset, len>>
        /\ pc = "row" /\ len = 0
    BY <1>2 DEF CommitDone, buffers, commitV
  <2>2. /\ offset > 0 /\ CommitLen = offset /\ offset \in 0 .. FLASH_ERASE_SIZE
    BY <2>1, Types, Sizes DEF Inv1, Locals, CallLocals, InRows, CommitLen, TypeOK, TypeInvariant
  <2>3. base <= LastPage
    BY <2>1, <2>2 DEF Inv1, Locals
  <2>4. Firm
    <3>1. InCommit /\ ~ EraseTrampoline
      BY <1>2, <2>1 DEF InCommit, EraseTrampoline, AtRow
    <3>2. QED
      BY <2>1, <3>1, FirmKept
  <2>5. ASSUME NEW i \in 0 .. CommitLen - 1, base + i > 1
        PROVE  ReadByte[AppAddress(base + i)] = writeBuffer[i]
    <3>1. flash[base + i] = writeBuffer[i]
      BY <2>1, <2>2, <2>4 DEF RowsDone
    <3>2. base + i \in 0 .. FLASH_SIZE - 1
      BY <2>2, <2>3, Types, LastPageLemma, Sizes
    <3>3. /\ (base + i) % FLASH_SIZE = base + i /\ base + i \in Addr
          /\ AppAddress(base + i) = base + i
      BY <3>2, CellLemma, Zenon
    <3>4. base + i # 0 /\ base + i # 1
      BY <2>5, Types
    <3>5. QED
      BY <3>1, <3>3, <3>4 DEF ReadByte
  <2>6. ReadByte' = ReadByte /\ CommitLen' = CommitLen
    BY <2>1 DEF ReadByte, TrampolineWord, CommitLen
  <2>7. QED
    BY <2>1, <2>5, <2>6 DEF AppAddress
<1>3. CASE UNCHANGED attinyVars
  <2>1. UNCHANGED <<flash, writeBuffer, base, offset, len, pc, err, finalizes, fresh, clean, cmd>>
    BY <1>3 DEF attinyVars, attinyHistory, vars
  <2>2. ReadByte' = ReadByte /\ CommitLen' = CommitLen
    BY <2>1 DEF ReadByte, TrampolineWord, CommitLen
  <2>3. pc = "return" /\ err = 0 /\ Firm
    BY <2>1 DEF Firm, Clear, Once
  <2>4. QED
    BY <2>1, <2>2, <2>3 DEF PageDone, AppAddress
<1>4. QED
  BY <1>1, <1>2, <1>3, IntoReturn

\* The buffer keeps holding the bytes received of its page; only the reset
\* vector is replaced in it.
LEMMA StepBufferedHere == Inv1 /\ Buffered /\ [Next]_attinyVars => Buffered'
<1> SUFFICES ASSUME Inv1, Buffered, [Next]_attinyVars PROVE Buffered'
  OBVIOUS
<1>1. TypeInvariant /\ CallLocals /\ (CommandStep \/ CommitStep)
  BY Steps
<1>2. ASSUME CommitStep, NEW i \in 0 .. FLASH_ERASE_SIZE - 1, base + i >= 2
      PROVE  writeBuffer'[i] = writeBuffer[i]
  <2>1. CASE ProgramTrampoline
    <3>1. /\ base = 0 /\ writeBuffer' = [writeBuffer EXCEPT ![0] = flash[0], ![1] = flash[1]]
      BY <2>1, ProgramTrampolineFlash
    <3>2. i # 0 /\ i # 1
      BY <1>2, <3>1, Sizes
    <3>3. QED
      BY <3>1, <3>2, Types
  <2>2. CASE UNCHANGED writeBuffer
    BY <2>2
  <2>3. ~ Restart /\ ~ Upload /\ ~ Finalize
    BY <1>2 DEF CommitStep, InCommit, Restart, Reset, Upload, Accepted, WriteAccepted, Finalize,
       FinalizeFlash
  <2>4. /\ ~ CopyByte /\ ~ CopyDone /\ ~ CommitOk /\ ~ CommitFailed
        /\ \A a \in Addr : ~ WriteRejected(a)
    BY <1>2 DEF CommitStep, InCommit, CopyByte, CopyDone, CommitOk, CommitFailed, WriteRejected
  <2>5. CompareStep \/ RejectVector \/ RejectRow \/ EraseTrampoline \/ ErasePage \/ ProgramRow
          \/ UNCHANGED attinyVars => UNCHANGED writeBuffer
    BY DEF CompareStep, CommitSkip, CommitStart, CommitDone, RejectVector, RejectRow,
       EraseTrampoline, ErasePage, ProgramRow, buffers, attinyVars, vars
  <2>6. QED
    BY <2>1, <2>2, <2>3, <2>4, <2>5, Actions
<1>3. QED
  <2>1. 2 \in Nat /\ BufferedFrom(2)
    BY DEF Buffered
  <2>2. BufferedFrom(2)'
    BY <1>1, <1>2, <2>1, StepBuffered, Zenon
  <2>3. QED
    BY <2>2 DEF Buffered

\* What is stored behind the page under commit stays stored.
LEMMA StoredKept ==
  ASSUME Inv1, [Next]_attinyVars, NEW i \in Addr, i > 1,
         InCommit => i < base,
         received'[i] = received[i], Stored(ReadByte, i)
  PROVE  Stored(ReadByte, i)'
<1>0. /\ i \in Nat /\ i % ADDR = i /\ AppAddress(i) = i
      /\ i # 0 /\ i # 1
  <2>1. i \in 0 .. ADDR - 1
    BY DEF Addr
  <2>2. i % ADDR = i
    BY <2>1, Sizes, ModSmall
  <2>3. QED
    BY <2>1, <2>2, LastPageLemma DEF AppAddress
<1>1. CASE flash' = flash
  BY <1>1 DEF Stored, ReadByte, TrampolineWord, AppAddress
<1>2. CASE InCommit /\ base <= LastPage
  <2>1. i < LastPage /\ i \in 0 .. FLASH_SIZE - 1
    BY <1>0, <1>2, Types, LastPageLemma, Sizes
  <2>2. i % FLASH_SIZE = i
    BY <2>1, CellLemma
  <2>3. flash'[i] = flash[i]
    <3>1. i \in Cells /\ i # trampolineStart /\ i # trampolineStart + 1
      BY <2>1, LastPageLemma, Sizes DEF Cells
    <3>2. QED
      BY <1>2, <2>1, <3>1, FlashBehind
  <2>4. QED
    BY <1>0, <2>2, <2>3 DEF Stored, ReadByte, AppAddress
<1>3. EraseTrampoline \/ ProgramTrampoline \/ ErasePage \/ ProgramRow
        => InCommit /\ base <= LastPage
  BY EraseTrampolineFlash, ProgramTrampolineFlash, EraseFlash, ProgramPlace, LastPageLemma, Types
<1>4. CompareStep \/ RejectVector \/ RejectRow => flash' = flash
  BY Steps DEF RejectVector, RejectRow
<1>5. QED
  BY <1>1, <1>2, <1>3, <1>4, StepKinds DEF WriteSteps

\* The bytes of a page that was committed are in flash.
LEMMA PageStored ==
  ASSUME Inv1, Buffered, PageDone, Behind, clean, pc = "return", err = 0,
         NEW i \in 2 .. base + CommitLen - 1, Promised(i)
  PROVE  Stored(ReadByte, i)
<1>1. InCommit /\ CommitLen \in Nat /\ base \in Nat /\ i \in Nat
  BY Types DEF InCommit
<1>2. CASE i < base
  <2>1. i \in 2 .. base - 1
    BY <1>1, <1>2
  <2>2. QED
    BY <1>1, <2>1 DEF Behind, Bound
<1>3. CASE i >= base
  <2>1. i - base \in 0 .. CommitLen - 1 /\ base + (i - base) = i /\ i >= 2
    BY <1>1, <1>3
  <2>2. writeBuffer[i - base] = received[base + (i - base)]
    BY <1>1, <2>1 DEF Buffered, BufferedFrom
  <2>3. Firm
    <3>1. CASE base = LastPage
      <4>1. CommitLen <= FLASH_ERASE_SIZE
        BY <1>1 DEF Inv1, Locals, CallLocals
      <4>2. LastPage <= i /\ i < LastPage + FLASH_ERASE_SIZE
        BY <1>1, <1>3, <2>1, <3>1, <4>1, Sizes
      <4>3. InTrampolinePage(i)
        BY <1>1, <4>2, TrampolinePage
      <4>4. QED
        BY <4>3 DEF Promised, Firm
    <3>2. QED
      BY <3>1 DEF Firm
  <2>4. ReadByte[AppAddress(base + (i - base))] = writeBuffer[i - base]
    BY <2>1, <2>3 DEF PageDone
  <2>5. QED
    BY <2>1, <2>2, <2>4 DEF Stored
<1>4. QED
  BY <1>1, <1>2, <1>3

\* A promise is made for the last page when the step erases it, no sooner.
LEMMA PromisedKept ==
  ASSUME Inv1, [Next]_attinyVars, NEW i, Promised(i)'
  PROVE  Promised(i) \/ EraseTrampoline
<1>1. InTrampolinePage(i)' <=> InTrampolinePage(i)
  BY DEF InTrampolinePage
<1>2. QED
  BY <1>1, OnceKept DEF Promised, Clear

\* The pages behind the buffer stay in flash, and the page of the buffer joins
\* them when its commit succeeds.
LEMMA StepBehind ==
  Inv1 /\ PageDone /\ Buffered /\ Behind /\ [Next]_attinyVars => Behind'
<1> SUFFICES ASSUME Inv1, PageDone, Buffered, Behind, [Next]_attinyVars, clean',
                    NEW i \in 2 .. Bound' - 1, Promised(i)'
             PROVE  Stored(ReadByte, i)'
  BY DEF Behind, Promised, Stored, AppAddress, InTrampolinePage
<1>1. \/ (Reset \/ StartUpload) /\ ~ InCommit' /\ Top' = 0 /\ Bound' = 0
      \/ /\ clean /\ Bound \in Nat /\ Bound' = Bound
         /\ \A k \in 0 .. Bound - 1 : received'[k] = received[k]
      \/ /\ CommitOk /\ cmd = "WRITE_FLASH" /\ clean
         /\ Bound = base /\ Bound' = base + FLASH_ERASE_SIZE
  <2>1. TypeInvariant /\ CallLocals /\ BufferedFrom(2) /\ 2 \in Nat /\ (CommandStep \/ CommitStep)
    BY Steps DEF Buffered
  <2>2. QED
    BY <2>1, StepBound, Zenon
<1>2. CASE Bound' = 0
  BY <1>2
<1>3. CASE /\ clean /\ Bound \in Nat /\ Bound' = Bound
           /\ \A k \in 0 .. Bound - 1 : received'[k] = received[k]
  <2>1. i \in 2 .. Bound - 1 /\ i > 1 /\ i \in Nat /\ i \in 0 .. Bound - 1
    BY <1>3
  <2>2. ~ EraseTrampoline
    <3>1. EraseTrampoline => Bound = 0
      BY EraseTrampolineFlash DEF Bound
    <3>2. QED
      BY <2>1, <3>1
  <2>3. Stored(ReadByte, i)
    BY <1>3, <2>1, <2>2, PromisedKept DEF Behind
  <2>4. Bound < ADDR
    <3>1. Top \in Nat /\ Top < ADDR
      BY Types DEF Top
    <3>2. PageStart(Top) <= Top /\ PageStart(Top) \in Nat
      BY <3>1, PageLemma, Zenon
    <3>3. QED
      BY <3>1, <3>2, Types, Sizes DEF Bound
  <2>5. i \in Addr /\ (InCommit => i < base) /\ received'[i] = received[i]
    BY <1>3, <2>1, <2>4, Sizes DEF Bound, Addr
  <2>6. QED
    BY <2>1, <2>3, <2>5, StoredKept
<1>4. CASE /\ CommitOk /\ cmd = "WRITE_FLASH" /\ clean
           /\ Bound = base /\ Bound' = base + FLASH_ERASE_SIZE
  <2>1. /\ pc = "return" /\ err = 0 /\ InCommit /\ CommitLen = FLASH_ERASE_SIZE
        /\ UNCHANGED <<flash, received>>
    BY <1>4 DEF CommitOk, InCommit, history, Inv1, Locals, CallLocals
  <2>2. i \in 2 .. base + CommitLen - 1
    BY <1>4, <2>1, Types, Sizes
  <2>3. Promised(i)
    <3>1. ~ EraseTrampoline
      BY <2>1 DEF EraseTrampoline, AtRow
    <3>2. QED
      BY <3>1, PromisedKept
  <2>4. Stored(ReadByte, i)
    BY <1>4, <2>1, <2>2, <2>3, PageStored
  <2>5. QED
    BY <2>1, <2>4 DEF Stored, ReadByte, AppAddress, TrampolineWord
<1>5. QED
  BY <1>1, <1>2, <1>3, <1>4

\* Only a successful commit answers FINALIZE_FLASH with OK.
LEMMA IntoConfirmed ==
  ASSUME Inv1, [Next]_attinyVars, UploadConfirmed'
  PROVE  \/ UNCHANGED attinyVars
         \/ /\ CommitOk /\ UNCHANGED attinyHistory /\ clean /\ cmd = "FINALIZE_FLASH"
            /\ pc = "return" /\ err = 0 /\ InCommit
            /\ base + CommitLen = nextWriteAddress
            /\ UNCHANGED <<flash, received, nextWriteAddress, clean, cmd>>
<1>1. pc' = "idle" /\ cmd' = "FINALIZE_FLASH" /\ reply'.status = "OK" /\ clean'
  BY DEF UploadConfirmed
<1>2. CASE CommitOk /\ UNCHANGED attinyHistory
  <2>1. /\ pc = "return" /\ err = 0 /\ InCommit /\ clean /\ cmd = "FINALIZE_FLASH"
        /\ UNCHANGED <<flash, received, nextWriteAddress, clean, cmd>>
    BY <1>1, <1>2 DEF CommitOk, InCommit, buffers, history
  <2>2. base + CommitLen = nextWriteAddress
    BY <2>1, Types DEF Inv1, Locals, CallLocals
  <2>3. QED
    BY <1>2, <2>1, <2>2
<1>3. ~ Restart /\ ~ Upload /\ ~ Finalize
  BY <1>1 DEF Restart, Reset, Upload, Accepted, WriteAccepted, Finalize, FinalizeFlash
<1>4. /\ ~ CopyByte /\ ~ CopyDone /\ ~ CommitFailed
      /\ \A a \in Addr : ~ WriteRejected(a)
  <2>1. ~ CopyDone
    BY <1>1 DEF CopyDone, Inv1, Locals, CallLocals
  <2>2. ~ CopyByte
    BY <1>1 DEF CopyByte
  <2>3. ~ CommitFailed
    <3>1. CommitFailed => reply'.status = "COMMAND_FAILED"
      BY DEF CommitFailed, Reply
    <3>2. QED
      BY <1>1, <3>1
  <2>4. \A a \in Addr : ~ WriteRejected(a)
    BY <1>1 DEF WriteRejected
  <2>5. QED
    BY <2>1, <2>2, <2>3, <2>4
<1>5. /\ ~ CompareStep /\ ~ RejectVector /\ ~ RejectRow
      /\ ~ EraseTrampoline /\ ~ ProgramTrampoline /\ ~ ErasePage /\ ~ ProgramRow
  BY <1>1 DEF CompareStep, CommitSkip, CommitStart, CommitDone, RejectVector, RejectRow, RowFailed,
     EraseTrampoline, ProgramTrampoline, ErasePage, ProgramRow, RowDone
<1>6. QED
  BY <1>2, <1>3, <1>4, <1>5, Actions

\* A confirmed upload is stored, where the promise holds.
LEMMA StepDurable ==
  Inv1 /\ PageDone /\ Buffered /\ Behind /\ Durable /\ [Next]_attinyVars => Durable'
<1> SUFFICES ASSUME Inv1, PageDone, Buffered, Behind, Durable, [Next]_attinyVars,
                    UploadConfirmed', NEW i \in 2 .. nextWriteAddress' - 1, Promised(i)'
             PROVE  Stored(ReadByte, i)'
  BY DEF Durable, Promised, Stored, AppAddress, InTrampolinePage
<1>1. CASE UNCHANGED attinyVars
  <2>1. UNCHANGED <<flash, nextWriteAddress, pc, cmd, reply, received, clean, finalizes, fresh>>
    BY <1>1 DEF attinyVars, attinyHistory, vars
  <2>2. UploadConfirmed /\ Promised(i)
    BY <2>1 DEF UploadConfirmed, Promised, Clear, Once, InTrampolinePage
  <2>3. Stored(ReadByte, i)
    BY <2>1, <2>2 DEF Durable
  <2>4. QED
    BY <2>1, <2>3 DEF Stored, ReadByte, AppAddress, TrampolineWord
<1>2. CASE ~ UNCHANGED attinyVars
  <2>1. /\ CommitOk /\ clean /\ pc = "return" /\ err = 0 /\ base + CommitLen = nextWriteAddress
        /\ UNCHANGED <<flash, received, nextWriteAddress>>
    BY <1>2, IntoConfirmed
  <2>2. i \in 2 .. base + CommitLen - 1
    BY <2>1, Types
  <2>3. Promised(i)
    <3>1. ~ EraseTrampoline
      BY <2>1 DEF EraseTrampoline, AtRow
    <3>2. QED
      BY <3>1, PromisedKept
  <2>4. Stored(ReadByte, i)
    BY <2>1, <2>2, <2>3, PageStored
  <2>5. QED
    BY <2>1, <2>4 DEF Stored, ReadByte, AppAddress, TrampolineWord
<1>3. QED
  BY <1>1, <1>2

\* The steps that start an upload.
Starting == Restart \/ \E n \in 0 .. MaxData, img \in Images : Accepted(0, n, img)

\* What the steps of an upload leave of the pages behind its buffer.
LEMMA BoundKept ==
  ASSUME Inv1, Buffered, [Next]_attinyVars, clean'
  PROVE  \/ Starting /\ finalizes' = 0 /\ ~ fresh' /\ ~ InCommit' /\ Top' = 0 /\ Bound' = 0
         \/ /\ clean /\ Bound \in Nat /\ Bound' = Bound
            /\ \A i \in 0 .. Bound - 1 : received'[i] = received[i]
         \/ /\ CommitOk /\ cmd = "WRITE_FLASH" /\ clean
            /\ Bound = base /\ Bound' = base + FLASH_ERASE_SIZE
<1>1. \/ (Reset \/ StartUpload) /\ ~ InCommit' /\ Top' = 0 /\ Bound' = 0
      \/ /\ clean /\ Bound \in Nat /\ Bound' = Bound
         /\ \A i \in 0 .. Bound - 1 : received'[i] = received[i]
      \/ /\ CommitOk /\ cmd = "WRITE_FLASH" /\ clean
         /\ Bound = base /\ Bound' = base + FLASH_ERASE_SIZE
  <2>1. /\ TypeInvariant /\ CallLocals /\ BufferedFrom(2) /\ 2 \in Nat
        /\ (CommandStep \/ CommitStep)
    BY Steps DEF Buffered
  <2>2. QED
    BY <2>1, StepBound, Zenon
<1>2. CASE (Reset \/ StartUpload) /\ ~ InCommit' /\ Top' = 0 /\ Bound' = 0
  <2>1. CASE Restart
    BY <1>2, <2>1 DEF Starting, Restart
  <2>2. CASE Upload
    <3>1. PICK a \in Addr, n \in 0 .. MaxData, img \in Images : Accepted(a, n, img)
      BY <2>2 DEF Upload
    <3>2. pc' = "copy" /\ address' = a
      BY <3>1 DEF Accepted, WriteAccepted
    <3>3. a = 0
      BY <1>2, <3>2 DEF Top
    <3>4. Accepted(0, n, img)
      BY <3>1, <3>3
    <3>5. finalizes' = 0 /\ ~ fresh'
      BY <3>4 DEF Accepted
    <3>6. QED
      BY <1>2, <3>4, <3>5 DEF Starting
  <2>3. CASE UNCHANGED attinyVars
    <3>1. UNCHANGED <<pc, address, nextWriteAddress, base, received, clean>>
      BY <2>3 DEF attinyVars, vars
    <3>2. Bound' = Bound
      BY <3>1 DEF Bound, InCommit, Top, PageStart, BufferIndex
    <3>3. QED
      BY <1>2, <3>1, <3>2
  <2>4. pc' \in {"idle", "copy"} /\ cmd' \in {"none", "WRITE_FLASH"} /\ (pc' = "copy" => pc = "idle")
        /\ (pc' = "idle" => cmd' = "none")
    BY <1>2 DEF Reset, StartUpload, WriteAccepted
  <2>5. ~ Finalize
    BY <2>4 DEF Finalize, FinalizeFlash
  <2>6. /\ ~ CopyByte /\ ~ CopyDone /\ ~ CommitOk /\ ~ CommitFailed
        /\ \A a \in Addr : ~ WriteRejected(a)
    BY <2>4 DEF CopyByte, CopyDone, CommitOk, CommitFailed, WriteRejected, Inv1, Locals, CallLocals
  <2>7. ~ CompareStep /\ ~ WriteSteps
    BY <2>4 DEF CompareStep, CommitSkip, CommitStart, CommitDone, WriteSteps, RejectVector, RejectRow,
       RowFailed, EraseTrampoline, ProgramTrampoline, ErasePage, ProgramRow, RowDone
  <2>8. QED
    BY <2>1, <2>2, <2>3, <2>5, <2>6, <2>7, Actions DEF WriteSteps
<1>3. QED
  BY <1>1, <1>2

\* The last page has nothing yet before a step that leaves it so.
LEMMA BeforeLast ==
  ASSUME Inv1, Buffered, [Next]_attinyVars, ~ EraseTrampoline, Clear', Bound' <= LastPage,
         ~ (InCommit' /\ base' = LastPage /\ (pc' = "return" \/ offset' > 0)),
         ~ (pc' = "idle" /\ finalizes' = 1)
  PROVE  /\ Clear /\ Bound <= LastPage
         /\ ~ (InCommit /\ base = LastPage /\ (pc = "return" \/ offset > 0))
         /\ ~ (pc = "idle" /\ finalizes = 1)
<1>1. /\ Clear
      /\ finalizes' = finalizes \/ (Finalize /\ finalizes = 0 /\ finalizes' = 1)
  BY OnceKept DEF Clear
<1>2. Bound <= LastPage /\ ~ (CommitOk /\ cmd = "WRITE_FLASH" /\ base = LastPage)
  <2>1. clean' /\ fresh'
    BY DEF Clear, Once
  <2>2. CommitOk /\ cmd = "WRITE_FLASH" => Bound = base /\ pc' = "copy"
    BY DEF CommitOk, Bound, InCommit
  <2>3. CASE Bound' = Bound
    <3>1. CommitOk /\ cmd = "WRITE_FLASH" => Bound' = base + FLASH_ERASE_SIZE
      <4>1. SUFFICES ASSUME CommitOk, cmd = "WRITE_FLASH" PROVE Bound' = base + FLASH_ERASE_SIZE
        OBVIOUS
      <4>2. InCommit /\ Top' = address /\ ~ InCommit'
        BY <4>1 DEF CommitOk, InCommit, Top, buffers
      <4>3. address = base + FLASH_ERASE_SIZE /\ base % FLASH_ERASE_SIZE = 0
        BY <4>1, <4>2 DEF Inv1, Locals, CallLocals
      <4>4. PageStart(address) = address
        BY <4>3, Types, PageStartOfStart
      <4>5. QED
        BY <4>2, <4>3, <4>4 DEF Bound, PageStart, BufferIndex
    <3>2. QED
      BY <2>2, <2>3, <3>1, Types, Sizes
  <2>4. CASE CommitOk /\ Bound = base /\ Bound' = base + FLASH_ERASE_SIZE
    BY <2>2, <2>4, Types, LastPageLemma, Sizes
  <2>5. QED
    BY <2>1, <2>3, <2>4, BoundKept
<1>3. ASSUME InCommit, base = LastPage, pc = "return" \/ offset > 0
      PROVE  FALSE
  <2>1. CASE UNCHANGED attinyVars
    BY <1>3, <2>1 DEF attinyVars, vars, InCommit
  <2>2. CASE CompareStep \/ WriteSteps
    <3>1. InCommit' /\ base' = base /\ pc # "return"
      BY <2>2, Steps DEF CommitStep
    <3>2. offset' = offset \/ (ProgramRow /\ offset' = offset + RowLen)
      BY <2>2 DEF CompareStep, CommitSkip, CommitStart, CommitDone, WriteSteps, RejectVector,
         RejectRow, RowFailed, EraseTrampoline, ProgramTrampoline, ErasePage, ProgramRow, RowDone,
         commitV
    <3>3. ProgramRow => RowLen \in Nat
      BY ProgramPlace, RowPlace, Sizes
    <3>4. QED
      BY <1>3, <3>1, <3>2, <3>3, Types
  <2>3. CASE CommitOk \/ CommitFailed
    <3>1. cmd # "WRITE_FLASH"
      <4>1. clean'
        BY DEF Clear, Once
      <4>2. QED
        BY <1>2, <1>3, <2>3, <4>1 DEF CommitFailed
    <3>2. pc' = "idle" /\ ~ Finalize /\ cmd = "FINALIZE_FLASH"
      BY <1>3, <2>3, <3>1 DEF CommitOk, CommitFailed, Finalize, FinalizeFlash, InCommit, Inv1, TypeOK,
         TypeInvariant, Locals, CallLocals
    <3>3. finalizes = 1
      BY <1>1, <3>2, Types DEF Clear, Once, Inv1, Locals
    <3>4. QED
      BY <1>1, <3>2, <3>3
  <2>4. ~ Restart
    BY DEF Restart, Clear
  <2>5. ~ Upload /\ ~ Finalize /\ ~ CopyByte /\ ~ CopyDone /\ \A a \in Addr : ~ WriteRejected(a)
    BY <1>3 DEF InCommit, Upload, Accepted, WriteAccepted, Finalize, FinalizeFlash, CopyByte,
       CopyDone, WriteRejected
  <2>6. QED
    BY <2>1, <2>2, <2>3, <2>4, <2>5, Actions DEF WriteSteps
<1>4. ASSUME pc = "idle", finalizes = 1
      PROVE  FALSE
  <2>1. finalizes' = 1
    BY <1>1, <1>4
  <2>2. cmd' = "FINALIZE_FLASH"
    BY <2>1 DEF Clear, Once
  <2>3. ~ Upload /\ \A a \in Addr : ~ WriteRejected(a)
    BY <2>2 DEF Upload, Accepted, WriteAccepted, WriteRejected
  <2>4. ~ Finalize
    <3>1. Finalize => finalizes' = 2
      BY <1>4 DEF Finalize
    <3>2. QED
      BY <2>1, <3>1
  <2>5. ~ Restart
    BY DEF Restart, Clear
  <2>6. CASE UNCHANGED attinyVars
    BY <1>4, <2>1, <2>6 DEF attinyVars, vars
  <2>7. /\ ~ CopyByte /\ ~ CopyDone /\ ~ CommitOk /\ ~ CommitFailed /\ ~ CompareStep
    BY <1>4 DEF CopyByte, CopyDone, CommitOk, CommitFailed, CompareStep, CommitSkip, CommitStart,
       CommitDone
  <2>8. ~ WriteSteps
    BY <1>4, ReadyInRows, ProgramPlace DEF InRows, WriteSteps, RejectVector, RejectRow, EraseTrampoline,
       ProgramTrampoline, ErasePage
  <2>9. QED
    BY <2>3, <2>4, <2>5, <2>6, <2>7, <2>8, Actions DEF WriteSteps
<1>5. QED
  BY <1>1, <1>2, <1>3, <1>4

\* The last page stays erased from the change of page 0 to its own commit.
LEMMA StepLastErased ==
  Inv1 /\ Buffered /\ LastErased /\ [Next]_attinyVars => LastErased'
<1> SUFFICES ASSUME Inv1, Buffered, LastErased, [Next]_attinyVars, Clear', Bound' <= LastPage,
                    ~ (InCommit' /\ base' = LastPage /\ (pc' = "return" \/ offset' > 0)),
                    ~ (pc' = "idle" /\ finalizes' = 1),
                    NEW c \in LastPage .. trampolineStart - 1
             PROVE  flash'[c] = ERASED
  BY DEF LastErased, Clear
<1>0. /\ c \in Nat /\ c \in Cells /\ c # trampolineStart /\ c # trampolineStart + 1
      /\ c \in LastPage .. trampolineStart + 1
  BY LastPageLemma, Sizes DEF Cells
<1>1. CASE EraseTrampoline
  BY <1>0, <1>1, EraseTrampolineFlash
<1>2. CASE ~ EraseTrampoline
  <2>1. /\ Clear /\ Bound <= LastPage
        /\ ~ (InCommit /\ base = LastPage /\ (pc = "return" \/ offset > 0))
        /\ ~ (pc = "idle" /\ finalizes = 1)
    BY <1>2, BeforeLast
  <2>2. flash[c] = ERASED
    BY <2>1 DEF LastErased
  <2>3. CASE ProgramRow
    <3>1. /\ base <= LastPage /\ InRows /\ len > 0
          /\ WordBytes(RowLen) \in 2 .. FLASH_WRITE_SIZE
      BY <2>3, ProgramPlace
    <3>2. /\ base % FLASH_ERASE_SIZE = 0 /\ offset + FLASH_WRITE_SIZE <= FLASH_ERASE_SIZE
          /\ RowLen \in 1 .. FLASH_WRITE_SIZE
      BY <3>1, RowPlace
    <3>3. base # LastPage
      <4>1. InCommit' /\ base' = base /\ offset' = offset + RowLen
        BY <2>3 DEF ProgramRow, RowDone, InCommit
      <4>2. offset' > 0
        BY <3>2, <4>1, Types
      <4>3. QED
        BY <4>1, <4>2
    <3>4. base + FLASH_ERASE_SIZE <= LastPage
      <4>1. base \in Nat /\ base < LastPage /\ LastPage \in Nat /\ LastPage % FLASH_ERASE_SIZE = 0
        BY <3>1, <3>3, Types, LastPageLemma
      <4>2. QED
        BY <3>2, <4>1, Sizes, ModGap, Zenon
    <3>5. c \notin base + offset .. base + offset + WordBytes(RowLen) - 1
      <4> DEFINE n == WordBytes(RowLen)
      <4>1. n \in 2 .. FLASH_WRITE_SIZE /\ base + offset + n <= LastPage
        BY <3>1, <3>2, <3>4, Types, LastPageLemma, Sizes, SMTT(60)
      <4> HIDE DEF n
      <4>2. c \notin base + offset .. base + offset + n - 1
        BY <1>0, <4>1, Types, LastPageLemma, Sizes, SMTT(60)
      <4>3. QED
        BY <4>2 DEF n
    <3>6. QED
      BY <1>0, <2>2, <2>3, <3>5, ProgramFlash
  <2>4. CASE ErasePage
    <3>1. c \notin base .. base + FLASH_ERASE_SIZE - 1
      BY <1>0, <2>4, EraseFlash, Types, LastPageLemma, Sizes
    <3>2. QED
      BY <1>0, <2>2, <2>4, <3>1, EraseFlash
  <2>5. CASE ProgramTrampoline
    BY <1>0, <2>2, <2>5, ProgramTrampolineFlash, Zenon
  <2>6. CompareStep \/ RejectVector \/ RejectRow => flash' = flash
    BY Steps DEF RejectVector, RejectRow
  <2>7. QED
    BY <1>2, <2>2, <2>3, <2>4, <2>5, <2>6, StepKinds DEF WriteSteps
<1>3. QED
  BY <1>1, <1>2

-----------------------------------------------------------------------------
(***************************************************************************)
(* The reset vector of the application, from the buffer to the trampoline. *)
(***************************************************************************)
\* The first n bytes received are in the buffer, as far as they are the vector.
VectorIn(n) == \A i \in {0, 1} : i < n => writeBuffer[i] = received[i]

\* The buffer holds the vector until its page is committed the first time, and
\* then until the trampoline is programmed.
VectorBuffered ==
  /\ Once /\ finalizes = 0 /\ ~ InCommit /\ PageStart(Top) = 0 => VectorIn(Top)
  /\ Once /\ base = 0 /\ (pc \in {"commit", "trampoline"} \/ (pc = "row" /\ offset = 0)) =>
       VectorIn(CommitLen)

\* What is programmed into the trampoline is a jump.
Relocation == pc = "trampoline" => Relocated # 0

\* The trampoline holds the vector once page 0 has been seen to or found equal.
VectorThere ==
  \/ InCommit /\ (base > 0 \/ pc \in {"vector", "program"} \/ (pc = "row" /\ offset > 0)
                  \/ (pc = "return" /\ err = 0))
  \/ pc = "copy" /\ PageStart(Top) > 0
  \/ pc = "idle" /\ finalizes = 0 /\ PageStart(Top) > 0
  \/ pc = "idle" /\ finalizes = 1 /\ reply.status = "OK"

VectorStored ==
  Once /\ VectorThere => \A i \in {0, 1} : i < nextWriteAddress => ReadByte[i] = received[i]

\* The two bytes are addresses of the first page.
LEMMA VectorPlace ==
  /\ \A i \in {0, 1} : i \in Addr /\ i \in Nat /\ i \in 0 .. FLASH_ERASE_SIZE - 1
                       /\ BufferIndex(i) = i /\ AppAddress(i) = i /\ i \in Cells
  /\ PageStart(0) = 0
<1>1. 0 \in 0 .. FLASH_SIZE - 1 /\ 1 \in 0 .. FLASH_SIZE - 1
      /\ 0 \in 0 .. FLASH_ERASE_SIZE - 1 /\ 1 \in 0 .. FLASH_ERASE_SIZE - 1
  BY LastPageLemma, Sizes
<1>2. BufferIndex(0) = 0 /\ BufferIndex(1) = 1
  BY <1>1, Sizes, ModSmall DEF BufferIndex
<1>3. 0 \in Addr /\ 1 \in Addr /\ AppAddress(0) = 0 /\ AppAddress(1) = 1
  BY <1>1, CellLemma
<1>4. PageStart(0) = 0
  BY <1>2 DEF PageStart
<1>5. QED
  BY <1>1, <1>2, <1>3, <1>4 DEF Cells

\* While page 0 is filled, the vector is copied into the buffer.
LEMMA CopyVector ==
  ASSUME Inv1, Buffered, VectorBuffered, CopyByte, UNCHANGED attinyHistory, Once',
         PageStart(address) = 0
  PROVE  \A i \in {0, 1} : i < address + 1 => writeBuffer'[i] = received'[i]
<1>1. /\ pc = "copy" /\ ~ InCommit /\ Top = address /\ cmd = "WRITE_FLASH"
      /\ address < nextWriteAddress /\ address \in Nat
      /\ UNCHANGED <<received, clean, cmd, finalizes>>
      /\ writeBuffer' = [writeBuffer EXCEPT ![BufferIndex(address)] = received[address]]
  BY Types DEF CopyByte, InCommit, Top, history, attinyHistory, Inv1, Locals, CallLocals
<1>2. Once /\ finalizes = 0
  BY <1>1 DEF Once
<1>3. VectorIn(address)
  BY <1>1, <1>2 DEF VectorBuffered
<1>4. BufferIndex(address) = address
  <2>1. BufferIndex(address) \in Int
    BY <1>1, Sizes, ModRange DEF BufferIndex
  <2>2. QED
    BY <1>1, <2>1 DEF PageStart
<1>5. ASSUME NEW i \in {0, 1}, i < address + 1 PROVE writeBuffer'[i] = received'[i]
  <2>1. i \in 0 .. FLASH_ERASE_SIZE - 1 /\ i \in Nat
    BY VectorPlace
  <2>2. CASE i = address
    BY <1>1, <1>4, <2>1, <2>2, Types
  <2>3. CASE i # address
    <3>1. i < address
      BY <1>1, <1>5, <2>1, <2>3
    <3>2. writeBuffer[i] = received[i]
      BY <1>3, <3>1 DEF VectorIn
    <3>3. QED
      BY <1>1, <1>4, <2>1, <2>3, <3>2, Types
  <2>4. QED
    BY <2>2, <2>3
<1>6. QED
  BY <1>5

\* The vector is in the buffer until it is in the trampoline.
LEMMA StepVectorBuffered ==
  Inv1 /\ Buffered /\ VectorBuffered /\ [Next]_attinyVars => VectorBuffered'
<1> SUFFICES ASSUME Inv1, Buffered, VectorBuffered, [Next]_attinyVars, Once'
             PROVE  VectorBuffered'
  BY DEF VectorBuffered
<1> DEFINE InPage == base = 0 /\ (pc \in {"commit", "trampoline"} \/ (pc = "row" /\ offset = 0))
<1>0. clean'
  BY DEF Once
<1>1. CASE Restart
  <2>1. Top' = 0 /\ pc' = "idle"
    BY <1>1 DEF Restart, Reset, Top
  <2>2. VectorIn(Top)'
    BY <2>1 DEF VectorIn
  <2>3. QED
    BY <2>1, <2>2 DEF VectorBuffered
<1>2. CASE Upload
  <2>1. PICK a \in Addr, n \in 0 .. MaxData, img \in Images : Accepted(a, n, img)
    BY <1>2 DEF Upload
  <2>2. WriteAccepted(a, n, img) /\ finalizes' = IF a = 0 THEN 0 ELSE finalizes
    BY <2>1 DEF Accepted
  <2>3. /\ a \in Nat /\ ~ InCommit /\ pc = "idle" /\ pc' = "copy"
        /\ Top = nextWriteAddress /\ Top' = a
        /\ a # 0 => /\ clean /\ a = nextWriteAddress
                    /\ \A i \in 0 .. a - 1 : received'[i] = received[i]
    BY <1>0, <2>2, WriteGoesOn, Steps
  <2>4. writeBuffer' = writeBuffer /\ cmd' = "WRITE_FLASH"
    BY <2>2 DEF WriteAccepted
  <2>5. finalizes' = 0
    BY <2>4 DEF Once
  <2>6. PageStart(Top)' = 0 => VectorIn(Top)'
    <3>1. SUFFICES ASSUME PageStart(Top)' = 0, NEW i \in {0, 1}, i < a PROVE writeBuffer'[i] = received'[i]
      BY <2>3 DEF VectorIn
    <3>2. a # 0 /\ i \in 0 .. a - 1
      BY <2>3, <3>1
    <3>3. PageStart(Top) = 0 /\ finalizes = 0 /\ Once
      BY <2>2, <2>3, <2>5, <3>1, <3>2 DEF PageStart, BufferIndex, Once
    <3>4. writeBuffer[i] = received[i]
      BY <2>3, <3>1, <3>2, <3>3 DEF VectorBuffered, VectorIn
    <3>5. QED
      BY <2>3, <2>4, <3>2, <3>4
  <2>7. QED
    BY <2>3, <2>6 DEF VectorBuffered
<1>3. CASE Finalize
  <2>1. /\ pc = "idle" /\ ~ InCommit /\ Top = nextWriteAddress
        /\ InCommit' /\ base' = PageStart(nextWriteAddress)
        /\ offset' = 0 /\ len' = nextWriteAddress - PageStart(nextWriteAddress)
        /\ UNCHANGED <<writeBuffer, received>>
    BY <1>3 DEF Finalize, FinalizeFlash, InCommit, Top, buffers, history
  <2>2. Once /\ finalizes = 0
    <3>1. finalizes' \in {0, 1} /\ finalizes' = (IF finalizes < 2 THEN finalizes + 1 ELSE 2)
      BY <1>3 DEF Once, Finalize
    <3>2. finalizes = 0
      BY <3>1, Types
    <3>3. QED
      BY <1>3, <3>2 DEF Once, Finalize, FinalizeFlash, history
  <2>3. base' = 0 => CommitLen' = nextWriteAddress /\ VectorIn(nextWriteAddress)
    BY <2>1, <2>2, Types DEF CommitLen, VectorBuffered
  <2>4. QED
    BY <2>1, <2>3 DEF VectorBuffered, VectorIn
<1>4. CASE (\E a \in Addr : WriteRejected(a)) /\ UNCHANGED attinyHistory
  <2>1. /\ pc = "idle" /\ pc' = "idle" /\ cmd' = "WRITE_FLASH"
        /\ UNCHANGED <<writeBuffer, received, nextWriteAddress, finalizes, clean>>
    BY <1>4 DEF WriteRejected, buffers, history, attinyHistory
  <2>2. Once /\ finalizes = 0 /\ ~ InCommit /\ Top' = Top /\ PageStart(Top)' = PageStart(Top)
    BY <2>1 DEF Once, InCommit, Top, PageStart, BufferIndex
  <2>3. QED
    BY <2>1, <2>2 DEF VectorBuffered, VectorIn
<1>5. CASE CopyByte /\ UNCHANGED attinyHistory
  <2>1. /\ pc = "copy" /\ address' = address + 1 /\ address \in Nat
    BY <1>5, Types DEF CopyByte
  <2>2. CASE BufferIndex(address + 1) = 0
    <3>1. /\ InCommit' /\ pc' = "commit" /\ CommitLen' = FLASH_ERASE_SIZE
          /\ base' = address + 1 - FLASH_ERASE_SIZE
      BY <1>5, <2>2, Sizes DEF CopyByte, InCommit, CommitLen
    <3>2. base' = PageStart(address)
      BY <2>1, <2>2, <3>1, PageEnd
    <3>3. base' = 0 => \A i \in {0, 1} : writeBuffer'[i] = received'[i]
      <4>1. SUFFICES ASSUME base' = 0, NEW i \in {0, 1} PROVE writeBuffer'[i] = received'[i]
        OBVIOUS
      <4>2. i < address + 1
        BY <2>1, <3>1, <4>1, VectorPlace, Sizes
      <4>3. QED
        BY <1>5, <3>2, <4>1, <4>2, CopyVector
    <3>4. QED
      BY <3>1, <3>3 DEF VectorBuffered, VectorIn
  <2>3. CASE BufferIndex(address + 1) # 0
    <3>1. pc' = "copy" /\ Top' = address + 1
      BY <1>5, <2>3 DEF CopyByte, Top
    <3>2. PageStart(Top)' = PageStart(address)
      BY <2>1, <2>3, <3>1, PageNext DEF PageStart, BufferIndex
    <3>3. PageStart(Top)' = 0 => VectorIn(Top)'
      BY <1>5, <3>1, <3>2, CopyVector DEF VectorIn
    <3>4. QED
      BY <3>1, <3>3 DEF VectorBuffered
  <2>4. QED
    BY <2>2, <2>3
<1>6. CASE CopyDone /\ UNCHANGED attinyHistory
  <2>1. /\ pc = "copy" /\ pc' = "idle" /\ ~ InCommit /\ clean /\ address >= nextWriteAddress
        /\ UNCHANGED <<writeBuffer, received, nextWriteAddress, finalizes, clean, cmd>>
    BY <1>0, <1>6 DEF CopyDone, InCommit, history, attinyHistory
  <2>2. address = nextWriteAddress
    BY <2>1, Types DEF Buffered, BufferedFrom
  <2>3. Once /\ Top' = Top /\ PageStart(Top)' = PageStart(Top)
    BY <2>1, <2>2 DEF Once, Top, PageStart, BufferIndex
  <2>4. QED
    BY <2>1, <2>3 DEF VectorBuffered, VectorIn
<1>7. CASE (CommitOk \/ CommitFailed) /\ UNCHANGED attinyHistory
  <2>1. CASE cmd = "WRITE_FLASH"
    <3>1. CommitOk
      BY <1>0, <1>7, <2>1 DEF CommitFailed
    <3>2. pc = "return" /\ pc' = "copy" /\ Top' = address
      BY <2>1, <3>1 DEF CommitOk, Top, buffers
    <3>3. address = base + FLASH_ERASE_SIZE /\ base % FLASH_ERASE_SIZE = 0
      BY <2>1, <3>2 DEF Inv1, Locals, CallLocals, InCommit
    <3>4. PageStart(address) = address
      BY <3>3, Types, PageStartOfStart
    <3>5. PageStart(Top)' # 0
      BY <3>2, <3>3, <3>4, Types, Sizes DEF PageStart, BufferIndex
    <3>6. QED
      BY <3>2, <3>5 DEF VectorBuffered
  <2>2. CASE cmd # "WRITE_FLASH"
    <3>1. pc' = "idle" /\ cmd = "FINALIZE_FLASH"
      BY <1>7, <2>2 DEF CommitOk, CommitFailed, Inv1, TypeOK, TypeInvariant, Locals, CallLocals
    <3>2. finalizes' # 0
      BY <1>7, <3>1, Types DEF Inv1, Locals, attinyHistory
    <3>3. QED
      BY <3>1, <3>2 DEF VectorBuffered
  <2>3. QED
    BY <2>1, <2>2
<1>8. CASE CompareStep \/ WriteSteps
  <2>1. /\ InCommit /\ InCommit' /\ base' = base /\ CommitLen' = CommitLen /\ Once
        /\ UNCHANGED received
    <3>1. CommitStep
      BY <1>8, Steps
    <3>2. Once
      <4>1. ~ StartUpload /\ ~ Restart
        BY <3>1 DEF CommitStep, InCommit, StartUpload, WriteAccepted, Restart, Reset
      <4>2. QED
        BY <4>1, OnceKept
    <3>3. QED
      BY <3>1, <3>2 DEF CommitStep
  <2>2. InPage' => InPage /\ UNCHANGED writeBuffer
    <3>1. CASE ProgramRow
      <4>1. InRows /\ len > 0 /\ pc' = "row" /\ offset' = offset + RowLen
        BY <3>1, ProgramPlace DEF ProgramRow, RowDone
      <4>2. RowLen > 0 /\ RowLen \in Nat
        BY <4>1, RowPlace, Sizes
      <4>3. QED
        BY <4>1, <4>2, Types
    <3>2. CASE ProgramTrampoline \/ ErasePage \/ RejectVector \/ RejectRow
      BY <3>2 DEF ProgramTrampoline, ErasePage, RejectVector, RejectRow, RowFailed
    <3>3. CASE EraseTrampoline
      BY <3>3, EraseTrampolineFlash DEF EraseTrampoline, buffers
    <3>4. CASE CompareStep
      <4>1. CASE CommitStart(ReadByte)
        BY <4>1 DEF CommitStart, buffers, commitV
      <4>2. CASE CommitSkip(ReadByte) \/ CommitDone
        BY <4>2 DEF CommitSkip, CommitDone
      <4>3. QED
        BY <3>4, <4>1, <4>2 DEF CompareStep
    <3>5. QED
      BY <1>8, <3>1, <3>2, <3>3, <3>4 DEF WriteSteps
  <2>3. QED
    BY <2>1, <2>2 DEF VectorBuffered, VectorIn
<1>9. CASE UNCHANGED attinyVars
  <2>1. UNCHANGED <<writeBuffer, received, pc, base, offset, len, finalizes, clean, cmd, address,
                    nextWriteAddress>>
    BY <1>9 DEF attinyVars, attinyHistory, vars
  <2>2. UNCHANGED <<Once, InCommit, Top, PageStart(Top), CommitLen>>
    BY <2>1 DEF Once, InCommit, Top, PageStart, BufferIndex, CommitLen
  <2>3. QED
    BY <2>1, <2>2 DEF VectorBuffered, VectorIn
<1>10. QED
  BY <1>1, <1>2, <1>3, <1>4, <1>5, <1>6, <1>7, <1>8, <1>9, Actions DEF WriteSteps

\* What is programmed into the trampoline is a jump: writePage has just looked.
LEMMA StepRelocation == Inv1 /\ Relocation /\ [Next]_attinyVars => Relocation'
<1> SUFFICES ASSUME Inv1, Relocation, [Next]_attinyVars, pc' = "trampoline"
             PROVE  Relocated' # 0
  BY DEF Relocation
<1>1. CASE EraseTrampoline
  BY <1>1 DEF EraseTrampoline, Relocated, buffers, commitV
<1>2. CASE UNCHANGED attinyVars
  BY <1>2 DEF attinyVars, vars, Relocated, Relocation
<1>3. QED
  BY <1>1, <1>2, IntoPlaces

\* The two bytes that read back from the trampoline change only with it.
LEMMA VectorRead ==
  ASSUME Inv1, [Next]_attinyVars, ~ EraseTrampoline, ~ ProgramTrampoline
  PROVE  ReadByte'[0] = ReadByte[0] /\ ReadByte'[1] = ReadByte[1]
<1>1. /\ trampolineStart \in Cells /\ trampolineStart + 1 \in Cells
      /\ 0 \in Addr /\ 1 \in Addr
  BY LastPageLemma, VectorPlace, Sizes DEF Cells
<1>2. flash'[trampolineStart] = flash[trampolineStart]
      /\ flash'[trampolineStart + 1] = flash[trampolineStart + 1]
  <2>1. CASE ErasePage
    <3>1. /\ trampolineStart \notin base .. base + FLASH_ERASE_SIZE - 1
          /\ trampolineStart + 1 \notin base .. base + FLASH_ERASE_SIZE - 1
      <4>1. base + FLASH_ERASE_SIZE <= LastPage
        BY <2>1, EraseFlash
      <4>2. base \in Nat
        BY Types
      <4>3. QED
        BY <4>1, <4>2, LastPageLemma, Sizes
    <3>2. QED
      BY <1>1, <2>1, <3>1, EraseFlash
  <2>2. CASE ProgramRow
    <3> DEFINE n == WordBytes(RowLen)
    <3>1. n \in Nat /\ base + offset + n <= trampolineStart /\ base \in Nat /\ offset \in Nat
      BY <2>2, ProgramPlace, Types, Sizes
    <3>2. \A c \in Cells :
             flash'[c] = IF c \in base + offset .. base + offset + n - 1
                           THEN Burn[<<flash[c], writeBuffer[c - base]>>] ELSE flash[c]
      BY <2>2, ProgramFlash
    <3> HIDE DEF n
    <3>3. /\ trampolineStart \notin base + offset .. base + offset + n - 1
          /\ trampolineStart + 1 \notin base + offset .. base + offset + n - 1
      BY <3>1, LastPageLemma
    <3>4. QED
      BY <1>1, <3>2, <3>3, Zenon
  <2>3. CompareStep \/ RejectVector \/ RejectRow => flash' = flash
    BY Steps DEF RejectVector, RejectRow
  <2>4. QED
    BY <2>1, <2>2, <2>3, StepKinds DEF WriteSteps
<1>3. TrampolineWord' = TrampolineWord
  BY <1>2 DEF TrampolineWord
<1>4. QED
  BY <1>1, <1>3 DEF ReadByte

\* Once programmed, the trampoline reads back as the vector in the buffer did.
LEMMA VectorProgrammed ==
  ASSUME Inv1, Erased, Relocation, ProgramTrampoline
  PROVE  ReadByte'[0] = writeBuffer[0] /\ ReadByte'[1] = writeBuffer[1]
<1> DEFINE w == Word(writeBuffer[0], writeBuffer[1])
           r == offsetRelativeJump(w, - trampolineStart)
<1>1. /\ pc = "trampoline" /\ base = 0 /\ offset = 0 /\ len > 0
      /\ \A c \in Cells :
            flash'[c] = IF c = trampolineStart THEN Burn[<<flash[c], LowByte(Relocated)>>]
                        ELSE IF c = trampolineStart + 1 THEN Burn[<<flash[c], HighByte(Relocated)>>]
                        ELSE flash[c]
  BY ProgramTrampolineFlash
<1>2. w \in Words /\ Relocated = r /\ r \in Words
  BY <1>1, RelocatedWord
<1>3. /\ trampolineStart \in Cells /\ trampolineStart + 1 \in Cells
      /\ trampolineStart + 1 # trampolineStart
      /\ 0 \in Addr /\ 1 \in Addr
  BY LastPageLemma, VectorPlace, Sizes DEF Cells
<1>4. /\ writeBuffer[0] \in Byte /\ writeBuffer[1] \in Byte
  BY VectorPlace, Types
<1> HIDE DEF r
<1>5. LowByte(r) \in Byte /\ HighByte(r) \in Byte /\ Word(LowByte(r), HighByte(r)) = r
  BY <1>2, WordLemma
<1>6. flash'[trampolineStart] = LowByte(r) /\ flash'[trampolineStart + 1] = HighByte(r)
  BY <1>1, <1>2, <1>3, <1>5, BurnAssumption DEF Erased
<1>7. TrampolineWord' = r
  BY <1>5, <1>6 DEF TrampolineWord
<1>8. IsRelativeJump(w)
  <2>1. r # 0
    BY <1>1, <1>2 DEF Relocation
  <2>2. - trampolineStart \in Int
    BY LastPageLemma
  <2> HIDE DEF w
  <2>3. r # 0 <=> IsRelativeJump(w)
    BY <1>2, <2>2, JumpLemma DEF r
  <2>4. QED
    BY <2>1, <2>3
<1>9. offsetRelativeJump(r, trampolineStart) = w
  <2> HIDE DEF w
  <2>1. QED
    BY <1>2, <1>8, JumpBack DEF r
<1>10. LowByte(w) = writeBuffer[0] /\ HighByte(w) = writeBuffer[1]
  BY <1>4, WordLemma
<1>11. ReadByte'[0] = LowByte(w) /\ ReadByte'[1] = HighByte(w)
  BY <1>3, <1>7, <1>9 DEF ReadByte
<1>12. QED
  BY <1>10, <1>11

\* What is there of the vector stays, and it is there when page 0 has been
\* written or found equal.
LEMMA StepVectorStored ==
  Inv1 /\ Erased /\ Buffered /\ VectorBuffered /\ Relocation /\ VectorStored /\ [Next]_attinyVars
    => VectorStored'
<1> SUFFICES ASSUME Inv1, Erased, Buffered, VectorBuffered, Relocation, VectorStored,
                    [Next]_attinyVars, Once', VectorThere',
                    NEW i \in {0, 1}, i < nextWriteAddress'
             PROVE  ReadByte'[i] = received'[i]
  BY DEF VectorStored
<1> DEFINE Kept == /\ Once /\ VectorThere /\ i < nextWriteAddress
                   /\ ReadByte'[i] = ReadByte[i] /\ received'[i] = received[i]
<1>0. Kept => ReadByte'[i] = received'[i]
  BY DEF VectorStored
<1>11. i \in Nat /\ i \in Addr /\ AppAddress(i) = i /\ i < FLASH_ERASE_SIZE /\ PageStart(0) = 0
  BY VectorPlace, Sizes
<1>1. CASE Restart
  <2>1. pc' = "idle" /\ finalizes' = 0 /\ Top' = 0
    BY <1>1 DEF Restart, Reset, Top
  <2>2. PageStart(Top)' = 0
    BY <1>11, <2>1 DEF PageStart, BufferIndex
  <2>3. QED
    BY <2>1, <2>2 DEF VectorThere, InCommit
<1>2. CASE Upload
  <2>1. PICK a \in Addr, n \in 0 .. MaxData, img \in Images : Accepted(a, n, img)
    BY <1>2 DEF Upload
  <2>2. WriteAccepted(a, n, img) /\ finalizes' = IF a = 0 THEN 0 ELSE finalizes
    BY <2>1 DEF Accepted
  <2>3. /\ a \in Nat /\ ~ InCommit /\ ~ InCommit' /\ pc = "idle" /\ pc' = "copy"
        /\ Top = nextWriteAddress /\ Top' = a
        /\ a # 0 => /\ clean /\ a = nextWriteAddress
                    /\ \A k \in 0 .. a - 1 : received'[k] = received[k]
    BY <2>2, WriteGoesOn, Steps DEF Once
  <2>4. PageStart(a) > 0
    BY <2>3 DEF VectorThere, PageStart, BufferIndex
  <2>5. a # 0 /\ FLASH_ERASE_SIZE <= a
    <3>1. a # 0
      BY <1>11, <2>4
    <3>2. PageStart(a) \in Nat /\ PageStart(a) % FLASH_ERASE_SIZE = 0 /\ PageStart(a) <= a
      BY <2>3, PageLemma, Zenon
    <3>3. 0 \in Nat /\ 0 % FLASH_ERASE_SIZE = 0
      BY Sizes, ModSmall
    <3>4. 0 + FLASH_ERASE_SIZE <= PageStart(a)
      BY <2>4, <3>2, <3>3, Sizes, ModGap, Zenon
    <3>5. QED
      BY <2>3, <3>1, <3>2, <3>4, Sizes
  <2>6. finalizes = 0 /\ Once
    <3>1. cmd' = "WRITE_FLASH"
      BY <2>2 DEF WriteAccepted
    <3>2. QED
      BY <2>2, <2>3, <2>5, <3>1 DEF Once
  <2>7. VectorThere
    BY <2>3, <2>4, <2>5, <2>6 DEF VectorThere
  <2>8. i \in 0 .. a - 1 /\ i < nextWriteAddress
    BY <1>11, <2>3, <2>5, Sizes
  <2>9. ReadByte' = ReadByte
    BY <2>2 DEF WriteAccepted, ReadByte, TrampolineWord
  <2>10. QED
    BY <1>0, <2>3, <2>5, <2>6, <2>7, <2>8, <2>9
<1>3. CASE Finalize
  <2>1. /\ pc = "idle" /\ ~ InCommit /\ Top = nextWriteAddress
        /\ pc' = "commit" /\ InCommit' /\ base' = PageStart(nextWriteAddress)
        /\ UNCHANGED <<flash, received, nextWriteAddress>>
    BY <1>3 DEF Finalize, FinalizeFlash, InCommit, Top, buffers, history
  <2>2. finalizes = 0 /\ Once
    <3>1. finalizes' \in {0, 1} /\ finalizes' = (IF finalizes < 2 THEN finalizes + 1 ELSE 2)
      BY <1>3 DEF Once, Finalize
    <3>2. finalizes = 0
      BY <3>1, Types
    <3>3. QED
      BY <1>3, <3>2 DEF Once, Finalize, FinalizeFlash, history
  <2>3. VectorThere
    BY <2>1, <2>2 DEF VectorThere
  <2>4. ReadByte' = ReadByte
    BY <2>1 DEF ReadByte, TrampolineWord
  <2>5. QED
    BY <1>0, <2>1, <2>2, <2>3, <2>4
<1>4. CASE (\E a \in Addr : WriteRejected(a)) /\ UNCHANGED attinyHistory
  <2>1. /\ pc = "idle" /\ pc' = "idle" /\ cmd' = "WRITE_FLASH"
        /\ UNCHANGED <<flash, received, nextWriteAddress, finalizes, clean>>
    BY <1>4 DEF WriteRejected, buffers, history, attinyHistory
  <2>2. Once /\ finalizes = 0 /\ ~ InCommit' /\ Top' = Top /\ PageStart(Top)' = PageStart(Top)
    BY <2>1 DEF Once, InCommit, Top, PageStart, BufferIndex
  <2>3. VectorThere
    BY <2>1, <2>2 DEF VectorThere
  <2>4. ReadByte' = ReadByte
    BY <2>1 DEF ReadByte, TrampolineWord
  <2>5. QED
    BY <1>0, <2>1, <2>2, <2>3, <2>4
<1>5. CASE CopyByte /\ UNCHANGED attinyHistory
  <2>1. /\ pc = "copy" /\ address' = address + 1 /\ address \in Nat /\ Top = address
        /\ UNCHANGED <<flash, received, nextWriteAddress, finalizes, clean, cmd>>
    BY <1>5, Types DEF CopyByte, Top, history, attinyHistory
  <2>2. PageStart(address) > 0
    <3>1. CASE BufferIndex(address + 1) = 0
      <4>1. /\ pc' = "commit" /\ base' = address + 1 - FLASH_ERASE_SIZE
        BY <1>5, <3>1 DEF CopyByte
      <4>2. base' > 0
        BY <4>1 DEF VectorThere
      <4>3. QED
        BY <2>1, <3>1, <4>1, <4>2, PageEnd
    <3>2. CASE BufferIndex(address + 1) # 0
      <4>1. pc' = "copy" /\ Top' = address + 1 /\ ~ InCommit'
        BY <1>5, <3>2 DEF CopyByte, Top, InCommit
      <4>2. PageStart(Top)' = PageStart(address)
        BY <2>1, <3>2, <4>1, PageNext DEF PageStart, BufferIndex
      <4>3. QED
        BY <4>1, <4>2 DEF VectorThere
    <3>3. QED
      BY <3>1, <3>2
  <2>3. VectorThere /\ Once
    BY <2>1, <2>2 DEF VectorThere, Once
  <2>4. ReadByte' = ReadByte
    BY <2>1 DEF ReadByte, TrampolineWord
  <2>5. QED
    BY <1>0, <2>1, <2>3, <2>4
<1>6. CASE CopyDone /\ UNCHANGED attinyHistory
  <2>1. /\ pc = "copy" /\ pc' = "idle" /\ ~ InCommit' /\ address >= nextWriteAddress
        /\ UNCHANGED <<flash, received, nextWriteAddress, finalizes, clean, cmd>>
    BY <1>6 DEF CopyDone, InCommit, history, attinyHistory
  <2>2. cmd = "WRITE_FLASH" /\ Once /\ clean /\ finalizes = 0
    BY <2>1 DEF Inv1, Locals, CallLocals, Once
  <2>3. address = nextWriteAddress
    BY <2>1, <2>2, Types DEF Buffered, BufferedFrom
  <2>4. Top' = Top /\ PageStart(Top)' = PageStart(Top)
    BY <2>1, <2>3 DEF Top, PageStart, BufferIndex
  <2>5. VectorThere
    BY <2>1, <2>2, <2>4 DEF VectorThere
  <2>6. ReadByte' = ReadByte
    BY <2>1 DEF ReadByte, TrampolineWord
  <2>7. QED
    BY <1>0, <2>1, <2>2, <2>5, <2>6
<1>7. CASE (CommitOk \/ CommitFailed) /\ UNCHANGED attinyHistory
  <2>1. /\ pc = "return" /\ InCommit
        /\ UNCHANGED <<flash, received, nextWriteAddress, finalizes, cmd>>
    BY <1>7 DEF CommitOk, CommitFailed, InCommit, history, attinyHistory, buffers
  <2>2. CommitOk /\ UNCHANGED clean
    <3>1. SUFFICES ASSUME CommitFailed PROVE FALSE
      BY <1>7 DEF CommitOk, history
    <3>2. cmd # "WRITE_FLASH" /\ pc' = "idle" /\ reply'.status = "COMMAND_FAILED"
      BY <3>1 DEF CommitFailed, Reply, Once
    <3>3. cmd = "FINALIZE_FLASH"
      BY <2>1, <3>2 DEF Inv1, TypeOK, TypeInvariant, Locals, CallLocals
    <3>4. finalizes' # 0
      BY <2>1, <3>3, Types DEF Inv1, Locals
    <3>5. QED
      BY <3>2, <3>4 DEF VectorThere, InCommit
  <2>3. VectorThere /\ Once
    BY <2>1, <2>2 DEF VectorThere, Once, CommitOk
  <2>4. ReadByte' = ReadByte
    BY <2>1 DEF ReadByte, TrampolineWord
  <2>5. QED
    BY <1>0, <2>1, <2>3, <2>4
<1>8. CASE CompareStep \/ WriteSteps
  <2>1. /\ InCommit /\ InCommit' /\ base' = base /\ CommitLen' = CommitLen /\ Once
        /\ UNCHANGED <<received, nextWriteAddress>>
    <3>1. CommitStep
      BY <1>8, Steps
    <3>2. Once
      <4>1. ~ StartUpload /\ ~ Restart
        BY <3>1 DEF CommitStep, InCommit, StartUpload, WriteAccepted, Restart, Reset
      <4>2. QED
        BY <4>1, OnceKept
    <3>3. QED
      BY <3>1, <3>2 DEF CommitStep
  <2>2. base = 0 => i < CommitLen
    <3>1. CASE cmd = "WRITE_FLASH"
      BY <1>11, <2>1, <3>1 DEF Inv1, Locals, CallLocals
    <3>2. CASE cmd # "WRITE_FLASH"
      BY <2>1, <3>2, Types DEF Inv1, Locals, CallLocals
    <3>3. QED
      BY <3>1, <3>2
  <2>3. CASE ProgramTrampoline
    <3>1. base = 0 /\ pc = "trampoline"
      BY <2>3, ProgramTrampolineFlash
    <3>2. writeBuffer[i] = received[i]
      BY <2>1, <2>2, <3>1 DEF VectorBuffered, VectorIn
    <3>3. QED
      BY <2>1, <2>3, <3>2, VectorProgrammed
  <2>4. CASE EraseTrampoline
    <3>1. pc' = "trampoline" /\ base = 0
      BY <2>4, EraseTrampolineFlash DEF EraseTrampoline
    <3>2. QED
      BY <2>1, <3>1 DEF VectorThere
  <2>5. CASE CommitSkip(ReadByte) /\ base = 0
    <3>1. /\ pc = "commit" /\ offset = 0 /\ flash' = flash
          /\ \A k \in 0 .. len - 1 : writeBuffer[k] = ReadByte[AppAddress(base + k)]
      BY <2>5 DEF CommitSkip, EqualToFlash, Inv1, Locals, CallLocals
    <3>2. writeBuffer[i] = received[i]
      BY <2>1, <2>2, <2>5, <3>1 DEF VectorBuffered, VectorIn
    <3>3. i \in 0 .. len - 1 /\ base + i = i
      BY <1>11, <2>2, <2>5, <3>1, Types DEF CommitLen
    <3>4. ReadByte[i] = writeBuffer[i]
      BY <1>11, <3>1, <3>3
    <3>5. ReadByte' = ReadByte
      BY <3>1 DEF ReadByte, TrampolineWord
    <3>6. QED
      BY <2>1, <3>2, <3>4, <3>5
  <2>6. CASE ~ ProgramTrampoline /\ ~ EraseTrampoline /\ ~ (CommitSkip(ReadByte) /\ base = 0)
    <3>1. VectorThere
      <4>1. CASE base > 0
        BY <2>1, <4>1 DEF VectorThere
      <4>2. CASE base = 0
        <5>1. CASE CommitStart(ReadByte)
          <6>1. pc' = "row" /\ offset' = 0
            BY <5>1 DEF CommitStart, commitV, Inv1, Locals, CallLocals
          <6>2. QED
            BY <2>1, <4>2, <6>1 DEF VectorThere
        <5>2. CASE CommitDone
          <6>1. pc = "row" /\ len = 0
            BY <5>2 DEF CommitDone
          <6>2. offset > 0
            BY <6>1, Types DEF Inv1, Locals, CallLocals, InRows, CommitLen
          <6>3. QED
            BY <2>1, <6>1, <6>2 DEF VectorThere
        <5>3. CASE RejectVector \/ RejectRow
          <6>1. pc' = "return" /\ err' # 0
            BY <5>3 DEF RejectVector, RejectRow, RowFailed
          <6>2. QED
            BY <2>1, <4>2, <6>1 DEF VectorThere
        <5>4. CASE ErasePage
          BY <2>1, <4>2, <5>4, EraseFlash DEF VectorThere
        <5>5. CASE ProgramRow
          <6>1. pc = "program" \/ (pc = "row" /\ (offset > 0 \/ base = LastPage))
            BY <5>5, ProgramPlace
          <6>2. base # LastPage
            BY <4>2, LastPageLemma, Sizes
          <6>3. QED
            BY <2>1, <6>1, <6>2 DEF VectorThere
        <5>6. QED
          BY <1>8, <2>6, <4>2, <5>1, <5>2, <5>3, <5>4, <5>5 DEF CompareStep, WriteSteps
      <4>3. QED
        BY <4>1, <4>2, Types
    <3>2. ReadByte'[i] = ReadByte[i]
      BY <2>6, VectorRead
    <3>3. QED
      BY <1>0, <2>1, <3>1, <3>2
  <2>7. QED
    BY <2>3, <2>4, <2>5, <2>6
<1>9. CASE UNCHANGED attinyVars
  <2>1. UNCHANGED <<flash, received, pc, base, offset, len, err, finalizes, clean, cmd, address,
                    nextWriteAddress, reply>>
    BY <1>9 DEF attinyVars, attinyHistory, vars
  <2>2. UNCHANGED <<Once, InCommit, Top, PageStart(Top), ReadByte>>
    BY <2>1 DEF Once, InCommit, Top, PageStart, BufferIndex, ReadByte, TrampolineWord
  <2>3. Once /\ VectorThere
    BY <2>1, <2>2 DEF VectorThere
  <2>4. QED
    BY <1>0, <2>1, <2>2, <2>3
<1>10. QED
  BY <1>1, <1>2, <1>3, <1>4, <1>5, <1>6, <1>7, <1>8, <1>9, Actions DEF WriteSteps

-----------------------------------------------------------------------------
(***************************************************************************)
(* The theorems about a confirmed upload.                                  *)
(***************************************************************************)
IInv ==
  /\ Inv1 /\ Erased /\ VectorHeld
  /\ RowsDone /\ PageDone /\ LastErased
  /\ Buffered /\ Behind /\ Durable
  /\ VectorBuffered /\ Relocation /\ VectorStored

\* The inductive invariant holds at power-on.
LEMMA InitIInv == Init => IInv
<1> SUFFICES ASSUME Init PROVE IInv
  OBVIOUS
<1>1. /\ pc = "idle" /\ cmd = "none" /\ nextWriteAddress = 0 /\ ~ InCommit /\ Top = 0
      /\ finalizes = 0 /\ ~ fresh /\ ResetVector = BootVector
  BY DEF Init, RamInit, InCommit, Top
<1>2. PageStart(0) = 0
  BY VectorPlace
<1>3. Erased /\ VectorHeld /\ RowsDone /\ PageDone /\ LastErased /\ Durable /\ Relocation
  BY <1>1 DEF Erased, VectorHeld, RowsDone, PageDone, LastErased, Clear, Durable, UploadConfirmed,
              Relocation
<1>4. Buffered /\ Behind /\ VectorBuffered
  BY <1>1, <1>2 DEF Buffered, BufferedFrom, Behind, Bound, VectorBuffered, VectorIn
<1>5. VectorStored
  BY <1>1, <1>2 DEF VectorStored, VectorThere
<1>6. QED
  BY <1>3, <1>4, <1>5, InitInv1 DEF IInv

\* Every step keeps the inductive invariant.
LEMMA StepIInv == IInv /\ [Next]_attinyVars => IInv'
  BY StepInv1, StepErased, StepVectorHeld, StepRowsDone, StepPageDone, StepLastErased,
     StepBufferedHere, StepBehind, StepDurable, StepVectorBuffered, StepRelocation,
     StepVectorStored
  DEF IInv

\* The inductive invariant holds in every reachable state.
LEMMA Invariance == Spec => []IInv
  BY InitIInv, StepIInv, PTL DEF Spec

\* The last page of a confirmed upload that changed page 0 is stored as sent.
THEOREM LastPageDurableCorrect == Spec => []LastPageDurable
<1>1. IInv => LastPageDurable
  BY DEF IInv, Durable, Promised, LastPageDurable, Clear, Once, UploadConfirmed
<1>2. QED
  BY Invariance, <1>1, PTL

\* The reset vector of the application reads back as it was sent.
THEOREM VectorDurableCorrect == Spec => []VectorDurable
<1>1. IInv => VectorDurable
  <2> SUFFICES ASSUME IInv, UploadConfirmed, finalizes = 1, NEW i \in {0, 1}, i < nextWriteAddress
               PROVE  Stored(ReadByte, i)
    BY DEF VectorDurable
  <2>1. Once /\ VectorThere
    BY DEF UploadConfirmed, Once, VectorThere
  <2>2. ReadByte[i] = received[i]
    BY <2>1 DEF IInv, VectorStored
  <2>3. QED
    BY <2>2, VectorPlace DEF Stored
<1>2. QED
  BY Invariance, <1>1, PTL

\* After a confirmed upload the trampoline leads where the reset vector that
\* was sent leads.
THEOREM EntersApplicationCorrect == Spec => []EntersApplication
<1>1. IInv => EntersApplication
  <2> DEFINE w == Word(received[0], received[1])
  <2> SUFFICES ASSUME IInv, UploadConfirmed, finalizes = 1, nextWriteAddress >= 2,
                      IsRelativeJump(w)
               PROVE  Target(trampolineStart, TrampolineWord) = Target(0, w)
    BY DEF EntersApplication
  <2>0. 0 \in Addr /\ 1 \in Addr /\ 0 \in Nat /\ 1 \in Nat /\ Inv1
    BY VectorPlace DEF IInv
  <2>1. ReadByte[0] = received[0] /\ ReadByte[1] = received[1]
    <3>1. Once /\ VectorThere
      BY DEF UploadConfirmed, Once, VectorThere
    <3>2. 0 < nextWriteAddress /\ 1 < nextWriteAddress
      BY <2>0, Types
    <3>3. QED
      BY <3>1, <3>2 DEF IInv, VectorStored
  <2>2. TrampolineWord \in Words
    <3>1. trampolineStart \in Cells /\ trampolineStart + 1 \in Cells
      BY LastPageLemma DEF Cells
    <3>2. QED
      BY <2>0, <3>1, Types, WordLemma DEF TrampolineWord
  <2> DEFINE v == offsetRelativeJump(TrampolineWord, trampolineStart)
  <2>3. v \in Words /\ (v # 0 <=> IsRelativeJump(TrampolineWord))
    <3>1. trampolineStart \in Int
      BY LastPageLemma
    <3>2. QED
      BY <2>2, <3>1, JumpLemma
  <2>4. LowByte(v) = received[0] /\ HighByte(v) = received[1]
    BY <2>0, <2>1 DEF ReadByte
  <2> HIDE DEF v
  <2>5. v = w
    <3>1. Word(LowByte(v), HighByte(v)) = v
      BY <2>3, WordLemma
    <3>2. QED
      BY <2>4, <3>1
  <2>6. v # 0
    <3>1. SUFFICES ASSUME v = 0 PROVE FALSE
      OBVIOUS
    <3>2. IsRelativeJump(0)
      BY <2>5, <3>1
    <3>3. 2 * JUMP \in Nat \ {0} /\ 0 \in 0 .. (2 * JUMP) - 1
      BY WordAssumption
    <3>4. 0 \div (2 * JUMP) = 0
      BY <3>3
    <3>5. QED
      BY <3>2, <3>4, WordAssumption DEF IsRelativeJump
  <2>7. IsRelativeJump(TrampolineWord)
    BY <2>3, <2>6
  <2>8. Target(trampolineStart, TrampolineWord) = Target(0, v)
    BY <2>2, <2>3, <2>7, JumpTarget DEF v
  <2>9. QED
    BY <2>5, <2>8
<1>2. QED
  BY Invariance, <1>1, PTL

-----------------------------------------------------------------------------
(***************************************************************************)
(* The ATtiny build implements UploadPromise, for all but the reset vector *)
(* and the page of the trampoline: every step is one of it or a stutter.   *)
(***************************************************************************)
\* The addresses nothing is promised about, the open page, the command at hand.
ExemptHere == {0, 1} \cup { i \in Addr : InTrampolinePage(i) \/ i >= FLASH_SIZE }
openBar == IF Rewriting THEN base .. base + FLASH_ERASE_SIZE - 1 ELSE {}
doingBar == IF pc = "idle" THEN "none" ELSE cmd

\* What READ_FLASH may show: bytes.
ReadByteOK == ReadByte \in [Addr -> Byte]

\* Reading back gives bytes.
LEMMA ReadByteType == Inv1 => ReadByteOK
<1> SUFFICES ASSUME Inv1 PROVE ReadByte \in [Addr -> Byte]
  BY DEF ReadByteOK
<1> DEFINE v == offsetRelativeJump(TrampolineWord, trampolineStart)
<1>1. TrampolineWord \in Words
  <2>1. trampolineStart \in Cells /\ trampolineStart + 1 \in Cells
    BY LastPageLemma DEF Cells
  <2>2. QED
    BY <2>1, Types, WordLemma DEF TrampolineWord
<1>2. v \in Words
  <2>1. trampolineStart \in Int
    BY LastPageLemma
  <2>2. QED
    BY <1>1, <2>1, JumpLemma
<1> HIDE DEF v
<1>3. LowByte(v) \in Byte /\ HighByte(v) \in Byte
  BY <1>2, WordLemma
<1>4. \A a \in Addr : flash[a % FLASH_SIZE] \in Byte
  <2>1. SUFFICES ASSUME NEW a \in Addr PROVE flash[a % FLASH_SIZE] \in Byte
    OBVIOUS
  <2>2. a \in Nat
    BY DEF Addr
  <2>3. a % FLASH_SIZE \in Cells
    BY <2>2, LastPageLemma, ModRange DEF Cells
  <2>4. QED
    BY <2>3, Types
<1>5. ReadByte = [a \in Addr |-> IF a = 0 THEN LowByte(v) ELSE IF a = 1 THEN HighByte(v)
                                 ELSE flash[a % FLASH_SIZE]]
  BY DEF ReadByte, v
<1>6. QED
  BY <1>3, <1>4, <1>5

\* And it does so after a step.
LEMMA ReadByteTypeNext == Inv1' => ReadByteOK'
BY ReadByteType, PTL

\* The other addresses are cells of their own.
LEMMA NotExempt ==
  ASSUME NEW i \in Addr, i \notin ExemptHere
  PROVE  /\ i \in Cells /\ i \in Nat /\ i > 1
         /\ i < LastPage \/ i > trampolineStart + 1
         /\ AppAddress(i) = i
         /\ ReadByte[i] = flash[i] /\ ReadByte'[i] = flash'[i]
<1>1. i \in Nat /\ i # 0 /\ i # 1 /\ ~ InTrampolinePage(i) /\ i < FLASH_SIZE
  BY LastPageLemma DEF ExemptHere, Addr
<1>2. i < LastPage \/ i > trampolineStart + 1
  BY <1>1, TrampolinePage, LastPageLemma, Sizes
<1>3. i \in 0 .. FLASH_SIZE - 1
  BY <1>1, LastPageLemma
<1>4. i % FLASH_SIZE = i /\ AppAddress(i) = i
  BY <1>3, CellLemma
<1>5. QED
  BY <1>1, <1>2, <1>3, <1>4 DEF ReadByte, Cells

\* A change of cells of the open page and the page of the trampoline is a
\* Change of UploadPromise.
LEMMA StepChange ==
  ASSUME Inv1, Inv1', Rewriting, Rewriting', pc # "idle", pc' # "idle",
         UNCHANGED <<received, nextWriteAddress, clean, cmd, base, reply>>,
         \A c \in Cells : c \notin base .. base + FLASH_ERASE_SIZE - 1 \/ c > trampolineStart + 1 =>
                            \/ flash'[c] = flash[c]
                            \/ c \in LastPage .. trampolineStart + 1
  PROVE  Promise!Change
<1>1. ReadByte' \in [Addr -> Byte]
  BY ReadByteTypeNext DEF ReadByteOK
<1>2. base \in base .. base + FLASH_ERASE_SIZE - 1
  BY Types, Sizes
<1>3. ASSUME NEW i \in Addr, i \notin ExemptHere,
             i \notin (base .. base + FLASH_ERASE_SIZE - 1) \cap (0 .. ApplicationSize - 1)
      PROVE  ReadByte'[i] = ReadByte[i]
  <2>1. /\ i \in Cells /\ i \in Nat
        /\ i < LastPage \/ i > trampolineStart + 1
        /\ ReadByte[i] = flash[i] /\ ReadByte'[i] = flash'[i]
    BY <1>3, NotExempt
  <2>2. i \notin base .. base + FLASH_ERASE_SIZE - 1 \/ i > trampolineStart + 1
    <3>1. i \notin 0 .. trampolineStart - 1 \/ i \notin base .. base + FLASH_ERASE_SIZE - 1
      BY <1>3 DEF trampolineStart
    <3>2. i < trampolineStart => i \in 0 .. trampolineStart - 1
      BY <2>1, LastPageLemma
    <3>3. i >= trampolineStart => i > trampolineStart + 1
      BY <2>1, LastPageLemma, Sizes
    <3>4. QED
      BY <2>1, <3>1, <3>2, <3>3, LastPageLemma
  <2>3. i \notin LastPage .. trampolineStart + 1
    BY <2>1, LastPageLemma
  <2>4. QED
    BY <2>1, <2>2, <2>3
<1>4. openBar = base .. base + FLASH_ERASE_SIZE - 1 /\ openBar' = openBar /\ openBar # {}
  <2>1. openBar = base .. base + FLASH_ERASE_SIZE - 1 /\ openBar' = openBar
    BY DEF openBar
  <2>2. QED
    BY <1>2, <2>1, Zenon
<1>5. doingBar' = doingBar
  BY DEF doingBar
<1>6. \A i \in Addr \ ((openBar \cap (0 .. ApplicationSize - 1)) \cup ExemptHere) :
         ReadByte'[i] = ReadByte[i]
  BY <1>3, <1>4
<1>7. QED
  BY <1>1, <1>4, <1>5, <1>6 DEF Promise!Change, Promise!Addr, Addr, ExemptHere, openBar, doingBar

\* A page is opened for a byte of it that was sent, and that flash lacks, or
\* that nothing is promised about.
LEMMA StepOpen ==
  ASSUME IInv, CommitStart(ReadByte)
  PROVE  Promise!Open(base) /\ base \in { Promise!PageStart(i) : i \in Promise!Due }
<1>1. /\ Inv1 /\ Buffered /\ InCommit /\ offset = 0 /\ pc = "commit"
      /\ pc' = "row" /\ UNCHANGED <<flash, buffers, cmd, commitV, reply, history>>
  BY DEF IInv, Inv1, CommitStart, InCommit, Locals, CallLocals
<1>2. PICK k \in 0 .. len - 1 : writeBuffer[k] # ReadByte[AppAddress(base + k)]
  BY DEF CommitStart, EqualToFlash
<1>3. base \in Nat /\ base % FLASH_ERASE_SIZE = 0 /\ PageStart(base) = base
  BY <1>1, Types, PageStartOfStart DEF Inv1, Locals, CallLocals
<1>4. End \in Nat /\ End <= nextWriteAddress /\ base + len <= End
  BY <1>1, CommitEnd, Types DEF Inv1, TypeOK, Locals, CommitLen
<1>5. /\ base + k \in Addr
      /\ base + k \in 0 .. End - 1
      /\ base \in 0 .. End - 1
      /\ base + k \in base .. base + FLASH_ERASE_SIZE - 1
      /\ k \in 0 .. CommitLen - 1
  <2>1. len <= FLASH_ERASE_SIZE /\ len \in Nat /\ k \in Nat /\ k < len /\ nextWriteAddress < ADDR
    BY <1>1, <1>2, Types, Sizes DEF Inv1, TypeOK, TypeInvariant
  <2>2. CommitLen = len
    BY <1>1, <2>1 DEF CommitLen
  <2>3. QED
    BY <1>1, <1>3, <1>4, <2>1, <2>2, Types, Sizes DEF Addr
<1>6. ASSUME clean, base + k \notin ExemptHere
      PROVE  ReadByte[base + k] # received[base + k]
  <2>1. base + k > 1 /\ AppAddress(base + k) = base + k
    BY <1>5, <1>6, NotExempt
  <2>2. base + k >= 2
    BY <1>3, <1>5, <2>1
  <2>3. writeBuffer[k] = received[base + k]
    BY <1>1, <1>5, <1>6, <2>2 DEF Buffered, BufferedFrom
  <2>4. QED
    BY <1>2, <2>1, <2>3
<1>7. Promise!Due = 0 .. End - 1
  BY <1>1 DEF Promise!Due, Promise!PageStart, End, PageStart, BufferIndex
<1>8. Promise!PageStart(base) = base
  BY <1>3 DEF Promise!PageStart, PageStart, BufferIndex
<1>9. Promise!PageAt(base) = base .. base + FLASH_ERASE_SIZE - 1
  BY DEF Promise!PageAt
<1>10. clean => \/ Promise!PageAt(base) \cap ExemptHere # {}
                \/ ~ Promise!Kept(Promise!PageAt(base) \cap Promise!Due)
  BY <1>5, <1>6, <1>7, <1>9 DEF Promise!Kept, ExemptHere
<1>11. err' = err /\ err = 0
  BY <1>1 DEF CommitStart, Inv1, Locals, CallLocals
<1>12. ReadByte' = ReadByte
  BY <1>1 DEF ReadByte, TrampolineWord
<1>13. Promise!Open(base)
  BY <1>1, <1>5, <1>7, <1>9, <1>10, <1>12
     DEF Promise!Open, Promise!Addr, Promise!PageAt, Rewriting, buffers, commitV, history, ExemptHere
<1>14. QED
  BY <1>5, <1>7, <1>8, <1>13

\* Steps of the bootloader that a master does not see.
LEMMA StepStutter ==
  ASSUME UNCHANGED <<flash, received, nextWriteAddress, clean, reply>>,
         doingBar' = doingBar, openBar' = openBar
  PROVE  UNCHANGED Promise!promiseVars
<1>1. ReadByte' = ReadByte
  BY DEF ReadByte, TrampolineWord
<1>2. QED
  BY <1>1 DEF Promise!promiseVars, doingBar, openBar, Rewriting

\* A command that is answered OK has stored what it was due to.
LEMMA StepOk ==
  ASSUME IInv, IInv', CopyDone \/ (CommitOk /\ cmd # "WRITE_FLASH")
  PROVE  Promise!Ok
<1>1. Inv1 /\ Behind' /\ Durable' /\ Inv1'
  BY DEF IInv
<1>2. /\ pc \in {"copy", "return"} /\ err = 0 /\ pc' = "idle"
      /\ cmd = IF pc = "copy" THEN "WRITE_FLASH" ELSE "FINALIZE_FLASH"
      /\ reply'.status = "OK"
      /\ UNCHANGED <<flash, nextWriteAddress, cmd, history>>
  BY <1>1 DEF CopyDone, CommitOk, Inv1, TypeOK, TypeInvariant, Locals, CallLocals, Reply, buffers
<1>3. ReadByte' = ReadByte
  BY <1>2 DEF ReadByte, TrampolineWord
<1>4. ASSUME clean, NEW i \in 0 .. End - 1, i \notin ExemptHere
      PROVE  ReadByte[i] = received[i]
  <2>1. i \in Addr
    <3>1. End <= nextWriteAddress /\ End \in Nat
      BY <1>1, CommitEnd DEF Inv1, TypeOK, Locals
    <3>2. QED
      BY <1>1, <3>1, Types, Sizes DEF Addr
  <2>2. /\ i \in Nat /\ i > 1 /\ AppAddress(i) = i
        /\ ~ InTrampolinePage(i)
    BY <1>4, <2>1, NotExempt DEF ExemptHere
  <2>3. Promised(i)'
    BY <2>2 DEF Promised, InTrampolinePage
  <2>4. Stored(ReadByte, i)'
    <3>1. CASE cmd = "WRITE_FLASH"
      <4>1. Bound' = End /\ clean'
        BY <1>2, <1>4, <3>1 DEF Bound, Top, InCommit, history, End, PageStart, BufferIndex
      <4>2. i \in 2 .. Bound' - 1
        <5>1. i \in 2 .. End - 1
          BY <2>2, <1>4
        <5>2. QED
          BY <4>1, <5>1
      <4>3. QED
        BY <1>1, <2>3, <4>1, <4>2 DEF Behind, Promised, Stored, AppAddress, InTrampolinePage
    <3>2. CASE cmd # "WRITE_FLASH"
      <4>1. UploadConfirmed'
        BY <1>2, <1>4, <3>2 DEF UploadConfirmed, history
      <4>2. i \in 2 .. nextWriteAddress' - 1
        BY <1>2, <1>4, <2>2, <3>2 DEF End
      <4>3. QED
        BY <1>1, <2>3, <4>1, <4>2 DEF Durable, Promised, Stored, AppAddress, InTrampolinePage
    <3>3. QED
      BY <3>1, <3>2
  <2>5. QED
    BY <1>2, <1>3, <2>2, <2>4 DEF Stored, history, AppAddress
<1>5. Promise!Due = 0 .. End - 1
  BY <1>2 DEF Promise!Due, Promise!PageStart, End, PageStart, BufferIndex
<1>6. clean => Promise!Kept(Promise!Due)
  BY <1>4, <1>5 DEF Promise!Kept, ExemptHere
<1>7. ~ Rewriting /\ ~ Rewriting'
  BY <1>2 DEF Rewriting
<1>8. QED
  BY <1>2, <1>3, <1>6, <1>7 DEF Promise!Ok, history

\* A write that is accepted is a Write of UploadPromise.
LEMMA StepWrite ==
  ASSUME IInv', NEW a \in Addr, NEW n \in 0 .. MaxData, NEW img \in Images,
         WriteAccepted(a, n, img)
  PROVE  a \in {0, nextWriteAddress} /\ Promise!Write(a, n)
<1>1. /\ pc = "idle" /\ pc' = "copy" /\ Expected(a) /\ cmd' = "WRITE_FLASH"
      /\ UNCHANGED <<flash, reply>>
  BY DEF WriteAccepted
<1>2. ~ Rewriting /\ ~ Rewriting'
  BY <1>1 DEF Rewriting
<1>3. received' \in [Addr -> Byte]
  BY DEF IInv, Inv1, TypeOK, TypeInvariant
<1>4. \A i \in Addr \ (a .. a + n - 1) : received'[i] = IF a = 0 THEN 0 ELSE received[i]
  BY DEF WriteAccepted
<1>5. nextWriteAddress' = (a + n) % ADDR /\ clean' = ((a = 0 \/ clean) /\ a + n < ADDR)
  BY DEF WriteAccepted, Advance
<1>6. ReadByte' = ReadByte
  BY <1>1 DEF ReadByte, TrampolineWord
<1>7. QED
  BY <1>1, <1>2, <1>3, <1>4, <1>5, <1>6 DEF Promise!Write, Promise!Addr, Addr, Expected

\* Only cells of the open page, below the trampoline, and of the page of the
\* trampoline change.
LEMMA ChangedCells ==
  ASSUME Inv1, EraseTrampoline \/ ProgramTrampoline \/ ErasePage \/ ProgramRow,
         NEW c \in Cells,
         c \notin base .. base + FLASH_ERASE_SIZE - 1 \/ c > trampolineStart + 1
  PROVE  flash'[c] = flash[c] \/ c \in LastPage .. trampolineStart + 1
<1>1. c \in Nat /\ LastPage <= trampolineStart
  BY LastPageLemma, Sizes DEF Cells
<1>2. CASE EraseTrampoline
  BY <1>2, EraseTrampolineFlash
<1>3. CASE ProgramTrampoline
  <2>1. trampolineStart \in LastPage .. trampolineStart + 1
        /\ trampolineStart + 1 \in LastPage .. trampolineStart + 1
    BY <1>1, LastPageLemma
  <2>2. QED
    BY <1>3, <2>1, ProgramTrampolineFlash, Zenon
<1>4. CASE ErasePage
  <2>1. base + FLASH_ERASE_SIZE <= LastPage
    BY <1>4, EraseFlash
  <2>2. c \notin base .. base + FLASH_ERASE_SIZE - 1
    BY <1>1, <2>1, Types, LastPageLemma, Sizes
  <2>3. QED
    BY <1>4, <2>2, EraseFlash
<1>5. CASE ProgramRow
  <2> DEFINE n == WordBytes(RowLen)
  <2>1. /\ n \in 2 .. FLASH_WRITE_SIZE /\ base + offset + n <= trampolineStart
        /\ InRows /\ len > 0
    BY <1>5, ProgramPlace
  <2>2. offset + FLASH_WRITE_SIZE <= FLASH_ERASE_SIZE
    BY <2>1, RowPlace
  <2>0. n \in Nat /\ base \in Nat /\ offset \in Nat /\ n <= FLASH_WRITE_SIZE
    BY <2>1, Types, Sizes
  <2> HIDE DEF n
  <2>3. c \notin base + offset .. base + offset + n - 1
    <3>1. SUFFICES ASSUME c >= base + offset, c < base + offset + n
                   PROVE  c \in base .. base + FLASH_ERASE_SIZE - 1 /\ c <= trampolineStart + 1
      <4>1. c \in base + offset .. base + offset + n - 1
               => c >= base + offset /\ c < base + offset + n
        BY <1>1, <2>0
      <4>2. c > trampolineStart + 1 <=> ~ (c <= trampolineStart + 1)
        BY <1>1, LastPageLemma
      <4>3. QED
        BY <4>1, <4>2, Zenon
    <3>2. QED
      <4>1. base <= c /\ c <= trampolineStart + 1
        BY <1>1, <2>0, <2>1, <3>1, LastPageLemma
      <4>2. c < base + FLASH_ERASE_SIZE
        BY <1>1, <2>0, <2>2, <3>1, LastPageLemma, Sizes
      <4>3. c \in base .. base + FLASH_ERASE_SIZE - 1
        BY <1>1, <2>0, <4>1, <4>2, Sizes
      <4>4. QED
        BY <4>1, <4>3
  <2>4. c \notin base + offset .. base + offset + WordBytes(RowLen) - 1
    BY <2>3 DEF n
  <2>5. QED
    BY <1>5, <2>4, ProgramFlash
<1>6. QED
  BY <1>2, <1>3, <1>4, <1>5

\* One case per action: each is an action of UploadPromise or a stutter.
LEMMA StepPromise ==
  IInv /\ IInv' /\ [Next]_attinyVars => [Promise!Next]_(Promise!promiseVars)
<1> SUFFICES ASSUME IInv, IInv', [Next]_attinyVars
             PROVE  Promise!Next \/ UNCHANGED Promise!promiseVars
  OBVIOUS
<1>0. Inv1 /\ Inv1' /\ Erased
  BY DEF IInv
<1>1. CASE Restart
  <2>1. ~ Rewriting' /\ doingBar' = "none" /\ Reset
    BY <1>1 DEF Restart, Reset, Rewriting, doingBar
  <2>2. ReadByte' = ReadByte
    BY <2>1 DEF Reset, ReadByte, TrampolineWord
  <2>3. Promise!Restart
    BY <2>1, <2>2 DEF Reset, Promise!Restart, Promise!Fresh, Promise!Addr, Addr, Reply, doingBar
  <2>4. QED
    BY <2>3 DEF Promise!Next
<1>2. ASSUME NEW a \in Addr, WriteRejected(a) PROVE Promise!Next
  <2>1. ~ Rewriting /\ ~ Rewriting'
    BY <1>2 DEF WriteRejected, Rewriting
  <2>2. ReadByte' = ReadByte
    BY <1>2 DEF WriteRejected, ReadByte, TrampolineWord
  <2>3. Promise!Refuse
    BY <1>2, <2>1, <2>2 DEF WriteRejected, Promise!Refuse, Reply, buffers, history
  <2>4. QED
    BY <2>3 DEF Promise!Next
<1>3. CASE Upload
  <2>1. PICK a \in Addr, n \in 0 .. MaxData, img \in Images : WriteAccepted(a, n, img)
    BY <1>3 DEF Upload, Accepted
  <2>2. a \in {0, nextWriteAddress} /\ Promise!Write(a, n)
    BY <2>1, StepWrite
  <2>3. QED
    BY <2>2 DEF Promise!Next
<1>4. CASE Finalize
  <2>1. ~ Rewriting /\ ~ Rewriting' /\ FinalizeFlash
    BY <1>4 DEF Finalize, FinalizeFlash, Rewriting
  <2>2. ReadByte' = ReadByte
    BY <2>1 DEF FinalizeFlash, ReadByte, TrampolineWord
  <2>3. Promise!Finalize
    BY <2>1, <2>2 DEF FinalizeFlash, Promise!Finalize, buffers, history
  <2>4. QED
    BY <2>3 DEF Promise!Next
<1>5. CASE CopyByte
  <2>1. /\ pc = "copy" /\ pc' \in {"copy", "commit"}
        /\ UNCHANGED <<flash, received, nextWriteAddress, clean, reply, cmd>>
    BY <1>5 DEF CopyByte, history
  <2>2. doingBar' = doingBar /\ openBar' = openBar
    BY <2>1 DEF doingBar, openBar, Rewriting
  <2>3. QED
    BY <2>1, <2>2, StepStutter
<1>6. CASE CopyDone \/ (CommitOk /\ cmd # "WRITE_FLASH")
  BY <1>6, StepOk DEF Promise!Next
<1>7. CASE CommitOk /\ cmd = "WRITE_FLASH"
  <2>1. /\ pc = "return" /\ err = 0 /\ pc' = "copy"
        /\ UNCHANGED <<flash, received, nextWriteAddress, clean, reply, cmd>>
    BY <1>7 DEF CommitOk, history, buffers
  <2>2. doingBar' = doingBar /\ openBar' = openBar
    BY <2>1 DEF doingBar, openBar, Rewriting
  <2>3. QED
    BY <2>1, <2>2, StepStutter
<1>8. CASE CommitSkip(ReadByte)
  <2>1. /\ pc = "commit" /\ err' = 0 /\ pc' = "return"
        /\ UNCHANGED <<flash, received, nextWriteAddress, clean, reply, cmd>>
    BY <1>8 DEF CommitSkip, history, buffers
  <2>2. doingBar' = doingBar /\ openBar' = openBar
    BY <2>1 DEF doingBar, openBar, Rewriting
  <2>3. QED
    BY <2>1, <2>2, StepStutter
<1>9. CASE CommitStart(ReadByte)
  BY <1>9, StepOpen DEF Promise!Next
<1>10. base .. base + FLASH_ERASE_SIZE - 1 # {}
  <2>1. base \in base .. base + FLASH_ERASE_SIZE - 1
    BY <1>0, Types, Sizes
  <2>2. QED
    BY <2>1, Zenon
<1>11. CASE CommitDone
  <2>1. /\ pc = "row" /\ err' = 0 /\ pc' = "return"
        /\ UNCHANGED <<flash, received, nextWriteAddress, clean, reply, cmd>>
    BY <1>11 DEF CommitDone, history, buffers
  <2>2. Rewriting /\ ~ Rewriting'
    BY <2>1 DEF Rewriting
  <2>3. ReadByte' = ReadByte
    BY <2>1 DEF ReadByte, TrampolineWord
  <2>4. Promise!Close
    BY <1>10, <2>1, <2>2, <2>3 DEF Promise!Close
  <2>5. QED
    BY <2>4 DEF Promise!Next
<1>12. CASE CommitFailed
  <2>1. /\ pc = "return" /\ err # 0 /\ pc' = "idle"
        /\ clean' = (clean /\ cmd # "WRITE_FLASH")
        /\ reply'.status = "COMMAND_FAILED"
        /\ UNCHANGED <<flash, received, nextWriteAddress, cmd>>
    BY <1>12 DEF CommitFailed, Reply
  <2>2. Rewriting /\ ~ Rewriting'
    BY <2>1 DEF Rewriting
  <2>3. ReadByte' = ReadByte
    BY <2>1 DEF ReadByte, TrampolineWord
  <2>4. Promise!Fail
    BY <1>10, <2>1, <2>2, <2>3 DEF Promise!Fail
  <2>5. QED
    BY <2>4 DEF Promise!Next
<1>13. CASE RejectVector \/ RejectRow
  <2>1. /\ pc \in {"row", "vector"} /\ err' # 0 /\ pc' = "return"
        /\ UNCHANGED <<flash, received, nextWriteAddress, clean, reply, cmd, base>>
    BY <1>13 DEF RejectVector, RejectRow, AtRow, RowReady, RowFailed, RowError, history, buffers, commitV
  <2>2. doingBar' = doingBar /\ openBar' = openBar
    BY <2>1 DEF doingBar, openBar, Rewriting
  <2>3. QED
    BY <2>1, <2>2, StepStutter
<1>14. CASE EraseTrampoline \/ ProgramTrampoline \/ ErasePage \/ ProgramRow
  <2>1. /\ Rewriting /\ Rewriting' /\ pc # "idle" /\ pc' # "idle"
        /\ UNCHANGED <<received, nextWriteAddress, clean, cmd, base, reply>>
    BY <1>14 DEF EraseTrampoline, ProgramTrampoline, ErasePage, ProgramRow, AtRow, RowReady,
                 RowDone, Rewriting, history, buffers, commitV
  <2>2. \A c \in Cells : c \notin base .. base + FLASH_ERASE_SIZE - 1 \/ c > trampolineStart + 1 =>
                            \/ flash'[c] = flash[c]
                            \/ c \in LastPage .. trampolineStart + 1
    BY <1>0, <1>14, ChangedCells
  <2>3. Promise!Change
    BY <1>0, <2>1, <2>2, StepChange
  <2>4. QED
    BY <2>3 DEF Promise!Next
<1>15. CASE UNCHANGED attinyVars
  <2>1. UNCHANGED <<flash, received, nextWriteAddress, clean, reply, cmd, pc, err, base>>
    BY <1>15 DEF attinyVars, vars
  <2>2. doingBar' = doingBar /\ openBar' = openBar
    BY <2>1 DEF doingBar, openBar, Rewriting
  <2>3. QED
    BY <2>1, <2>2, StepStutter
<1>16. CASE CompareStep
  BY <1>8, <1>9, <1>11, <1>16, Zenon DEF CompareStep
<1>17. QED
  BY <1>1, <1>2, <1>3, <1>4, <1>5, <1>6, <1>7, <1>12, <1>13, <1>14, <1>15, <1>16, Actions

\* To a master the ATtiny build is an UploadPromise too.
THEOREM PromiseCorrect == Spec => ImplementsPromise
<1>1. Init => Promise!Init
  <2> SUFFICES ASSUME Init PROVE Promise!Init
    OBVIOUS
  <2>1. ReadByte \in [Addr -> Byte]
    BY InitInv1, ReadByteType DEF ReadByteOK
  <2>2. ~ Rewriting
    BY DEF Init, RamInit, Rewriting
  <2>3. QED
    BY <2>1, <2>2 DEF Init, RamInit, Promise!Init, Promise!Fresh, Promise!Addr, Addr, Reply
<1>2. QED
  BY <1>1, StepPromise, Invariance, PTL DEF Spec, ImplementsPromise, Promise!Spec

-----------------------------------------------------------------------------
(***************************************************************************)
(* The child of an upload is that of AttinyFlash.                           *)
(***************************************************************************)
\* The master's variables have their types, a request stays what it was when it
\* was sent, and there is none when the upload is over.
MasterInv ==
  /\ MasterTypeOK
  /\ frame # "none" => request \in Requests /\ outcome = "running"

\* The numbers the master counts with.
LEMMA MasterNumbers ==
  ASSUME MasterTypeOK
  PROVE  /\ position \in 0 .. ImageSize /\ position \in Nat
         /\ ImageSize \in Nat /\ ImageSize >= 1 /\ ImageSize < ADDR
         /\ request.at \in Addr /\ request.count \in 0 .. MaxData /\ request.count \in Nat
         /\ image \in Images
<1>1. ImageSize \in 1 .. ADDR - 1
  BY UploadAssumption
<1>2. QED
  BY <1>1, Sizes DEF MasterTypeOK

\* What a request asks for.
LEMMA RequestOf ==
  ASSUME MasterTypeOK, request \in Requests
  PROVE  /\ position + request.count <= ImageSize
         /\ \/ /\ request.cmd = "WRITE_FLASH" /\ request.at = position
               /\ request.count >= 1
            \/ /\ request.cmd = "FINALIZE_FLASH" /\ position = ImageSize
               /\ request.count = 0
<1>1. CASE position < ImageSize
  BY <1>1, MasterNumbers DEF Requests
<1>2. CASE ~ (position < ImageSize)
  BY <1>2, MasterNumbers DEF Requests
<1>3. QED
  BY <1>1, <1>2

\* At first the master has nothing sent.
LEMMA InitMaster == MasterInit => MasterInv
<1> SUFFICES ASSUME MasterInit PROVE MasterInv
  OBVIOUS
<1>1. 0 \in Addr /\ 0 \in 0 .. MaxData /\ 0 \in 0 .. ImageSize /\ 0 \in 0 .. MaxCuts
  BY Sizes, UploadAssumption DEF Addr
<1>2. QED
  BY <1>1 DEF MasterInit, MasterInv, MasterTypeOK, NoRequest

\* Whatever a step does, it is one of these to the master.
LEMMA MasterKinds ==
  ASSUME [UploadNext]_uploadVars
  PROVE  \/ MasterSends \/ ChildReplies \/ FrameLost \/ MasterRepeats \/ MasterGivesUp
         \/ MasterReceives \/ ChildReceives \/ MasterStarts \/ ChildRestarts
         \/ UNCHANGED master
BY DEF UploadNext, MasterStep, ChildStarts, ChildWorks, NextUpload, PowerCut, uploadVars

\* The types of the master's variables are kept.
LEMMA StepMaster == MasterInv /\ [UploadNext]_uploadVars => MasterInv'
<1> SUFFICES ASSUME MasterInv, [UploadNext]_uploadVars PROVE MasterInv'
  OBVIOUS
<1>1. MasterTypeOK
  BY DEF MasterInv
<1>2. CASE MasterSends
  <2>1. request' \in Requests /\ UNCHANGED position
    BY <1>2 DEF MasterSends
  <2>2. request' \in [cmd : {"none", "WRITE_FLASH", "FINALIZE_FLASH"}, at : Addr, count : 0 .. MaxData]
    <3>1. CASE position < ImageSize
      <4>1. position \in Addr
        BY <1>1, MasterNumbers, Sizes DEF Addr
      <4>2. PICK n \in 1 .. MaxData : request' = [cmd |-> "WRITE_FLASH", at |-> position, count |-> n]
        BY <2>1, <3>1 DEF Requests
      <4>3. n \in 0 .. MaxData
        BY Sizes
      <4>4. QED
        BY <4>1, <4>2, <4>3
    <3>2. CASE ~ (position < ImageSize)
      <4>1. 0 \in Addr /\ 0 \in 0 .. MaxData
        BY Sizes DEF Addr
      <4>2. QED
        BY <2>1, <3>2, <4>1 DEF Requests
    <3>3. QED
      BY <3>1, <3>2
  <2>3. Requests' = Requests
    BY <2>1 DEF Requests
  <2>4. QED
    BY <1>1, <1>2, <2>1, <2>2, <2>3 DEF MasterSends, MasterInv, MasterTypeOK
<1>3. CASE ChildReplies \/ FrameLost \/ MasterRepeats \/ ChildReceives
  <2>1. /\ UNCHANGED <<outcome, image, position, request, known, cuts, uploaded>>
        /\ frame # "none" /\ frame' \in {"request", "child", "reply", "lost"}
        /\ repeated' \in BOOLEAN
    BY <1>1, <1>3 DEF ChildReplies, FrameLost, MasterRepeats, ChildReceives, MasterTypeOK
  <2>2. Requests' = Requests
    BY <2>1 DEF Requests
  <2>3. QED
    BY <1>1, <2>1, <2>2 DEF MasterInv, MasterTypeOK
<1>4. CASE ChildRestarts
  <2>1. /\ UNCHANGED <<outcome, image, position, request, repeated, uploaded>>
        /\ frame' \in {"none", "lost"} /\ (frame' # "none" => frame # "none")
        /\ known' = FALSE
    BY <1>4 DEF ChildRestarts
  <2>2. cuts' \in 0 .. MaxCuts
    BY <1>1, <1>4, UploadAssumption DEF ChildRestarts, MasterTypeOK
  <2>3. Requests' = Requests
    BY <2>1 DEF Requests
  <2>4. QED
    BY <1>1, <2>1, <2>2, <2>3 DEF MasterInv, MasterTypeOK
<1>5. CASE MasterGivesUp \/ MasterReceives
  <2>1. /\ UNCHANGED <<image, known, cuts>> /\ frame' = "none" /\ frame # "none"
        /\ request' = NoRequest /\ repeated' = FALSE
        /\ outcome' \in {"running", "done", "failed"}
        /\ uploaded' \subseteq uploaded \cup {image}
    BY <1>5 DEF MasterGivesUp, MasterReceives
  <2>2. position' \in 0 .. ImageSize
    <3>1. position' \in {position, position + request.count}
      BY <1>5 DEF MasterGivesUp, MasterReceives
    <3>2. position + request.count <= ImageSize
      BY <1>1, <2>1, RequestOf DEF MasterInv
    <3>3. QED
      BY <1>1, <3>1, <3>2, MasterNumbers
  <2>3. request' \in [cmd : {"none", "WRITE_FLASH", "FINALIZE_FLASH"}, at : Addr, count : 0 .. MaxData]
    <3>1. 0 \in Addr /\ 0 \in 0 .. MaxData
      BY Sizes DEF Addr
    <3>2. QED
      BY <2>1, <3>1 DEF NoRequest
  <2>4. QED
    BY <1>1, <2>1, <2>2, <2>3 DEF MasterInv, MasterTypeOK
<1>6. CASE MasterStarts
  <2>1. /\ outcome' = "running" /\ image' \in Images /\ position' = 0 /\ known' = TRUE
        /\ uploaded' \subseteq uploaded /\ UNCHANGED <<request, repeated, frame, cuts>>
    BY <1>6 DEF MasterStarts
  <2>2. 0 \in 0 .. ImageSize
    BY UploadAssumption, Sizes
  <2>3. MasterTypeOK'
    BY <1>1, <2>1, <2>2 DEF MasterTypeOK
  <2>4. QED
    BY <1>6, <2>1, <2>3 DEF MasterInv, MasterStarts
<1>7. CASE UNCHANGED master
  <2>1. Requests' = Requests
    BY <1>7 DEF master, Requests
  <2>2. QED
    BY <1>1, <1>7, <2>1 DEF master, MasterInv, MasterTypeOK
<1>8. QED
  BY <1>2, <1>3, <1>4, <1>5, <1>6, <1>7, MasterKinds

\* Every step of an upload is one of the child, or leaves it alone.
LEMMA ChildSteps == MasterInv /\ [UploadNext]_uploadVars => [Next]_attinyVars
<1> SUFFICES ASSUME MasterInv, [UploadNext]_uploadVars PROVE Next \/ UNCHANGED attinyVars
  OBVIOUS
<1>1. CASE ChildStarts
  <2>1. /\ request.at \in Addr /\ request.count \in 0 .. MaxData /\ image \in Images
    BY MasterNumbers DEF MasterInv
  <2>2. \/ Accepted(request.at, request.count, image)
        \/ WriteRejected(request.at) /\ UNCHANGED attinyHistory
        \/ Finalize
    BY <1>1 DEF ChildStarts
  <2>3. CASE Accepted(request.at, request.count, image)
    BY <2>1, <2>3, Zenon DEF Next, Upload
  <2>4. CASE WriteRejected(request.at) /\ UNCHANGED attinyHistory
    BY <2>1, <2>4, Zenon DEF Next
  <2>5. QED
    BY <2>2, <2>3, <2>4, Zenon DEF Next
<1>2. CASE ChildWorks
  BY <1>2, Zenon DEF ChildWorks, Next
<1>3. CASE NextUpload \/ PowerCut \/ (MasterStep /\ UNCHANGED attinyVars) \/ UNCHANGED uploadVars
  BY <1>3, Zenon DEF NextUpload, PowerCut, Next, uploadVars
<1>4. QED
  BY <1>1, <1>2, <1>3 DEF UploadNext

\* So what was proved of AttinyFlash holds in every upload.
THEOREM ChildCorrect == UploadSpec => Spec
<1>1. UploadInit => Init /\ MasterInv
  BY InitMaster DEF UploadInit
<1>2. QED
  BY <1>1, StepMaster, ChildSteps, PTL DEF UploadSpec, Spec

\* The type invariant holds in every reachable state.
THEOREM UploadTypeCorrect == UploadSpec => []UploadTypeOK
<1>1. UploadInit => MasterInv
  BY InitMaster DEF UploadInit
<1>2. MasterInv /\ TypeOK => UploadTypeOK
  BY DEF MasterInv, UploadTypeOK
<1>3. QED
  BY <1>1, <1>2, StepMaster, ChildCorrect, TypeCorrect, PTL DEF UploadSpec

-----------------------------------------------------------------------------
(***************************************************************************)
(* The inductive invariant of an upload, when flash does not fail and the  *)
-----------------------------------------------------------------------------
(***************************************************************************)
(* The inductive invariant of an upload whose image ends below the         *)
(* trampoline.                                                             *)
(***************************************************************************)
\* A longer image is refused by writePage, when it comes to that.
ImageFits == ImageSize <= trampolineStart

\* The child is at work exactly while the master waits for its reply, and on
\* what the master asked it.
Working ==
  /\ frame # "child" => pc = "idle"
  /\ frame \in {"child", "reply"} => known /\ cmd = request.cmd

\* The child has taken the first p bytes of the image, and nothing else.
Has(p) ==
  /\ clean
  /\ nextWriteAddress = p
  /\ \A i \in 0 .. p - 1 : received[i] = image[i]

\* A child that has not restarted is where the master takes it to be, or one
\* request further, when the reply to that was lost.  Before the first request
\* it may be anywhere: a write at 0 starts over.
Sync ==
  known /\ outcome = "running" =>
    \/ frame \in {"none", "request", "lost"} /\ (position = 0 \/ Has(position))
    \/ frame # "none" /\ Has(position + request.count)

\* An image that was uploaded is in flash, and no page is rewritten for it.
Uploaded ==
  /\ uploaded \subseteq {image}
  /\ outcome = "done" => image \in uploaded
  /\ image \in uploaded => InFlash(ReadByte) /\ ~ InRows

\* An upload is finalized when it is complete, and no write follows in it.
Finalized ==
  finalizes > 0 =>
    /\ clean /\ nextWriteAddress = ImageSize
    /\ pc # "idle" => cmd = "FINALIZE_FLASH"

\* What was received can be read.
AllStored == \A i \in 0 .. ImageSize - 1 : ReadByte[AppAddress(i)] = received[i]

\* Once an upload has been finalized, it is in flash, and finalizing it again
\* rewrites nothing.
Settled == finalizes = 2 \/ (finalizes = 1 /\ pc = "idle") => AllStored /\ ~ InRows

\* Page 0 reads as that of an image.
ReadsPageZero(img) == \A i \in 0 .. FLASH_ERASE_SIZE - 1 : ReadByte[i] = img[i]

\* If page 0 reads as that of an image, the last page holds nothing but bytes
\* of that image: cut uploads leave both or neither, so the last page can be
\* programmed although page 0 is skipped, and nothing erases it then.
Matching ==
  \A img \in Images : ReadsPageZero(img) =>
    \A c \in LastPage .. ImageSize - 1 : flash[c] \in {ERASED, img[c]}

\* While page 0 is rewritten, the last page is erased.
LastClean ==
  \/ pc \in {"trampoline", "vector"}
  \/ pc \in {"row", "program"} /\ base = 0 /\ (pc = "program" \/ offset > 0)
  => \A c \in LastPage .. trampolineStart - 1 : flash[c] = ERASED

\* The rows of the last page that are done.
LastRows ==
  pc = "row" /\ base = LastPage =>
    \A c \in LastPage .. LastPage + offset - 1 : c < ImageSize => flash[c] = received[c]

\* The last page when it is done.
LastDone ==
  pc = "return" /\ base = LastPage =>
    \A c \in LastPage .. ImageSize - 1 : flash[c] = received[c]

UInv ==
  /\ MasterInv /\ IInv /\ Working /\ Sync /\ err = 0 /\ Uploaded
  /\ Finalized /\ Settled /\ Matching
  /\ LastClean /\ LastRows /\ LastDone

\* The image, where it is in flash: it does not end in page 0, and if it reaches
\* the last page, it ends there.
LEMMA ImagePlace ==
  ASSUME ImageFits
  PROVE  /\ ImageSize \in Nat /\ ImageSize < ADDR
         /\ FLASH_ERASE_SIZE < ImageSize /\ ImageSize <= trampolineStart
         /\ ImageSize < FLASH_SIZE
         /\ PageStart(ImageSize) \in Nat /\ PageStart(ImageSize) >= FLASH_ERASE_SIZE
         /\ ImageSize >= LastPage => PageStart(ImageSize) = LastPage
<1>1. /\ ImageSize \in Nat /\ ImageSize < ADDR /\ FLASH_ERASE_SIZE < ImageSize
      /\ ImageSize <= trampolineStart /\ ImageSize < FLASH_SIZE
  BY UploadAssumption, ImageAssumption, LastPageLemma, Sizes DEF ImageFits
<1> DEFINE p == PageStart(ImageSize)
<1>2. p \in Nat /\ p % FLASH_ERASE_SIZE = 0 /\ p <= ImageSize /\ ImageSize < p + FLASH_ERASE_SIZE
  BY <1>1, PageLemma, Zenon
<1> HIDE DEF p
<1>3. p >= FLASH_ERASE_SIZE
  <2>1. 0 < p /\ 0 \in Nat
    BY <1>1, <1>2, Sizes
  <2>2. 0 % FLASH_ERASE_SIZE = 0
    BY Sizes, ModSmall
  <2>3. 0 + FLASH_ERASE_SIZE <= p
    BY <1>2, <2>1, <2>2, Sizes, ModGap, Zenon
  <2>4. QED
    BY <1>2, <2>3, Sizes
<1>4. ASSUME ImageSize >= LastPage PROVE p = LastPage
  <2>1. ~ (p < LastPage)
    <3>1. SUFFICES ASSUME p < LastPage PROVE FALSE
      OBVIOUS
    <3>2. p + FLASH_ERASE_SIZE <= LastPage
      BY <1>2, <3>1, LastPageLemma, Sizes, ModGap, Zenon
    <3>3. QED
      BY <1>1, <1>2, <1>4, <3>2, LastPageLemma, Sizes
  <2>2. ~ (LastPage < p)
    <3>1. SUFFICES ASSUME LastPage < p PROVE FALSE
      OBVIOUS
    <3>2. LastPage + FLASH_ERASE_SIZE <= p
      BY <1>2, <3>1, LastPageLemma, Sizes, ModGap, Zenon
    <3>3. QED
      BY <1>1, <1>2, <3>2, LastPageLemma, Sizes
  <2>3. QED
    BY <1>2, <2>1, <2>2, LastPageLemma
<1>5. QED
  BY <1>1, <1>2, <1>3, <1>4 DEF p

\* But for the reset vector, what is below the end of flash is read from where
\* it is.
LEMMA ReadCell ==
  ASSUME NEW c \in 2 .. FLASH_SIZE - 1
  PROVE  /\ c \in Nat /\ c \in Addr /\ c \in Cells /\ AppAddress(c) = c
         /\ ReadByte[c] = flash[c] /\ ReadByte'[c] = flash'[c]
<1>1. c \in 0 .. FLASH_SIZE - 1 /\ c # 0 /\ c # 1 /\ c \in Nat
  BY LastPageLemma
<1>2. c % FLASH_SIZE = c /\ AppAddress(c) = c /\ c \in Addr
  BY <1>1, CellLemma
<1>3. QED
  BY <1>1, <1>2 DEF ReadByte, Cells

\* While the child works, it has all that the request asks it to have.
LEMMA AtWork ==
  ASSUME MasterInv, Working, Sync, frame \in {"child", "reply"}
  PROVE  /\ known /\ outcome = "running" /\ cmd = request.cmd
         /\ Has(position + request.count)
         /\ nextWriteAddress <= ImageSize /\ clean
         /\ \A i \in 0 .. nextWriteAddress - 1 : received[i] = image[i]
<1>1. known /\ outcome = "running" /\ cmd = request.cmd /\ request \in Requests
  BY DEF MasterInv, Working
<1>2. Has(position + request.count)
  BY <1>1 DEF Sync
<1>3. position + request.count <= ImageSize
  BY <1>1, RequestOf DEF MasterInv
<1>4. QED
  BY <1>1, <1>2, <1>3 DEF Has

\* What is committed is of the image.  Page 0 is only committed when it is full,
\* by a write, and the last page up to the end of the image, by FINALIZE_FLASH.
LEMMA CommitPlace ==
  ASSUME ImageFits, UInv, InCommit
  PROVE  /\ frame = "child" /\ Inv1 /\ clean
         /\ base \in Nat /\ base % FLASH_ERASE_SIZE = 0 /\ CommitLen \in Nat
         /\ base + CommitLen <= nextWriteAddress /\ nextWriteAddress <= ImageSize
         /\ base = 0 => Once /\ finalizes = 0 /\ CommitLen = FLASH_ERASE_SIZE
         /\ base = LastPage => base + CommitLen = ImageSize /\ nextWriteAddress = ImageSize
         /\ InRows => Once
<1>1. /\ frame = "child" /\ Inv1 /\ pc # "idle" /\ CallLocals /\ TypeInvariant
  BY DEF UInv, IInv, Inv1, TypeOK, Locals, Working, InCommit
<1>2. clean /\ nextWriteAddress <= ImageSize /\ nextWriteAddress \in Nat
  BY <1>1, AtWork, Types DEF UInv
<1>3. base \in Nat /\ base % FLASH_ERASE_SIZE = 0 /\ CommitLen \in Nat
  BY <1>1, Types DEF CallLocals
<1>4. base + CommitLen <= nextWriteAddress
  BY <1>1, <1>2, <1>3, CommitEnd
<1>5. finalizes \in 0 .. 2 /\ (finalizes > 0 => cmd = "FINALIZE_FLASH" /\ nextWriteAddress = ImageSize)
      /\ (cmd = "FINALIZE_FLASH" => finalizes > 0)
  BY <1>1 DEF UInv, Finalized, Inv1, TypeOK, Locals
<1>6. cmd # "WRITE_FLASH" => cmd = "FINALIZE_FLASH"
  BY <1>1 DEF CallLocals, TypeInvariant
<1>7. ASSUME base = 0
      PROVE  Once /\ finalizes = 0 /\ CommitLen = FLASH_ERASE_SIZE
  <2>1. cmd = "WRITE_FLASH"
    <3>1. SUFFICES ASSUME cmd # "WRITE_FLASH" PROVE FALSE
      OBVIOUS
    <3>2. base = PageStart(ImageSize)
      BY <1>1, <1>5, <1>6, <3>1 DEF CallLocals
    <3>3. QED
      BY <1>7, <3>2, ImagePlace, Sizes
  <2>2. QED
    BY <1>1, <1>2, <1>5, <2>1 DEF CallLocals, Once
<1>8. ASSUME base = LastPage
      PROVE  base + CommitLen = ImageSize /\ nextWriteAddress = ImageSize
  <2>1. cmd # "WRITE_FLASH"
    <3>1. SUFFICES ASSUME cmd = "WRITE_FLASH" PROVE FALSE
      OBVIOUS
    <3>2. CommitLen = FLASH_ERASE_SIZE
      BY <1>1, <3>1 DEF CallLocals
    <3>3. QED
      BY <1>2, <1>4, <1>8, <3>2, ImagePlace, LastPageLemma, Sizes
  <2>2. nextWriteAddress = ImageSize
    BY <1>5, <1>6, <2>1
  <2>3. CommitLen = nextWriteAddress - base
    BY <1>1, <2>1 DEF CallLocals
  <2>4. QED
    BY <1>2, <1>3, <2>2, <2>3
<1>9. InRows => Once
  <2>1. InRows => finalizes # 2
    BY DEF UInv, Settled
  <2>2. QED
    BY <1>2, <1>5, <2>1 DEF Once
<1>10. QED
  BY <1>1, <1>2, <1>3, <1>4, <1>7, <1>8, <1>9

\* What is committed is in the buffer, the reset vector included.
LEMMA CommitBuffered ==
  ASSUME ImageFits, UInv, InCommit, NEW i \in 0 .. CommitLen - 1,
         base + i > 1 \/ pc = "commit" \/ (pc = "row" /\ offset = 0)
  PROVE  /\ base + i \in 0 .. ImageSize - 1
         /\ writeBuffer[i] = received[base + i] /\ received[base + i] = image[base + i]
<1>1. /\ frame = "child" /\ clean /\ base \in Nat /\ base % FLASH_ERASE_SIZE = 0 /\ CommitLen \in Nat
      /\ base + CommitLen <= nextWriteAddress /\ nextWriteAddress <= ImageSize
      /\ nextWriteAddress \in Nat /\ ImageSize \in Nat
  BY CommitPlace, ImagePlace, Types
<1>2. base + i \in 0 .. nextWriteAddress - 1 /\ base + i \in 0 .. ImageSize - 1 /\ i \in Nat
  BY <1>1
<1>3. received[base + i] = image[base + i]
  BY <1>1, <1>2, AtWork DEF UInv
<1>4. CASE base + i > 1
  <2>1. base + i >= 2
    BY <1>1, <1>2, <1>4
  <2>2. QED
    BY <1>1, <1>2, <1>3, <2>1 DEF UInv, IInv, Buffered, BufferedFrom
<1>5. CASE ~ (base + i > 1)
  <2>1. base = 0 /\ i \in {0, 1}
    <3>1. base < FLASH_ERASE_SIZE
      BY <1>1, <1>2, <1>5, LastPageLemma, Sizes
    <3>2. base \in 0 .. FLASH_ERASE_SIZE - 1
      BY <1>1, <3>1, Sizes
    <3>3. base % FLASH_ERASE_SIZE = base
      BY <3>2, Sizes, ModSmall
    <3>4. QED
      BY <1>1, <1>2, <1>5, <3>3
  <2>2. Once
    BY <2>1, CommitPlace
  <2>3. VectorIn(CommitLen)
    BY <1>5, <2>1, <2>2 DEF UInv, IInv, VectorBuffered
  <2>4. i < CommitLen
    BY <1>1
  <2>5. writeBuffer[i] = received[i]
    BY <2>1, <2>3, <2>4 DEF VectorIn
  <2>6. QED
    BY <1>2, <1>3, <2>1, <2>5
<1>6. QED
  BY <1>4, <1>5

\* The reset vector that was sent is a jump, so page 0 is not rejected.
LEMMA VectorAccepted ==
  ASSUME ImageFits, UInv, AtRow, RowAddress = 0
  PROVE  Relocated # 0
<1>1. /\ Inv1 /\ InRows /\ InCommit /\ pc = "row" /\ len > 0
  BY ReadyInRows DEF UInv, IInv, AtRow
<1>2. base = 0 /\ offset = 0
  BY <1>1, RowPlace, Types
<1>3. CommitLen = FLASH_ERASE_SIZE /\ 0 \in 0 .. CommitLen - 1 /\ 1 \in 0 .. CommitLen - 1
  BY <1>1, <1>2, CommitPlace, LastPageLemma, Sizes
<1>4. writeBuffer[0] = image[0] /\ writeBuffer[1] = image[1]
  <2>1. writeBuffer[0] = image[0 + 0] /\ writeBuffer[1] = image[0 + 1]
    BY <1>1, <1>2, <1>3, CommitBuffered
  <2>2. QED
    BY <2>1
<1>5. IsRelativeJump(Word(writeBuffer[0], writeBuffer[1]))
  <2>1. image \in Images
    BY DEF UInv, MasterInv, MasterTypeOK
  <2>2. QED
    BY <1>4, <2>1, ImageAssumption
<1>6. QED
  <2>1. /\ Word(writeBuffer[0], writeBuffer[1]) \in Words
        /\ Relocated = offsetRelativeJump(Word(writeBuffer[0], writeBuffer[1]), - trampolineStart)
    BY <1>1, <1>2, RelocatedWord
  <2>2. - trampolineStart \in Int
    BY LastPageLemma
  <2>3. QED
    BY <1>5, <2>1, <2>2, JumpLemma

\* A row of an image that fits is accepted by writePage.
LEMMA RowFits ==
  ASSUME ImageFits, UInv, RowReady
  PROVE  RowError(RowAddress, RowLen) = 0
<1>1. /\ Inv1 /\ InRows /\ InCommit /\ len > 0
  BY ReadyInRows DEF UInv, IInv
<1>2. /\ base % FLASH_ERASE_SIZE = 0 /\ RowAddress = base + offset
      /\ RowLen \in 1 .. FLASH_WRITE_SIZE /\ RowLen <= len
      /\ base \in Nat /\ offset \in Nat /\ len \in Nat
  BY <1>1, RowPlace, Types
<1>3. base + offset + RowLen <= trampolineStart
  <2>1. base + (offset + len) <= nextWriteAddress /\ nextWriteAddress <= ImageSize
    BY <1>1, CommitPlace DEF CommitLen
  <2>2. /\ ImageSize \in Nat /\ ImageSize <= trampolineStart /\ trampolineStart \in Nat
        /\ nextWriteAddress \in Nat
    BY <1>1, ImagePlace, LastPageLemma, Types
  <2>3. RowLen \in Nat /\ RowLen <= len
    BY <1>2, Sizes
  <2>4. QED
    BY <1>2, <2>1, <2>2, <2>3
<1>4. (RowAddress + RowLen) % ADDR <= ApplicationSize
  <2>1. RowAddress + RowLen \in 0 .. ADDR - 1
    BY <1>2, <1>3, LastPageLemma, Sizes
  <2>2. (RowAddress + RowLen) % ADDR = RowAddress + RowLen
    BY <2>1, Sizes, ModSmall, Zenon
  <2>3. QED
    BY <1>2, <1>3, <2>2 DEF trampolineStart
<1>5. RowAddress % FLASH_WRITE_SIZE = 0
  <2>1. base % FLASH_WRITE_SIZE = 0
    BY <1>2, SizeAssumption, Sizes, ModTrans, Zenon
  <2>2. offset % FLASH_WRITE_SIZE = 0
    BY <1>1 DEF Inv1, Locals
  <2>3. (base + offset) % FLASH_WRITE_SIZE = 0
    BY <1>2, <2>1, <2>2, Sizes, ModAdd, Zenon
  <2>4. QED
    BY <1>2, <2>3
<1>6. RowLen # 0 /\ ~ (RowLen > FLASH_WRITE_SIZE) /\ ~ ((RowAddress + RowLen) % ADDR > ApplicationSize)
  <2>1. (RowAddress + RowLen) % ADDR \in Int
    BY <1>2, Sizes, ModRange
  <2>2. QED
    BY <1>2, <1>4, <2>1, Sizes
<1>7. QED
  BY <1>5, <1>6 DEF RowError

\* What the child does on a request: nothing fails, and flash changes only while
\* a page is rewritten.
LEMMA WorkStep ==
  ASSUME ImageFits, UInv, ChildWorks
  PROVE  /\ frame = "child" /\ UNCHANGED master /\ pc # "idle"
         /\ UNCHANGED <<received, nextWriteAddress, clean, cmd, finalizes>>
         /\ err' = 0
         /\ flash' = flash \/ InRows
         /\ InRows' => CommitStart(ReadByte) \/ InRows
         /\ \/ (CopyByte \/ CopyDone \/ CommitOk) /\ ~ InCommit'
            \/ CopyByte /\ pc' = "commit"
            \/ CompareStep
            \/ EraseTrampoline \/ ProgramTrampoline \/ ErasePage \/ ProgramRow
<1>1. frame = "child" /\ UNCHANGED master /\ err = 0
  BY DEF ChildWorks, UInv
<1>2. \/ LocalStep(ReadByte) /\ UNCHANGED attinyHistory
      \/ RejectVector \/ EraseTrampoline \/ ProgramTrampoline
      \/ RejectRow \/ ErasePage \/ ProgramRow
  BY DEF ChildWorks
<1>3. CASE RejectVector \/ RejectRow
  <2>1. FALSE
    BY <1>3, VectorAccepted, RowFits DEF RejectVector, RejectRow
  <2>2. QED
    BY <2>1
<1>4. CASE EraseTrampoline \/ ProgramTrampoline \/ ErasePage
  <2>1. UNCHANGED <<received, nextWriteAddress, clean, cmd, finalizes, err>>
    BY <1>4 DEF EraseTrampoline, ProgramTrampoline, ErasePage, buffers, history, attinyHistory
  <2>2. InRows /\ pc # "idle"
    BY <1>4 DEF EraseTrampoline, ProgramTrampoline, ErasePage, AtRow, RowReady, InRows
  <2>3. QED
    BY <1>1, <1>4, <2>1, <2>2
<1>5. CASE ProgramRow
  <2>1. UNCHANGED <<received, nextWriteAddress, clean, cmd, finalizes, err>>
    BY <1>5 DEF ProgramRow, RowDone, buffers, history, attinyHistory
  <2>2. InRows /\ pc # "idle"
    BY <1>5 DEF ProgramRow, AtRow, RowReady, InRows
  <2>3. QED
    BY <1>1, <1>5, <2>1, <2>2
<1>6. CASE (CopyByte \/ CopyDone) /\ UNCHANGED attinyHistory
  <2>1. pc = "copy" /\ pc' \in {"copy", "idle", "commit"} /\ (pc' = "commit" => CopyByte)
    BY <1>6 DEF CopyByte, CopyDone
  <2>2. UNCHANGED <<received, nextWriteAddress, clean, cmd, flash, err, finalizes>>
    BY <1>6 DEF CopyByte, CopyDone, history, attinyHistory
  <2>3. QED
    BY <1>1, <1>6, <2>1, <2>2 DEF InRows, InCommit
<1>7. CASE CompareStep /\ UNCHANGED attinyHistory
  <2>1. /\ UNCHANGED <<received, nextWriteAddress, clean, cmd, flash, finalizes>>
        /\ err' \in {0, err} /\ pc # "idle"
    BY <1>7 DEF CompareStep, CommitSkip, CommitStart, CommitDone, buffers, history, attinyHistory
  <2>2. pc' = "return" \/ CommitStart(ReadByte)
    BY <1>7 DEF CompareStep, CommitSkip, CommitDone
  <2>3. QED
    BY <1>1, <1>7, <2>1, <2>2 DEF InRows
<1>8. CASE CommitOk /\ UNCHANGED attinyHistory
  <2>1. /\ UNCHANGED <<received, nextWriteAddress, clean, cmd, flash, finalizes>>
        /\ err' = 0 /\ pc = "return"
    BY <1>8 DEF CommitOk, LocalsGone, buffers, history, attinyHistory
  <2>2. pc' \in {"copy", "idle"}
    BY <1>8 DEF CommitOk
  <2>3. QED
    BY <1>1, <1>8, <2>1, <2>2 DEF InRows, InCommit
<1>9. CASE CommitFailed
  BY <1>1, <1>9 DEF CommitFailed
<1>10. QED
  BY <1>2, <1>3, <1>4, <1>5, <1>6, <1>7, <1>8, <1>9 DEF LocalStep, CompareStep

\* Nothing is committed of an image that is in flash.
LEMMA NothingToWrite ==
  ASSUME ImageFits, UInv, InFlash(ReadByte)
  PROVE  ~ CommitStart(ReadByte)
<1> SUFFICES ASSUME CommitStart(ReadByte) PROVE FALSE
  OBVIOUS
<1>1. /\ Inv1 /\ InCommit /\ offset = 0 /\ pc = "commit"
  BY DEF UInv, IInv, Inv1, CommitStart, InCommit, Locals, CallLocals
<1>2. PICK i \in 0 .. len - 1 : writeBuffer[i] # ReadByte[AppAddress(base + i)]
  BY DEF CommitStart, EqualToFlash
<1>3. i \in 0 .. CommitLen - 1
  BY <1>1, <1>2, Types DEF CommitLen
<1>4. base + i \in 0 .. ImageSize - 1 /\ writeBuffer[i] = image[base + i]
  BY <1>1, <1>3, CommitBuffered
<1>5. QED
  BY <1>2, <1>4 DEF InFlash

\* What is the image's when the child has all of it.
LEMMA StoredImage ==
  ASSUME Has(ImageSize), AllStored
  PROVE  InFlash(ReadByte)
BY DEF Has, AllStored, InFlash

\* When a child says OK to FINALIZE_FLASH, the image is in flash.
LEMMA DoneStored ==
  ASSUME UInv, frame = "reply", reply.status = "OK", request.cmd = "FINALIZE_FLASH"
  PROVE  InFlash(ReadByte)
<1>1. /\ pc = "idle" /\ cmd = "FINALIZE_FLASH" /\ Has(position + request.count)
  BY AtWork DEF UInv, Working
<1>2. position + request.count = ImageSize
  <2>1. position = ImageSize /\ request.count = 0 /\ position \in Nat
    BY RequestOf, MasterNumbers DEF UInv, MasterInv
  <2>2. QED
    BY <2>1
<1>3. finalizes \in {1, 2}
  <2>1. finalizes \in 0 .. 2 /\ finalizes > 0
    BY <1>1 DEF UInv, IInv, Inv1, TypeOK, Locals
  <2>2. QED
    BY <2>1
<1>4. AllStored
  BY <1>1, <1>3 DEF UInv, Settled
<1>5. QED
  BY <1>1, <1>2, <1>4, StoredImage

\* A request that arrives is taken for the next one, or for a repetition.
LEMMA StartStep ==
  ASSUME UInv, ChildStarts
  PROVE  /\ frame = "request" /\ frame' = "child" /\ known /\ outcome = "running"
         /\ UNCHANGED <<outcome, image, position, request, repeated, known, cuts, uploaded>>
         /\ cmd' = request.cmd /\ UNCHANGED <<flash, err>>
         /\ pc = "idle" /\ pc' \in {"idle", "copy", "commit"}
         /\ Has(position + request.count)'
         /\ \/ pc' = "copy" /\ finalizes' = 0
            \/ pc' = "idle" /\ UNCHANGED <<finalizes, received, nextWriteAddress, clean>>
            \/ /\ pc' = "commit" /\ cmd' = "FINALIZE_FLASH" /\ Has(ImageSize)'
               /\ UNCHANGED <<received, nextWriteAddress, clean>>
               /\ (finalizes' = 1 /\ finalizes = 0) \/ (finalizes' = 2 /\ finalizes \in {1, 2})
<1>1. /\ frame = "request" /\ frame' = "child" /\ known /\ outcome = "running"
      /\ UNCHANGED <<outcome, image, position, request, repeated, known, cuts, uploaded>>
      /\ pc = "idle" /\ request \in Requests /\ MasterTypeOK
  BY DEF ChildStarts, ChildReceives, UInv, MasterInv, Working
<1>2. position = 0 \/ Has(position) \/ Has(position + request.count)
  BY <1>1 DEF UInv, Sync
<1>3. finalizes \in 0 .. 2 /\ (finalizes > 0 => nextWriteAddress = ImageSize)
  BY DEF UInv, IInv, Inv1, TypeOK, Finalized
<1>4. CASE request.cmd = "WRITE_FLASH"
  <2>1. /\ request.at = position /\ request.count >= 1 /\ position + request.count <= ImageSize
        /\ position \in Nat /\ request.count \in Nat /\ ImageSize \in Nat /\ ImageSize < ADDR
        /\ image \in [Addr -> Byte]
    BY <1>1, <1>4, RequestOf, MasterNumbers, InputAssumption
  <2> DEFINE p == position
             q == position + request.count
  <2>2. CASE Accepted(request.at, request.count, image)
    <3>0. WriteAccepted(request.at, request.count, image)
      BY <2>2 DEF Accepted
    <3>1. /\ p = 0 \/ (Has(p) /\ nextWriteAddress = p)
          /\ pc' = "copy" /\ cmd' = "WRITE_FLASH" /\ UNCHANGED <<flash, err>>
      <4>1. p = 0 \/ nextWriteAddress = p
        BY <2>1, <3>0 DEF WriteAccepted, Expected
      <4>2. p # 0 => ~ Has(q)
        BY <2>1, <4>1 DEF Has
      <4>3. QED
        BY <1>2, <3>0, <4>1, <4>2 DEF WriteAccepted
    <3>2. nextWriteAddress' = q
      <4>1. q \in 0 .. ADDR - 1
        BY <2>1, Sizes
      <4>2. q % ADDR = q
        BY <4>1, Sizes, ModSmall, Zenon
      <4>3. nextWriteAddress' = q % ADDR
        BY <2>1, <3>0 DEF WriteAccepted, Advance
      <4>4. QED
        BY <4>2, <4>3
    <3>3. clean'
      <4>1. clean' = ((p = 0 \/ clean) /\ q < ADDR)
        BY <2>1, <3>0 DEF WriteAccepted
      <4>2. q < ADDR
        BY <2>1, Sizes
      <4>3. QED
        BY <3>1, <4>1, <4>2 DEF Has
    <3>4. ASSUME NEW i \in 0 .. q - 1 PROVE received'[i] = image[i]
      <4>1. received' = [j \in Addr |-> IF j \in p .. q - 1 THEN image[j]
                                        ELSE IF p = 0 THEN 0 ELSE received[j]]
        BY <2>1, <3>0 DEF WriteAccepted
      <4>2. i \in Addr
        BY <2>1, Sizes DEF Addr
      <4>3. i \in p .. q - 1 \/ (p # 0 /\ i \in 0 .. p - 1)
        BY <2>1
      <4>4. QED
        BY <3>1, <4>1, <4>2, <4>3 DEF Has
    <3>5. Has(q)'
      BY <1>1, <3>2, <3>3, <3>4 DEF Has
    <3>6. finalizes' = 0
      <4>1. finalizes' = IF p = 0 THEN 0 ELSE finalizes
        BY <2>1, <2>2 DEF Accepted
      <4>2. p # 0 => finalizes = 0
        BY <1>3, <2>1, <3>1
      <4>3. QED
        BY <4>1, <4>2
    <3>7. QED
      BY <1>1, <1>4, <3>1, <3>5, <3>6
  <2>3. CASE WriteRejected(request.at) /\ UNCHANGED attinyHistory
    <3>1. ~ (p = 0) /\ nextWriteAddress # p
      BY <2>1, <2>3 DEF WriteRejected, Expected
    <3>2. Has(q)
      BY <1>2, <3>1 DEF Has
    <3>3. /\ UNCHANGED <<flash, err, pc, nextWriteAddress, clean, received, finalizes>>
          /\ cmd' = "WRITE_FLASH"
      BY <2>3 DEF WriteRejected, buffers, history, attinyHistory
    <3>4. Has(q)'
      BY <1>1, <3>2, <3>3 DEF Has
    <3>5. QED
      BY <1>1, <1>4, <3>3, <3>4
  <2>4. QED
    BY <1>4, <2>2, <2>3 DEF ChildStarts
<1>5. CASE request.cmd # "WRITE_FLASH"
  <2>1. /\ request.cmd = "FINALIZE_FLASH" /\ position = ImageSize /\ request.count = 0
        /\ position \in Nat /\ ImageSize >= 1 /\ position + request.count = ImageSize
    <3>1. /\ request.cmd = "FINALIZE_FLASH" /\ position = ImageSize /\ request.count = 0
          /\ position \in Nat /\ ImageSize >= 1
      BY <1>1, <1>5, RequestOf, MasterNumbers
    <3>2. QED
      BY <3>1
  <2>2. Has(ImageSize)
    <3>1. position # 0
      BY <2>1
    <3>2. QED
      BY <1>2, <2>1, <3>1
  <2>3. Finalize
    BY <1>5 DEF ChildStarts
  <2>4. /\ UNCHANGED <<flash, err, nextWriteAddress, clean, received>>
        /\ cmd' = "FINALIZE_FLASH" /\ pc' = "commit"
        /\ finalizes' = IF finalizes < 2 THEN finalizes + 1 ELSE 2
    BY <2>3 DEF Finalize, FinalizeFlash, buffers, history
  <2>5. Has(ImageSize)'
    BY <1>1, <2>2, <2>4 DEF Has
  <2>6. Has(position + request.count)'
    BY <1>1, <2>1, <2>5
  <2>7. (finalizes' = 1 /\ finalizes = 0) \/ (finalizes' = 2 /\ finalizes \in {1, 2})
    BY <1>3, <2>4
  <2>8. QED
    BY <1>1, <2>1, <2>4, <2>5, <2>6, <2>7
<1>6. QED
  BY <1>4, <1>5

\* What is the same for the child is the same for the invariant.
LEMMA ChildRests ==
  ASSUME UNCHANGED attinyVars
  PROVE  /\ \A p : UNCHANGED image => Has(p)' = Has(p)
         /\ UNCHANGED image => InFlash(ReadByte)' = InFlash(ReadByte)
         /\ UNCHANGED <<pc, cmd, flash, err, reply, received, clean, nextWriteAddress, finalizes,
                        base, offset>>
         /\ InRows' = InRows /\ AllStored' = AllStored /\ ReadByte' = ReadByte
BY DEF attinyVars, attinyHistory, vars, Has, InFlash, AllStored, InRows, ReadByte, TrampolineWord,
       AppAddress

-----------------------------------------------------------------------------
(***************************************************************************)
(* Page 0, the last page, and the pages between them.                      *)
(***************************************************************************)
\* When a page behind page 0 is rewritten, page 0 reads as the image's.
LEMMA PageZeroRead ==
  ASSUME ImageFits, UInv, InRows, base # 0
  PROVE  ReadsPageZero(image)
<1>1. /\ InCommit /\ Inv1 /\ clean /\ Once /\ frame = "child"
      /\ base \in Nat /\ base % FLASH_ERASE_SIZE = 0 /\ base <= nextWriteAddress
      /\ nextWriteAddress \in Nat
  <2>1. InCommit
    BY DEF InRows, InCommit
  <2>2. QED
    BY <2>1, CommitPlace, Types
<1>2. FLASH_ERASE_SIZE <= base
  <2>1. 0 < base /\ 0 \in Nat
    BY <1>1
  <2>2. 0 % FLASH_ERASE_SIZE = 0
    BY Sizes, ModSmall
  <2>3. 0 + FLASH_ERASE_SIZE <= base
    BY <1>1, <2>1, <2>2, Sizes, ModGap, Zenon
  <2>4. QED
    BY <2>3, Sizes
<1>3. \A i \in 0 .. nextWriteAddress - 1 : received[i] = image[i]
  BY <1>1, AtWork DEF UInv
<1>4. ASSUME NEW i \in 0 .. FLASH_ERASE_SIZE - 1 PROVE ReadByte[i] = image[i]
  <2>1. i \in Nat /\ i < base /\ i < nextWriteAddress /\ received[i] = image[i]
    BY <1>1, <1>2, <1>3, Sizes
  <2>2. CASE i > 1
    <3>1. i \in 2 .. Bound - 1 /\ i \in 2 .. FLASH_SIZE - 1
      BY <1>1, <2>1, <2>2, LastPageLemma, Sizes DEF Bound
    <3>2. ~ InTrampolinePage(i)
      BY <2>1, TrampolinePage, LastPageLemma, Sizes
    <3>3. Stored(ReadByte, i)
      BY <1>1, <3>1, <3>2 DEF UInv, IInv, Behind, Promised
    <3>4. QED
      BY <2>1, <3>1, <3>3, ReadCell DEF Stored
  <2>3. CASE ~ (i > 1)
    <3>1. i \in {0, 1}
      BY <2>1, <2>3
    <3>2. VectorThere
      BY <1>1 DEF VectorThere
    <3>3. QED
      BY <1>1, <2>1, <3>1, <3>2 DEF UInv, IInv, VectorStored
  <2>4. QED
    BY <2>2, <2>3
<1>5. QED
  BY <1>4 DEF ReadsPageZero

\* Where a row is programmed: within its page.
LEMMA RowCells ==
  ASSUME Inv1, ProgramRow
  PROVE  /\ InRows /\ InCommit /\ base \in Nat /\ base % FLASH_ERASE_SIZE = 0 /\ offset \in Nat
         /\ WordBytes(RowLen) \in Nat /\ RowLen \in Nat /\ RowLen <= WordBytes(RowLen)
         /\ base <= LastPage
         /\ base + offset + WordBytes(RowLen) <= base + FLASH_ERASE_SIZE
         /\ offset' = offset + RowLen /\ base' = base /\ pc' = "row"
         /\ pc = "program" \/ offset > 0 \/ base = LastPage
<1>1. /\ InRows /\ InCommit /\ len > 0 /\ base <= LastPage
      /\ WordBytes(RowLen) \in 2 .. FLASH_WRITE_SIZE
      /\ RowLen <= WordBytes(RowLen)
      /\ pc \in {"row", "program"} /\ (pc = "row" => offset > 0 \/ base = LastPage)
  BY ProgramPlace
<1>2. /\ base % FLASH_ERASE_SIZE = 0 /\ offset + FLASH_WRITE_SIZE <= FLASH_ERASE_SIZE
      /\ RowLen \in 1 .. FLASH_WRITE_SIZE /\ base \in Nat /\ offset \in Nat
  BY <1>1, RowPlace, Types
<1>3. offset' = offset + RowLen /\ base' = base /\ pc' = "row"
  BY DEF ProgramRow, RowDone
<1>4. QED
  BY <1>1, <1>2, <1>3, Sizes

\* Below the last page, writePage leaves the last page alone.
LEMMA LastKept ==
  ASSUME Inv1, ErasePage \/ (ProgramRow /\ base # LastPage),
         NEW c \in LastPage .. trampolineStart - 1
  PROVE  flash'[c] = flash[c]
<1>1. c \in Nat /\ c \in Cells
  BY LastPageLemma DEF Cells
<1>2. CASE ErasePage
  <2>1. c \notin base .. base + FLASH_ERASE_SIZE - 1
    BY <1>1, <1>2, EraseFlash, Types, LastPageLemma, Sizes
  <2>2. QED
    BY <1>1, <1>2, <2>1, EraseFlash
<1>3. CASE ProgramRow /\ base # LastPage
  <2> DEFINE n == WordBytes(RowLen)
  <2>1. /\ base \in Nat /\ base % FLASH_ERASE_SIZE = 0 /\ offset \in Nat /\ n \in Nat
        /\ base < LastPage /\ base + offset + n <= base + FLASH_ERASE_SIZE
    BY <1>3, RowCells, LastPageLemma
  <2>2. \A d \in Cells :
           flash'[d] = IF d \in base + offset .. base + offset + n - 1
                         THEN Burn[<<flash[d], writeBuffer[d - base]>>] ELSE flash[d]
    BY <1>3, ProgramFlash
  <2> HIDE DEF n
  <2>3. base + FLASH_ERASE_SIZE <= LastPage
    BY <2>1, LastPageLemma, Sizes, ModGap, Zenon
  <2>4. c \notin base + offset .. base + offset + n - 1
    BY <1>1, <2>1, <2>3, LastPageLemma, Sizes
  <2>5. QED
    BY <1>1, <2>2, <2>4
<1>4. QED
  BY <1>2, <1>3

\* Behind page 0, it leaves page 0 alone, and the trampoline.
LEMMA PageZeroKept ==
  ASSUME Inv1, [Next]_attinyVars, ErasePage \/ ProgramRow, base # 0,
         NEW i \in 0 .. FLASH_ERASE_SIZE - 1
  PROVE  ReadByte'[i] = ReadByte[i]
<1>1. CASE i \in {0, 1}
  <2>1. ~ EraseTrampoline /\ ~ ProgramTrampoline
    <3>1. pc' \in {"row", "program"}
      BY DEF ErasePage, ProgramRow, RowDone
    <3>2. QED
      BY <3>1 DEF EraseTrampoline, ProgramTrampoline
  <2>2. QED
    BY <1>1, <2>1, VectorRead
<1>2. CASE i \notin {0, 1}
  <2>1. i \in 2 .. FLASH_SIZE - 1 /\ i \in Nat /\ i \in Cells
    BY <1>2, LastPageLemma, Sizes DEF Cells
  <2>2. /\ base \in Nat /\ base % FLASH_ERASE_SIZE = 0
    <3>1. InRows /\ len > 0
      BY EraseFlash, ProgramPlace
    <3>2. QED
      BY <3>1, RowPlace, Types
  <2>3. FLASH_ERASE_SIZE <= base
    <3>1. 0 < base /\ 0 \in Nat
      BY <2>2
    <3>2. 0 % FLASH_ERASE_SIZE = 0
      BY Sizes, ModSmall
    <3>3. 0 + FLASH_ERASE_SIZE <= base
      BY <2>2, <3>1, <3>2, Sizes, ModGap, Zenon
    <3>4. QED
      BY <3>3, Sizes
  <2>4. flash'[i] = flash[i]
    <3>1. CASE ErasePage
      <4>1. i \notin base .. base + FLASH_ERASE_SIZE - 1
        BY <2>1, <2>2, <2>3, Sizes
      <4>2. QED
        BY <2>1, <3>1, <4>1, EraseFlash
    <3>2. CASE ProgramRow
      <4> DEFINE n == WordBytes(RowLen)
      <4>1. n \in Nat /\ offset \in Nat
        BY <3>2, RowCells
      <4>2. \A d \in Cells :
               flash'[d] = IF d \in base + offset .. base + offset + n - 1
                             THEN Burn[<<flash[d], writeBuffer[d - base]>>] ELSE flash[d]
        BY <3>2, ProgramFlash
      <4> HIDE DEF n
      <4>3. i \notin base + offset .. base + offset + n - 1
        BY <2>1, <2>2, <2>3, <4>1, Sizes
      <4>4. QED
        BY <2>1, <4>2, <4>3
    <3>3. QED
      BY <3>1, <3>2
  <2>5. QED
    BY <2>1, <2>4, ReadCell
<1>3. QED
  BY <1>1, <1>2

\* A row of the last page puts bytes of the image into cells that are erased
\* or hold the same byte.
LEMMA LastProgrammed ==
  ASSUME ImageFits, UInv, ProgramRow, base = LastPage, NEW c \in LastPage .. ImageSize - 1
  PROVE  /\ ReadsPageZero(image)
         /\ flash'[c] \in {ERASED, image[c]}
         /\ c < LastPage + offset' => flash'[c] = image[c]
<1> DEFINE n == WordBytes(RowLen)
<1>1. /\ Inv1 /\ InRows /\ InCommit /\ offset \in Nat /\ n \in Nat /\ RowLen \in Nat /\ RowLen <= n
      /\ offset' = offset + RowLen
      /\ pc = "row"
  <2>1. Inv1
    BY DEF UInv, IInv
  <2>2. pc # "program"
    BY <2>1, LastPageLemma DEF Inv1, Locals
  <2>3. QED
    BY <2>1, <2>2, RowCells, ProgramPlace
<1>2. \A d \in Cells :
         flash'[d] = IF d \in base + offset .. base + offset + n - 1
                       THEN Burn[<<flash[d], writeBuffer[d - base]>>] ELSE flash[d]
  BY <1>1, ProgramFlash
<1> HIDE DEF n
<1>3. /\ c \in Nat /\ c \in Cells /\ c \in Addr /\ ImageSize \in Nat /\ LastPage \in Nat
  BY ImagePlace, LastPageLemma, Sizes DEF Cells, Addr
<1>4. base # 0 /\ ReadsPageZero(image)
  <2>1. base # 0
    BY LastPageLemma, Sizes
  <2>2. QED
    BY <1>1, <2>1, PageZeroRead
<1>5. image \in Images /\ image[c] \in Byte
  <2>1. image \in Images
    BY DEF UInv, MasterInv, MasterTypeOK
  <2>2. QED
    BY <1>3, <2>1, InputAssumption
<1>6. flash[c] \in {ERASED, image[c]}
  BY <1>4, <1>5 DEF UInv, Matching
<1>7. writeBuffer[c - base] = image[c] /\ received[c] = image[c]
  <2>1. base + CommitLen = ImageSize /\ CommitLen \in Nat /\ base \in Nat
    BY <1>1, CommitPlace
  <2>2. c - base \in 0 .. CommitLen - 1 /\ base + (c - base) = c /\ c > 1
    BY <1>3, <2>1, LastPageLemma, Sizes
  <2>3. QED
    BY <1>1, <2>2, CommitBuffered
<1>8. CASE c \in base + offset .. base + offset + n - 1
  <2>1. flash'[c] = Burn[<<flash[c], image[c]>>]
    BY <1>2, <1>3, <1>7, <1>8
  <2>2. flash'[c] = image[c]
    BY <1>5, <1>6, <2>1, BurnAssumption, Zenon
  <2>3. QED
    BY <1>4, <2>2
<1>9. CASE c \notin base + offset .. base + offset + n - 1
  <2>1. flash'[c] = flash[c]
    BY <1>2, <1>3, <1>9
  <2>2. ASSUME c < LastPage + offset' PROVE flash[c] = image[c]
    <3>1. c \in LastPage .. LastPage + offset - 1 /\ c < ImageSize
      BY <1>1, <1>3, <1>9, <2>2
    <3>2. QED
      BY <1>1, <1>7, <3>1 DEF UInv, LastRows
  <2>3. QED
    BY <1>4, <1>6, <2>1, <2>2
<1>10. QED
  BY <1>8, <1>9

\* The child's steps keep page 0 and the last page matching.
LEMMA WorkMatching ==
  ASSUME ImageFits, UInv, ChildWorks, [Next]_attinyVars
  PROVE  Matching'
<1>0. Inv1 /\ Matching /\ LastClean
  BY DEF UInv, IInv
<1>1. CASE flash' = flash
  BY <1>0, <1>1 DEF Matching, ReadsPageZero, ReadByte, TrampolineWord
<1>2. \A c \in LastPage .. ImageSize - 1 :
         c \in LastPage .. trampolineStart - 1 /\ c \in Cells /\ c \in Nat
         /\ c # trampolineStart /\ c # trampolineStart + 1
  BY ImagePlace, LastPageLemma DEF Cells
<1>3. ASSUME \A c \in LastPage .. ImageSize - 1 : flash'[c] = ERASED
      PROVE  Matching'
  BY <1>3 DEF Matching
<1>4. CASE EraseTrampoline
  <2>1. \A c \in LastPage .. ImageSize - 1 : c \in LastPage .. trampolineStart + 1
    BY <1>2, LastPageLemma
  <2>2. QED
    BY <1>0, <1>2, <1>3, <1>4, <2>1, EraseTrampolineFlash
<1>5. CASE ProgramTrampoline
  <2>1. \A c \in LastPage .. ImageSize - 1 : flash[c] = ERASED
    BY <1>0, <1>2, <1>5 DEF LastClean, ProgramTrampoline
  <2>2. \A c \in LastPage .. ImageSize - 1 : flash'[c] = flash[c]
    BY <1>0, <1>2, <1>5, ProgramTrampolineFlash, Zenon
  <2>3. QED
    BY <1>3, <2>1, <2>2
<1>6. CASE (ErasePage \/ ProgramRow) /\ base = 0
  <2>1. /\ pc = "vector" \/ (pc \in {"row", "program"} /\ (pc = "program" \/ offset > 0))
        /\ base # LastPage
    <3>1. base # LastPage
      BY <1>6, LastPageLemma, Sizes
    <3>2. CASE ErasePage
      BY <1>0, <1>6, <3>1, <3>2, EraseFlash
    <3>3. CASE ProgramRow
      BY <1>0, <3>1, <3>3, ProgramPlace
    <3>4. QED
      BY <1>6, <3>1, <3>2, <3>3
  <2>2. \A c \in LastPage .. ImageSize - 1 : flash[c] = ERASED
    BY <1>0, <1>2, <1>6, <2>1 DEF LastClean
  <2>3. \A c \in LastPage .. ImageSize - 1 : flash'[c] = flash[c]
    BY <1>0, <1>2, <1>6, <2>1, LastKept
  <2>4. QED
    BY <1>3, <2>2, <2>3
<1>7. CASE (ErasePage \/ ProgramRow) /\ base # 0
  <2>1. \A i \in 0 .. FLASH_ERASE_SIZE - 1 : ReadByte'[i] = ReadByte[i]
    BY <1>0, <1>7, PageZeroKept
  <2>2. SUFFICES ASSUME NEW img \in Images, ReadsPageZero(img)',
                        NEW c \in LastPage .. ImageSize - 1
                 PROVE  flash'[c] \in {ERASED, img[c]}
    BY DEF Matching
  <2>3. ReadsPageZero(img)
    BY <2>1, <2>2 DEF ReadsPageZero
  <2>4. flash[c] \in {ERASED, img[c]}
    BY <1>0, <2>3 DEF Matching
  <2>5. CASE ErasePage \/ base # LastPage
    <3>1. flash'[c] = flash[c]
      BY <1>0, <1>2, <1>7, <2>5, LastKept
    <3>2. QED
      BY <2>4, <3>1
  <2>6. CASE ProgramRow /\ base = LastPage
    <3>1. ReadsPageZero(image) /\ flash'[c] \in {ERASED, image[c]}
      BY <2>6, LastProgrammed
    <3>2. image \in Images
      BY DEF UInv, MasterInv, MasterTypeOK
    <3>3. img = image
      BY <2>3, <3>1, <3>2, ImageAssumption DEF ReadsPageZero
    <3>4. QED
      BY <3>1, <3>3
  <2>7. QED
    BY <1>7, <2>5, <2>6
<1>8. (CopyByte \/ CopyDone \/ CommitOk \/ CompareStep) => flash' = flash
  BY DEF CopyByte, CopyDone, CommitOk, CompareStep, CommitSkip, CommitStart, CommitDone
<1>9. QED
  BY <1>1, <1>4, <1>5, <1>6, <1>7, <1>8, WorkStep

\* While page 0 is rewritten, the last page stays erased.
LEMMA WorkLastClean ==
  ASSUME ImageFits, UInv, ChildWorks, [Next]_attinyVars
  PROVE  LastClean'
<1>0. Inv1 /\ LastClean /\ (pc = "commit" => offset = 0)
  BY DEF UInv, IInv, Inv1, Locals, CallLocals
<1> SUFFICES ASSUME NEW c \in LastPage .. trampolineStart - 1,
                    pc' \in {"trampoline", "vector", "row", "program"},
                    pc' \in {"row", "program"} => base' = 0 /\ (pc' = "program" \/ offset' > 0)
             PROVE  flash'[c] = ERASED
  BY DEF LastClean
<1>1. c \in Cells /\ c \in Nat /\ c # trampolineStart /\ c # trampolineStart + 1
      /\ c \in LastPage .. trampolineStart + 1
  BY LastPageLemma DEF Cells
<1>2. CASE EraseTrampoline
  BY <1>0, <1>1, <1>2, EraseTrampolineFlash
<1>3. CASE ProgramTrampoline
  <2>1. flash[c] = ERASED
    BY <1>0, <1>3 DEF LastClean, ProgramTrampoline
  <2>2. QED
    BY <1>0, <1>1, <1>3, <2>1, ProgramTrampolineFlash, Zenon
<1>4. CASE ErasePage
  <2>1. base = 0 /\ pc = "vector"
    <3>1. base' = base /\ pc' = "program"
      BY <1>4 DEF ErasePage, commitV
    <3>2. QED
      BY <1>0, <1>4, <3>1, EraseFlash
  <2>2. flash[c] = ERASED
    BY <1>0, <2>1 DEF LastClean
  <2>3. QED
    BY <1>0, <1>4, <2>2, LastKept
<1>5. CASE ProgramRow
  <2>1. base = 0 /\ base # LastPage
    BY <1>0, <1>5, RowCells, LastPageLemma, Sizes
  <2>2. pc \in {"row", "program"} /\ (pc = "program" \/ offset > 0)
    BY <1>0, <1>5, <2>1, ProgramPlace
  <2>3. flash[c] = ERASED
    BY <1>0, <2>1, <2>2 DEF LastClean
  <2>4. QED
    BY <1>0, <1>5, <2>1, <2>3, LastKept
<1>6. CASE CommitStart(ReadByte)
  <2>1. pc = "commit" /\ pc' = "row" /\ offset' = offset
    BY <1>6 DEF CommitStart, commitV
  <2>2. QED
    BY <1>0, <2>1
<1>7. CASE UNCHANGED attinyVars
  BY <1>0, <1>7 DEF attinyVars, vars, LastClean
<1>8. QED
  BY <1>2, <1>3, <1>4, <1>5, <1>6, <1>7, IntoPlaces

\* The rows of the last page are programmed one after the other.
LEMMA WorkLastRows ==
  ASSUME ImageFits, UInv, ChildWorks, [Next]_attinyVars
  PROVE  LastRows'
<1>0. Inv1 /\ LastRows /\ (pc = "commit" => offset = 0) /\ UNCHANGED received
  BY WorkStep DEF UInv, IInv, Inv1, Locals, CallLocals
<1> SUFFICES ASSUME pc' = "row", base' = LastPage,
                    NEW c \in LastPage .. LastPage + offset' - 1, c < ImageSize
             PROVE  flash'[c] = received'[c]
  BY DEF LastRows
<1>1. CASE CommitStart(ReadByte)
  <2>1. offset' = 0
    BY <1>0, <1>1 DEF CommitStart, commitV
  <2>2. QED
    BY <2>1, LastPageLemma
<1>2. CASE ProgramRow
  <2>1. base = LastPage /\ InRows /\ InCommit /\ offset \in Nat /\ RowLen \in Nat
        /\ offset' = offset + RowLen
    BY <1>0, <1>2, RowCells
  <2>2. c \in Nat /\ c \in LastPage .. ImageSize - 1 /\ c < LastPage + offset'
    BY <2>1, ImagePlace, LastPageLemma
  <2>3. flash'[c] = image[c]
    BY <1>2, <2>1, <2>2, LastProgrammed
  <2>4. received[c] = image[c]
    <3>1. frame = "child" /\ nextWriteAddress = ImageSize
      BY <2>1, CommitPlace
    <3>2. c \in 0 .. nextWriteAddress - 1
      BY <2>2, <3>1, ImagePlace, LastPageLemma
    <3>3. QED
      BY <3>1, <3>2, AtWork DEF UInv
  <2>5. QED
    BY <1>0, <2>3, <2>4
<1>3. CASE UNCHANGED attinyVars
  BY <1>0, <1>3 DEF attinyVars, vars, LastRows
<1>4. QED
  BY <1>1, <1>2, <1>3, IntoPlaces

\* When all of them are done, or it was equal before, so is the last page.
LEMMA WorkLastDone ==
  ASSUME ImageFits, UInv, ChildWorks, [Next]_attinyVars
  PROVE  LastDone'
<1>0. /\ Inv1 /\ LastRows /\ LastDone /\ (pc = "commit" => offset = 0) /\ UNCHANGED received
      /\ pc # "return" => err = 0
  BY WorkStep DEF UInv, IInv, Inv1, Locals, CallLocals
<1> SUFFICES ASSUME pc' = "return", base' = LastPage, NEW c \in LastPage .. ImageSize - 1
             PROVE  flash'[c] = received'[c]
  BY DEF LastDone
<1>1. /\ CommitSkip(ReadByte) \/ CommitDone
  <2>1. ~ CommitStart(ReadByte) /\ ~ EraseTrampoline /\ ~ ProgramTrampoline /\ ~ ErasePage
        /\ ~ ProgramRow /\ ~ (~ InCommit')
    BY DEF CommitStart, EraseTrampoline, ProgramTrampoline, ErasePage, ProgramRow, RowDone, InCommit
  <2>2. QED
    BY <2>1, WorkStep DEF CompareStep
<1>2. /\ InCommit /\ base = LastPage /\ flash' = flash
  BY <1>1 DEF CommitSkip, CommitDone, InCommit, commitV
<1>3. /\ frame = "child" /\ base + CommitLen = ImageSize /\ CommitLen \in Nat /\ base \in Nat
  BY <1>2, CommitPlace
<1>4. /\ c \in Nat /\ c - base \in 0 .. CommitLen - 1 /\ base + (c - base) = c /\ c > 1
      /\ c \in 2 .. FLASH_SIZE - 1
  BY <1>2, <1>3, ImagePlace, LastPageLemma, Sizes
<1>5. CASE CommitSkip(ReadByte)
  <2>1. /\ pc = "commit" /\ CommitLen = len /\ EqualToFlash(ReadByte)
    BY <1>0, <1>5, Types DEF CommitSkip, CommitLen
  <2>2. writeBuffer[c - base] = ReadByte[AppAddress(base + (c - base))]
    BY <1>4, <2>1 DEF EqualToFlash
  <2>3. writeBuffer[c - base] = received[base + (c - base)]
    BY <1>2, <1>4, <2>1, CommitBuffered
  <2>4. ReadByte[AppAddress(c)] = received[c]
    BY <1>4, <2>2, <2>3
  <2>5. QED
    BY <1>0, <1>2, <1>4, <2>4, ReadCell
<1>6. CASE CommitDone
  <2>1. pc = "row" /\ CommitLen = offset
    BY <1>0, <1>6, Types DEF CommitDone, CommitLen
  <2>2. c \in LastPage .. LastPage + offset - 1 /\ c < ImageSize
    BY <1>2, <1>3, <1>4, <2>1, ImagePlace
  <2>3. QED
    BY <1>0, <1>2, <2>1, <2>2 DEF LastRows
<1>7. QED
  BY <1>1, <1>5, <1>6

\* When FINALIZE_FLASH is answered OK the first time, all of the image is read
\* from flash: its first two bytes from the trampoline.
LEMMA FinalizeStored ==
  ASSUME ImageFits, UInv, ChildWorks, IInv', CommitOk, finalizes = 1, pc' = "idle"
  PROVE  AllStored'
<1>1. /\ pc = "return" /\ InCommit /\ cmd = "FINALIZE_FLASH" /\ reply'.status = "OK"
      /\ flash' = flash
      /\ UNCHANGED <<received, nextWriteAddress, clean, cmd, finalizes>>
  <2>1. pc = "return" /\ flash' = flash
    BY DEF CommitOk
  <2>2. cmd # "WRITE_FLASH"
    BY DEF CommitOk
  <2>3. reply' = Reply("OK", eraseCount)
    BY <2>2 DEF CommitOk
  <2>4. cmd = "FINALIZE_FLASH"
    BY <2>1 DEF UInv, Finalized
  <2>5. QED
    BY <2>1, <2>3, <2>4, WorkStep DEF InCommit, Reply
<1>2. /\ clean /\ nextWriteAddress = ImageSize /\ base = PageStart(ImageSize)
  <2>1. clean /\ nextWriteAddress = ImageSize
    BY DEF UInv, Finalized
  <2>2. base = PageStart(nextWriteAddress)
    BY <1>1 DEF UInv, IInv, Inv1, Locals, CallLocals
  <2>3. QED
    BY <2>1, <2>2
<1>3. UploadConfirmed' /\ Once' /\ VectorThere'
  BY <1>1, <1>2 DEF UploadConfirmed, Once, VectorThere
<1>4. SUFFICES ASSUME NEW i \in 0 .. ImageSize - 1
               PROVE  ReadByte'[AppAddress(i)] = received'[i]
  BY DEF AllStored, AppAddress
<1>5. i \in Nat /\ nextWriteAddress' = ImageSize /\ i < ImageSize /\ ImageSize \in Nat
  BY <1>1, <1>2, ImagePlace
<1>6. CASE i \in {0, 1}
  <2>1. ReadByte'[i] = received'[i]
    BY <1>3, <1>5, <1>6 DEF IInv, VectorStored
  <2>2. QED
    BY <1>6, <2>1, VectorPlace
<1>7. CASE i > 1 /\ ~ InTrampolinePage(i)
  <2>1. i \in 2 .. nextWriteAddress' - 1
    BY <1>5, <1>7
  <2>2. Stored(ReadByte, i)'
    BY <1>3, <1>7, <2>1 DEF IInv, Durable, Promised
  <2>3. QED
    BY <2>2 DEF Stored, AppAddress
<1>8. CASE i > 1 /\ InTrampolinePage(i)
  <2>1. LastPage <= i
    BY <1>5, <1>8, TrampolinePage
  <2>2. base = LastPage
    BY <1>2, <1>5, <2>1, ImagePlace, LastPageLemma
  <2>3. flash[i] = received[i]
    BY <1>1, <1>5, <2>1, <2>2, LastPageLemma DEF UInv, LastDone
  <2>4. i \in 2 .. FLASH_SIZE - 1
    BY <1>5, <1>8, ImagePlace, LastPageLemma
  <2>5. QED
    BY <1>1, <2>3, <2>4, ReadCell
<1>9. QED
  BY <1>5, <1>6, <1>7, <1>8

\* A finalized upload stays in flash, however often it is finalized again.
LEMMA WorkSettled ==
  ASSUME ImageFits, UInv, ChildWorks, IInv'
  PROVE  Settled'
<1> SUFFICES ASSUME finalizes' = 2 \/ (finalizes' = 1 /\ pc' = "idle")
             PROVE  AllStored' /\ ~ InRows'
  BY DEF Settled
<1>1. /\ frame = "child" /\ pc # "idle" /\ finalizes' = finalizes /\ received' = received
      /\ finalizes > 0 => clean /\ nextWriteAddress = ImageSize /\ cmd = "FINALIZE_FLASH"
  BY WorkStep DEF UInv, Finalized
<1>2. CASE finalizes = 2
  <2>1. AllStored /\ ~ InRows
    BY <1>2 DEF UInv, Settled
  <2>2. Has(ImageSize)
    <3>1. Has(position + request.count) /\ nextWriteAddress = ImageSize
      BY <1>1, <1>2, AtWork DEF UInv
    <3>2. QED
      BY <3>1 DEF Has
  <2>3. ~ CommitStart(ReadByte)
    BY <2>1, <2>2, StoredImage, NothingToWrite
  <2>4. flash' = flash /\ ~ InRows'
    BY <2>1, <2>3, WorkStep
  <2>5. QED
    BY <1>1, <2>1, <2>4 DEF AllStored, ReadByte, TrampolineWord, AppAddress
<1>3. CASE finalizes = 1 /\ pc' = "idle"
  <2>1. ~ InRows' /\ ~ InCommit'
    BY <1>3 DEF InRows, InCommit
  <2>2. CommitOk
    <3>1. cmd = "FINALIZE_FLASH"
      BY <1>1, <1>3
    <3>2. pc # "copy"
      BY <3>1 DEF UInv, IInv, Inv1, Locals, CallLocals
    <3>3. ~ CopyByte /\ ~ CopyDone
      BY <3>2 DEF CopyByte, CopyDone
    <3>4. ~ CompareStep /\ ~ EraseTrampoline /\ ~ ProgramTrampoline /\ ~ ErasePage /\ ~ ProgramRow
      BY <1>3 DEF CompareStep, CommitSkip, CommitStart, CommitDone, EraseTrampoline,
         ProgramTrampoline, ErasePage, ProgramRow, RowDone
    <3>5. QED
      BY <3>3, <3>4, WorkStep
  <2>3. QED
    BY <1>3, <2>1, <2>2, FinalizeStored
<1>4. QED
  BY <1>1, <1>2, <1>3

\* An idle child rewrites nothing.
LEMMA IdleRests ==
  ASSUME pc' = "idle"
  PROVE  LastClean' /\ LastRows' /\ LastDone' /\ ~ InRows'
BY DEF LastClean, LastRows, LastDone, InRows

\* While flash does not change, page 0 and the last page go on matching.
LEMMA MatchingRests ==
  ASSUME Matching, flash' = flash
  PROVE  Matching'
BY DEF Matching, ReadsPageZero, ReadByte, TrampolineWord

\* One case per kind of step.
LEMMA StepUInv == ImageFits /\ UInv /\ [UploadNext]_uploadVars => UInv'
<1> SUFFICES ASSUME ImageFits, UInv, [UploadNext]_uploadVars PROVE UInv'
  OBVIOUS
<1>1. MasterInv' /\ IInv' /\ [Next]_attinyVars
  <2>1. MasterInv /\ IInv
    BY DEF UInv
  <2>2. QED
    BY <2>1, StepMaster, ChildSteps, StepIInv
<1>2. /\ MasterInv /\ Working /\ Sync /\ err = 0 /\ Uploaded /\ MasterTypeOK
      /\ Finalized /\ Settled /\ Matching /\ LastClean /\ LastRows /\ LastDone
  BY DEF UInv, MasterInv
<1> DEFINE Flash == Finalized /\ Settled /\ Matching /\ LastClean /\ LastRows /\ LastDone
<1> SUFFICES Working' /\ Sync' /\ err' = 0 /\ Uploaded' /\ Flash'
  BY <1>1 DEF UInv
<1>3. ASSUME UNCHANGED attinyVars PROVE Flash' /\ err' = 0
  <2>1. Finalized' /\ Settled'
    BY <1>2, <1>3, ChildRests DEF Finalized, Settled
  <2>2. Matching'
    BY <1>2, <1>3, ChildRests, MatchingRests
  <2>3. LastClean' /\ LastRows' /\ LastDone'
    BY <1>2, <1>3, ChildRests DEF LastClean, LastRows, LastDone
  <2>4. err' = 0
    BY <1>2, <1>3, ChildRests
  <2>5. QED
    BY <2>1, <2>2, <2>3, <2>4
<1>4. CASE UNCHANGED attinyVars /\ MasterSends
  <2>1. /\ frame = "none" /\ frame' = "request"
        /\ UNCHANGED <<outcome, image, position, known, cuts, uploaded>>
    BY <1>4 DEF MasterSends
  <2>2. Working' /\ Sync' /\ Uploaded'
    BY <1>2, <1>4, <2>1, ChildRests DEF Working, Sync, Uploaded
  <2>3. QED
    BY <1>3, <1>4, <2>2
<1>5. CASE UNCHANGED attinyVars /\ ChildReplies
  <2>1. /\ frame = "child" /\ frame' = "reply" /\ pc = "idle"
        /\ UNCHANGED <<outcome, image, position, request, known, cuts, uploaded>>
    BY <1>5 DEF ChildReplies
  <2>2. Working' /\ Sync' /\ Uploaded'
    BY <1>2, <1>5, <2>1, ChildRests DEF Working, Sync, Uploaded
  <2>3. QED
    BY <1>3, <1>5, <2>2
<1>6. CASE UNCHANGED attinyVars /\ (FrameLost \/ MasterRepeats)
  <2>1. /\ frame \in {"request", "reply", "lost"} /\ frame' \in {"lost", "request"}
        /\ UNCHANGED <<outcome, image, position, request, known, cuts, uploaded>>
    BY <1>6 DEF FrameLost, MasterRepeats
  <2>2. Working' /\ Sync' /\ Uploaded'
    BY <1>2, <1>6, <2>1, ChildRests DEF Working, Sync, Uploaded
  <2>3. QED
    BY <1>3, <1>6, <2>2
<1>7. CASE UNCHANGED attinyVars /\ MasterGivesUp
  <2>1. /\ frame \in {"request", "lost"} /\ frame' = "none" /\ outcome' = "failed"
        /\ UNCHANGED <<image, position, known, cuts, uploaded>>
    BY <1>7 DEF MasterGivesUp
  <2>2. Working' /\ Sync' /\ Uploaded'
    BY <1>2, <1>7, <2>1, ChildRests DEF Working, Sync, Uploaded
  <2>3. QED
    BY <1>3, <1>7, <2>2
<1>8. CASE UNCHANGED attinyVars /\ MasterReceives
  <2>1. /\ frame = "reply" /\ frame' = "none" /\ request \in Requests
        /\ UNCHANGED <<image, known, cuts>> /\ pc = "idle"
        /\ known /\ outcome = "running"
    BY <1>2, <1>8, AtWork DEF MasterReceives, MasterInv, Working
  <2>2. Working'
    BY <1>2, <1>8, <2>1, ChildRests DEF Working
  <2>3. Sync'
    <3>1. Has(position + request.count)
      BY <1>2, <2>1, AtWork
    <3>2. CASE ~ Arrived
      BY <1>8, <3>2 DEF MasterReceives, Sync
    <3>3. CASE Arrived
      <4>1. position' = position + request.count
        BY <1>8, <3>3 DEF MasterReceives
      <4>2. Has(position)'
        BY <1>8, <2>1, <3>1, <4>1, ChildRests DEF Has
      <4>3. QED
        BY <2>1, <4>2 DEF Sync
    <3>4. QED
      BY <3>2, <3>3
  <2>4. Uploaded'
    <3>1. CASE outcome' = "done"
      <4>1. reply.status = "OK" /\ request.cmd = "FINALIZE_FLASH" /\ uploaded' = {image}
        BY <1>8, <3>1 DEF MasterReceives, Arrived
      <4>2. InFlash(ReadByte)
        BY <2>1, <4>1, DoneStored
      <4>3. ~ InRows'
        BY <1>8, <2>1, ChildRests DEF InRows
      <4>4. QED
        BY <1>8, <2>1, <4>1, <4>2, <4>3, ChildRests DEF Uploaded
    <3>2. CASE outcome' # "done"
      <4>1. uploaded' = uploaded
        BY <1>8, <3>2 DEF MasterReceives
      <4>2. QED
        BY <1>2, <1>8, <2>1, <3>2, <4>1, ChildRests DEF Uploaded
    <3>3. QED
      BY <3>1, <3>2
  <2>5. QED
    BY <1>3, <1>8, <2>2, <2>3, <2>4
<1>9. CASE ChildStarts
  <2>1. Working' /\ Sync' /\ err' = 0
    BY <1>2, <1>9, StartStep DEF Working, Sync
  <2>2. /\ flash' = flash /\ InFlash(ReadByte)' = InFlash(ReadByte) /\ ReadByte' = ReadByte
        /\ ~ InRows' /\ pc = "idle" /\ pc' \in {"idle", "copy", "commit"}
    BY <1>9, StartStep DEF InFlash, ReadByte, TrampolineWord, AppAddress, InRows
  <2>3. Uploaded'
    BY <1>2, <1>9, <2>2, StartStep DEF Uploaded
  <2>4. Matching' /\ LastClean' /\ LastRows' /\ LastDone'
    BY <1>2, <2>2, MatchingRests DEF LastClean, LastRows, LastDone
  <2>5. Finalized' /\ Settled'
    <3>1. CASE pc' = "copy" /\ finalizes' = 0
      BY <3>1 DEF Finalized, Settled
    <3>2. CASE pc' = "idle" /\ UNCHANGED <<finalizes, received, nextWriteAddress, clean>>
      BY <1>2, <2>2, <3>2 DEF Finalized, Settled, AllStored, AppAddress
    <3>3. CASE /\ pc' = "commit" /\ cmd' = "FINALIZE_FLASH" /\ Has(ImageSize)'
               /\ UNCHANGED <<received, nextWriteAddress, clean>>
               /\ (finalizes' = 1 /\ finalizes = 0) \/ (finalizes' = 2 /\ finalizes \in {1, 2})
      <4>1. Finalized'
        BY <3>3 DEF Finalized, Has
      <4>2. Settled'
        BY <1>2, <2>2, <3>3 DEF Settled, AllStored, AppAddress
      <4>3. QED
        BY <4>1, <4>2
    <3>4. QED
      BY <1>9, <3>1, <3>2, <3>3, StartStep
  <2>6. QED
    BY <2>1, <2>3, <2>4, <2>5
<1>10. CASE ChildWorks
  <2>1. /\ frame = "child" /\ UNCHANGED master /\ err' = 0 /\ pc # "idle"
        /\ UNCHANGED <<received, nextWriteAddress, clean, cmd, finalizes>>
    BY <1>10, WorkStep
  <2>2. /\ UNCHANGED <<outcome, image, position, request, frame, known, uploaded>>
    BY <2>1 DEF master
  <2>3. Working'
    BY <1>2, <2>1, <2>2 DEF Working
  <2>4. Sync'
    <3>1. Has(position + request.count)
      BY <1>2, <2>1, AtWork
    <3>2. Has(position + request.count)'
      BY <2>1, <2>2, <3>1 DEF Has
    <3>3. QED
      BY <2>1, <2>2, <3>2 DEF Sync
  <2>5. Uploaded'
    <3>1. CASE image \in uploaded
      <4>1. InFlash(ReadByte) /\ ~ InRows
        BY <1>2, <3>1 DEF Uploaded
      <4>2. flash' = flash /\ ~ InRows'
        BY <1>10, <4>1, WorkStep, NothingToWrite
      <4>3. InFlash(ReadByte)'
        BY <2>2, <4>1, <4>2 DEF InFlash, ReadByte, TrampolineWord, AppAddress
      <4>4. QED
        BY <1>2, <2>2, <4>2, <4>3 DEF Uploaded
    <3>2. CASE image \notin uploaded
      BY <1>2, <2>2, <3>2 DEF Uploaded
    <3>3. QED
      BY <3>1, <3>2
  <2>6. Finalized'
    BY <1>2, <2>1 DEF Finalized
  <2>7. Settled' /\ Matching' /\ LastClean' /\ LastRows' /\ LastDone'
    BY <1>1, <1>10, WorkSettled, WorkMatching, WorkLastClean, WorkLastRows, WorkLastDone
  <2>8. QED
    BY <2>1, <2>3, <2>4, <2>5, <2>6, <2>7
<1>11. CASE NextUpload
  <2>1. /\ frame = "none" /\ frame' = "none" /\ position' = 0 /\ outcome' = "running"
        /\ uploaded' = uploaded \cap {image'} /\ pc = "idle"
    BY <1>2, <1>11 DEF NextUpload, MasterStarts, MasterInv, Working
  <2>2. pc' = "idle" /\ err' = 0 /\ flash' = flash
    BY <1>2, <1>11, <2>1 DEF NextUpload, Restart, Reset, attinyVars, vars
  <2>3. image' \in uploaded' => InFlash(ReadByte)'
    <3>1. SUFFICES ASSUME image' \in uploaded' PROVE InFlash(ReadByte)'
      OBVIOUS
    <3>2. image' = image /\ image \in uploaded
      BY <1>2, <2>1, <3>1 DEF Uploaded
    <3>3. QED
      BY <1>2, <2>2, <3>2 DEF Uploaded, InFlash, ReadByte, TrampolineWord, AppAddress
  <2>4. Working' /\ Sync' /\ Uploaded'
    BY <2>1, <2>2, <2>3 DEF Working, Sync, Uploaded, InRows
  <2>5. Finalized' /\ Settled'
    <3>1. CASE Restart
      BY <3>1 DEF Restart, Finalized, Settled
    <3>2. CASE UNCHANGED attinyVars
      BY <1>3, <3>2
    <3>3. QED
      BY <1>11, <3>1, <3>2 DEF NextUpload
  <2>6. QED
    BY <1>2, <2>2, <2>4, <2>5, IdleRests, MatchingRests
<1>12. CASE PowerCut
  <2>1. /\ known' = FALSE /\ frame' \in {"none", "lost"}
        /\ UNCHANGED <<outcome, image, position, request, uploaded>>
    BY <1>12 DEF PowerCut, ChildRestarts
  <2>2. pc' = "idle" /\ err' = 0 /\ flash' = flash /\ finalizes' = 0
    BY <1>12 DEF PowerCut, Restart, Reset
  <2>3. InFlash(ReadByte)' = InFlash(ReadByte)
    BY <2>1, <2>2 DEF InFlash, ReadByte, TrampolineWord, AppAddress
  <2>4. Working' /\ Sync' /\ Uploaded'
    BY <1>2, <2>1, <2>2, <2>3 DEF Working, Sync, Uploaded, InRows
  <2>5. Finalized' /\ Settled'
    BY <2>2 DEF Finalized, Settled
  <2>6. QED
    BY <1>2, <2>2, <2>4, <2>5, IdleRests, MatchingRests
<1>13. CASE UNCHANGED uploadVars
  <2>1. /\ UNCHANGED attinyVars
        /\ UNCHANGED <<outcome, image, position, request, frame, known, uploaded>>
    BY <1>13 DEF uploadVars, master
  <2>2. Working' /\ Sync' /\ Uploaded'
    BY <1>2, <2>1, ChildRests DEF Working, Sync, Uploaded
  <2>3. QED
    BY <1>3, <2>1, <2>2
<1>14. QED
  BY <1>4, <1>5, <1>6, <1>7, <1>8, <1>9, <1>10, <1>11, <1>12, <1>13, Zenon
     DEF UploadNext, MasterStep

\* An upload starts with nothing sent and nothing uploaded.
LEMMA InitUInv == UploadInit /\ Matching => UInv
<1> SUFFICES ASSUME UploadInit, Matching PROVE UInv
  OBVIOUS
<1>1. MasterInv /\ IInv
  BY InitMaster, InitIInv DEF UploadInit
<1>2. /\ frame = "none" /\ outcome = "running" /\ position = 0 /\ uploaded = {}
      /\ pc = "idle" /\ err = 0 /\ finalizes = 0
  BY DEF UploadInit, MasterInit, Init, RamInit
<1>3. Working /\ Sync /\ Uploaded /\ Finalized /\ Settled
  BY <1>2 DEF Working, Sync, Uploaded, Finalized, Settled
<1>4. LastClean /\ LastRows /\ LastDone
  BY <1>2 DEF LastClean, LastRows, LastDone
<1>5. QED
  BY <1>1, <1>2, <1>3, <1>4 DEF UInv

\* Flash as the programmer leaves it matches: there is nothing in the last page
\* but the trampoline.
LEMMA NewDeviceMatches ==
  ASSUME ImageFits, \A c \in LastPage .. trampolineStart - 1 : flash[c] = ERASED
  PROVE  Matching
BY ImagePlace, LastPageLemma DEF Matching

-----------------------------------------------------------------------------
(***************************************************************************)
(* The theorems about uploads.                                             *)
(***************************************************************************)
\* When the master believes that its upload is done, READ_FLASH shows the image,
\* reset vector and last page included, whichever frames were lost, repeated or
\* answered twice, and wherever earlier uploads were cut: as long as the image
\* ends below the trampoline, and flash was not given a page 0 of one image and
\* a last page of another by anyone else.
THEOREM DoneMeansStoredCorrect ==
  ASSUME ImageFits
  PROVE  Matching /\ UploadSpec => []DoneMeansStored
<1>1. UInv /\ [UploadNext]_uploadVars => UInv'
  BY StepUInv
<1>2. UInv => DoneMeansStored
  BY DEF UInv, Uploaded, DoneMeansStored
<1>3. QED
  BY InitUInv, <1>1, <1>2, PTL DEF UploadSpec

\* An image that was uploaded can be sent again, with any losses and cuts, and
\* no step of it changes flash.
THEOREM NoWearCorrect ==
  ASSUME ImageFits
  PROVE  Matching /\ UploadSpec => NoWear
<1>1. UInv /\ [UploadNext]_uploadVars => UInv'
  BY StepUInv
<1>2. UInv /\ [UploadNext]_uploadVars => [(image \in uploaded) => (UNCHANGED flash)]_uploadVars
  <2> SUFFICES ASSUME UInv, UploadNext, image \in uploaded PROVE flash' = flash
    BY DEF uploadVars, attinyVars, vars
  <2>1. ~ InRows
    BY DEF UInv, Uploaded
  <2>2. CASE ChildStarts
    BY <2>2, StartStep
  <2>3. CASE ChildWorks
    BY <2>1, <2>3, WorkStep
  <2>4. CASE NextUpload \/ PowerCut \/ (MasterStep /\ UNCHANGED attinyVars)
    BY <2>4 DEF NextUpload, PowerCut, Restart, Reset, attinyVars, vars
  <2>5. QED
    BY <2>2, <2>3, <2>4 DEF UploadNext
<1>3. QED
  BY InitUInv, <1>1, <1>2, PTL DEF UploadSpec, NoWear
==============================================================================
