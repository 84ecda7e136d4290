--------------------------- MODULE WriteFlash_proofs ---------------------------
(***************************************************************************)
(* Lemmas about remainders and about the pages, rows and addresses of      *)
(* WriteFlash, which the proofs about both builds rest on.                 *)
(***************************************************************************)
EXTENDS WriteFlash, TLAPS

-----------------------------------------------------------------------------
(***************************************************************************)
(* Facts about the remainder that page and row arithmetic rests on: flash  *)
(* addresses are split into pages and rows by a % size, and uint16_t       *)
(* addresses wrap by a % ADDR.                                             *)
(***************************************************************************)
\* A remainder is below the divisor and not above the number.
LEMMA ModRange ==
  ASSUME NEW n \in Nat \ {0}, NEW a \in Nat
  PROVE  a % n \in 0 .. n - 1 /\ a % n <= a
  BY SMT

\* Division with remainder.
LEMMA DivMod ==
  ASSUME NEW n \in Nat \ {0}, NEW a \in Nat
  PROVE  a = n * (a \div n) + (a % n) /\ a \div n \in Nat
  BY SMT

\* The remainder is the only number below n at a multiple's distance from a.
LEMMA ModUnique ==
  ASSUME NEW n \in Nat \ {0}, NEW a \in Nat
  PROVE  \A q \in Nat, r \in 0 .. n - 1 : a = n * q + r => a % n = r
  BY SMTT(30)

\* A number below the divisor is its own remainder.
LEMMA ModSmall ==
  ASSUME NEW n \in Nat \ {0}, NEW a \in 0 .. n - 1
  PROVE  a % n = a
  BY SMT

\* A number that exceeds the divisor by less than the divisor wraps once.
LEMMA ModOnce ==
  ASSUME NEW n \in Nat \ {0}, NEW a \in n .. n + n - 1
  PROVE  a % n = a - n
<1>1. a = n * 1 + (a - n) /\ a - n \in 0 .. n - 1 /\ 1 \in Nat
  OBVIOUS
<1>2. \A q \in Nat, r \in 0 .. n - 1 : a = n * q + r => a % n = r
  BY ModUnique
<1>3. QED
  BY <1>1, <1>2, Zenon

\* Adding a multiple of n changes no remainder.
LEMMA ModAdd ==
  ASSUME NEW n \in Nat \ {0}, NEW a \in Nat, NEW b \in Nat, b % n = 0
  PROVE  (b + a) % n = a % n
<1>1. a = n * (a \div n) + (a % n) /\ a \div n \in Nat
  BY DivMod
<1>2. a % n \in 0 .. n - 1
  BY ModRange
<1>3. b = n * (b \div n) /\ b \div n \in Nat
  BY DivMod
<1>4. b + a = n * ((a \div n) + (b \div n)) + (a % n)
  BY <1>1, <1>3, SMT
<1>5. (a \div n) + (b \div n) \in Nat
  BY <1>1, <1>3
<1>6. \A q \in Nat, r \in 0 .. n - 1 : b + a = n * q + r => (b + a) % n = r
  <2>1. b + a \in Nat
    OBVIOUS
  <2>2. QED
    BY <2>1, ModUnique, Zenon
<1>7. QED
  BY <1>2, <1>4, <1>5, <1>6, Zenon

\* Going one up goes to the next remainder, or from the last one to 0.
LEMMA ModSucc ==
  ASSUME NEW n \in Nat \ {0}, NEW a \in Nat
  PROVE  (a + 1) % n = IF a % n = n - 1 THEN 0 ELSE (a % n) + 1
<1>1. a = n * (a \div n) + (a % n) /\ a \div n \in Nat
  BY DivMod
<1>2. a % n \in 0 .. n - 1
  BY ModRange
<1>3. CASE a % n = n - 1
  <2>1. a + 1 = n * ((a \div n) + 1) + 0
    BY <1>1, <1>3, SMT
  <2>2. (a \div n) + 1 \in Nat /\ 0 \in 0 .. n - 1
    BY <1>1
  <2>3. \A q \in Nat, r \in 0 .. n - 1 : a + 1 = n * q + r => (a + 1) % n = r
    <3>1. a + 1 \in Nat
      OBVIOUS
    <3>2. QED
      BY <3>1, ModUnique, Zenon
  <2>4. (a + 1) % n = 0
    BY <2>1, <2>2, <2>3, Zenon
  <2>5. QED
    BY <2>4, <1>3
<1>4. CASE a % n # n - 1
  <2>1. a + 1 = n * (a \div n) + ((a % n) + 1)
    BY <1>1, <1>4, SMT
  <2>2. (a % n) + 1 \in 0 .. n - 1
    BY <1>2, <1>4, SMT
  <2>3. \A q \in Nat, r \in 0 .. n - 1 : a + 1 = n * q + r => (a + 1) % n = r
    <3>1. a + 1 \in Nat
      OBVIOUS
    <3>2. QED
      BY <3>1, ModUnique, Zenon
  <2>4. (a + 1) % n = (a % n) + 1
    BY <2>1, <2>2, <2>3, <1>1, Zenon
  <2>5. QED
    BY <2>4, <1>4
<1>5. QED
  BY <1>3, <1>4

\* Rounding down gives a multiple of n with the number in the n that follow.
LEMMA ModFloor ==
  ASSUME NEW n \in Nat \ {0}, NEW a \in Nat
  PROVE  /\ a - (a % n) \in Nat
         /\ (a - (a % n)) % n = 0
         /\ a - (a % n) <= a
         /\ a < a - (a % n) + n
<1>1. a = n * (a \div n) + (a % n) /\ a \div n \in Nat
  BY DivMod
<1>2. a % n \in 0 .. n - 1 /\ a % n <= a
  BY ModRange
<1>3. a - (a % n) = n * (a \div n) + 0
  BY <1>1, <1>2, SMT
<1>4. a - (a % n) \in Nat
  BY <1>2
<1>5. \A q \in Nat, r \in 0 .. n - 1 :
        a - (a % n) = n * q + r => (a - (a % n)) % n = r
  BY <1>4, ModUnique
<1>6. 0 \in 0 .. n - 1
  OBVIOUS
<1>7. (a - (a % n)) % n = 0
  BY <1>1, <1>3, <1>5, <1>6, Zenon
<1>8. QED
  BY <1>2, <1>7

\* Two different multiples of n are at least n apart.
LEMMA ModGap ==
  ASSUME NEW n \in Nat \ {0}, NEW a \in Nat, NEW b \in Nat,
         a % n = 0, b % n = 0, a < b
  PROVE  a + n <= b
<1>1. /\ a = n * (a \div n) /\ a \div n \in Nat
      /\ b = n * (b \div n) /\ b \div n \in Nat
  BY DivMod
<1>2. a \div n < b \div n
  <2>1. SUFFICES ASSUME a \div n >= b \div n PROVE FALSE
    BY <1>1
  <2>2. PICK k \in Nat : a \div n = (b \div n) + k
    <3>1. (a \div n) - (b \div n) \in Nat
      BY <1>1, <2>1
    <3>2. a \div n = (b \div n) + ((a \div n) - (b \div n))
      BY <1>1
    <3>3. QED
      BY <3>1, <3>2
  <2>3. a = b + n * k /\ n * k >= 0
    BY <1>1, <2>2, SMT
  <2>4. QED
    BY <2>3
<1>3. PICK k \in Nat : b \div n = (a \div n) + 1 + k
  <2>1. (b \div n) - (a \div n) - 1 \in Nat
    BY <1>1, <1>2
  <2>2. b \div n = (a \div n) + 1 + ((b \div n) - (a \div n) - 1)
    BY <1>1
  <2>3. QED
    BY <2>1, <2>2
<1>4. b = a + n + n * k /\ n * k >= 0
  BY <1>1, <1>3, SMT
<1>5. QED
  BY <1>4

\* A multiple of n is a multiple of whatever n is a multiple of.
LEMMA ModTrans ==
  ASSUME NEW n \in Nat \ {0}, NEW w \in Nat \ {0}, NEW a \in Nat,
         n % w = 0, a % n = 0
  PROVE  a % w = 0
<1>1. /\ a = n * (a \div n) /\ a \div n \in Nat
      /\ n = w * (n \div w) /\ n \div w \in Nat
  BY DivMod
<1>2. \A p, q \in Nat : n = w * p /\ a = n * q => a = w * (p * q) + 0 /\ p * q \in Nat
  BY SMT
<1>3. a = w * ((n \div w) * (a \div n)) + 0 /\ (n \div w) * (a \div n) \in Nat
  BY <1>1, <1>2
<1>4. \A q \in Nat, r \in 0 .. w - 1 : a = w * q + r => a % w = r
  BY ModUnique
<1>5. 0 \in 0 .. w - 1
  OBVIOUS
<1>6. QED
  BY <1>3, <1>4, <1>5, Zenon

\* The product of a multiple is a multiple.
LEMMA ModTimes ==
  ASSUME NEW n \in Nat \ {0}, NEW q \in Nat
  PROVE  n * q \in Nat /\ (n * q) % n = 0
<1>1. n * q \in Nat /\ n * q = n * q + 0 /\ 0 \in 0 .. n - 1
  BY SMT
<1>2. \A p \in Nat, r \in 0 .. n - 1 : n * q = n * p + r => (n * q) % n = r
  BY <1>1, ModUnique
<1>3. QED
  BY <1>1, <1>2, Zenon

\* A quotient is the only number of its kind.
LEMMA DivUnique ==
  ASSUME NEW n \in Nat \ {0}, NEW a \in Nat, NEW q \in Nat, NEW r \in 0 .. n - 1,
         a = n * q + r
  PROVE  a \div n = q
<1> DEFINE p == a \div n
<1>1. p \in Nat /\ a = n * p + (a % n) /\ a % n = r
  <2>1. \A y \in Nat, z \in 0 .. n - 1 : a = n * y + z => a % n = z
    BY ModUnique
  <2>2. a % n = r
    BY <2>1, Zenon
  <2>3. QED
    BY <2>2, DivMod
<1> HIDE DEF p
<1>2. n * p = n * q
  BY <1>1, SMT
<1>3. ASSUME NEW x \in Nat, NEW y \in Nat, x < y PROVE n * x # n * y
  <2>1. PICK k \in Nat : y = x + 1 + k
    <3>1. y - x - 1 \in Nat /\ y = x + 1 + (y - x - 1)
      BY <1>3
    <3>2. QED
      BY <3>1
  <2>2. n * y = n * x + n + n * k /\ n * k >= 0 /\ n * x \in Nat
    BY <2>1, SMT
  <2>3. QED
    BY <2>2
<1>4. ~ (p < q) /\ ~ (q < p)
  BY <1>1, <1>2, <1>3
<1>5. QED
  BY <1>1, <1>4 DEF p

\* Two numbers have one quotient if they lie between the same multiples.
LEMMA DivSame ==
  ASSUME NEW n \in Nat \ {0}, NEW a \in Nat, NEW b \in Nat
  PROVE  a \div n = b \div n <=> b - (b % n) <= a /\ a < b - (b % n) + n
<1>1. /\ a = n * (a \div n) + (a % n) /\ a \div n \in Nat
      /\ b = n * (b \div n) + (b % n) /\ b \div n \in Nat
  BY DivMod
<1>2. a % n \in 0 .. n - 1 /\ b % n \in 0 .. n - 1
  BY ModRange
<1> DEFINE p == a \div n
           q == b \div n
<1>3. b - (b % n) = n * q
  BY <1>1, <1>2, SMT
<1>4. \A k \in Nat : n * k \in Nat /\ n * (k + 1) = n * k + n
  BY SMT
<1>5. CASE p = q
  BY <1>1, <1>2, <1>3, <1>5, SMT
<1>6. ASSUME p < q PROVE a < n * q
  <2>1. PICK k \in Nat : q = p + 1 + k
    <3>1. q - p - 1 \in Nat /\ q = p + 1 + (q - p - 1)
      BY <1>1, <1>6
    <3>2. QED
      BY <3>1
  <2>2. n * q = n * p + n + n * k /\ n * k >= 0
    BY <1>1, <2>1, SMT
  <2>3. QED
    BY <1>1, <1>2, <2>2
<1>7. ASSUME q < p PROVE a >= n * q + n
  <2>1. PICK k \in Nat : p = q + 1 + k
    <3>1. p - q - 1 \in Nat /\ p = q + 1 + (p - q - 1)
      BY <1>1, <1>7
    <3>2. QED
      BY <3>1
  <2>2. n * p = n * q + n + n * k /\ n * k >= 0
    BY <1>1, <2>1, SMT
  <2>3. QED
    BY <1>1, <1>2, <2>2, <1>4
<1>8. QED
  <2>1. p \in Nat /\ q \in Nat /\ n * q \in Nat
    BY <1>1, <1>4
  <2> HIDE DEF p, q
  <2>2. p = q <=> n * q <= a /\ a < n * q + n
    <3>1. p = q \/ p < q \/ q < p
      BY <2>1
    <3>2. CASE p = q
      BY <1>3, <1>5, <3>2 DEF p, q
    <3>3. CASE p < q
      BY <1>6, <2>1, <3>3
    <3>4. CASE q < p
      BY <1>7, <2>1, <3>4
    <3>5. QED
      BY <3>1, <3>2, <3>3, <3>4
  <2>3. QED
    BY <1>3, <2>2, Zenon DEF p, q

\* Remainders of negative numbers are not negative.
LEMMA ModInt ==
  ASSUME NEW n \in Nat \ {0}, NEW a \in Int
  PROVE  a % n \in 0 .. n - 1 /\ a = n * (a \div n) + (a % n) /\ a \div n \in Int
  BY SMT

\* What is taken off can be added again: counting modulo n has inverses.
LEMMA ModBack ==
  ASSUME NEW n \in Nat \ {0}, NEW x \in 0 .. n - 1, NEW k \in Nat
  PROVE  (((x - k) % n) + k) % n = x
<1> DEFINE r == (x - k) % n
           q == (x - k) \div n
<1>0. x - k \in Int
  OBVIOUS
<1>1. r \in 0 .. n - 1 /\ x - k = n * q + r /\ q \in Int
  BY <1>0, ModInt, Zenon
<1> HIDE DEF r, q
<1>2. q <= 0
  <2>1. SUFFICES ASSUME q > 0 PROVE FALSE
    BY <1>1
  <2>2. n * q >= n
    BY <1>1, <2>1, SMT
  <2>3. QED
    BY <1>1, <2>2
<1>3. PICK p \in Nat : q = 0 - p
  <2>1. 0 - q \in Nat /\ q = 0 - (0 - q)
    BY <1>1, <1>2
  <2>2. QED
    BY <2>1
<1>4. r + k = n * p + x
  BY <1>1, <1>3, SMT
<1>5. r + k \in Nat
  BY <1>1
<1>6. \A y \in Nat, z \in 0 .. n - 1 : r + k = n * y + z => (r + k) % n = z
  BY <1>5, ModUnique
<1>7. (r + k) % n = x
  BY <1>4, <1>6, Zenon
<1>8. QED
  BY <1>7 DEF r

-----------------------------------------------------------------------------
(***************************************************************************)
(* The addresses of WriteFlash.                                            *)
(***************************************************************************)
\* The sizes are numbers.
LEMMA Sizes ==
  /\ FLASH_WRITE_SIZE \in Nat \ {0}
  /\ FLASH_ERASE_SIZE \in Nat \ {0}
  /\ ADDR \in Nat \ {0}
  /\ FLASH_APP_OFFSET \in Nat
  /\ ApplicationSize \in Nat
  /\ MaxErase \in Nat \ {0}
  /\ MaxData \in 0 .. ADDR - 1
  BY SizeAssumption, InputAssumption

\* Every address lies in the page that starts at its PageStart.
LEMMA PageLemma ==
  ASSUME NEW a \in Nat
  PROVE  /\ BufferIndex(a) \in 0 .. FLASH_ERASE_SIZE - 1
         /\ PageStart(a) \in Nat
         /\ PageStart(a) % FLASH_ERASE_SIZE = 0
         /\ PageStart(a) <= a
         /\ a < PageStart(a) + FLASH_ERASE_SIZE
  BY Sizes, ModRange, ModFloor DEF BufferIndex, PageStart

\* The address behind the last byte of a page is the start of the next page.
LEMMA PageEnd ==
  ASSUME NEW a \in Nat, BufferIndex(a + 1) = 0
  PROVE  /\ a + 1 - FLASH_ERASE_SIZE = PageStart(a)
         /\ PageStart(a + 1) = a + 1
<1>1. BufferIndex(a + 1) = IF BufferIndex(a) = FLASH_ERASE_SIZE - 1 THEN 0
                           ELSE BufferIndex(a) + 1
  BY Sizes, ModSucc, Zenon DEF BufferIndex
<1>2. BufferIndex(a) \in Nat /\ FLASH_ERASE_SIZE \in Nat
  BY Sizes, ModRange DEF BufferIndex
<1>3. BufferIndex(a) = FLASH_ERASE_SIZE - 1
  BY <1>1, <1>2
<1>4. QED
  BY <1>2, <1>3 DEF PageStart

\* Elsewhere in a page the next address is in the same page.
LEMMA PageNext ==
  ASSUME NEW a \in Nat, BufferIndex(a + 1) # 0
  PROVE  PageStart(a + 1) = PageStart(a)
<1>1. BufferIndex(a + 1) = BufferIndex(a) + 1
  BY Sizes, ModSucc, Zenon DEF BufferIndex
<1>2. BufferIndex(a) \in Nat
  BY Sizes, ModRange DEF BufferIndex
<1>3. QED
  BY <1>1, <1>2 DEF PageStart

\* The buffer holds a page in order.
LEMMA IndexInPage ==
  ASSUME NEW b \in Nat, b % FLASH_ERASE_SIZE = 0,
         NEW i \in 0 .. FLASH_ERASE_SIZE - 1
  PROVE  BufferIndex(b + i) = i
<1>1. i \in Nat /\ i % FLASH_ERASE_SIZE = i
  BY Sizes, ModSmall
<1>2. QED
  BY <1>1, Sizes, ModAdd DEF BufferIndex

\* A row of a page ends in the page.
LEMMA RowInPage ==
  ASSUME NEW o \in 0 .. FLASH_ERASE_SIZE - 1, o % FLASH_WRITE_SIZE = 0
  PROVE  o + FLASH_WRITE_SIZE <= FLASH_ERASE_SIZE
<1>1. o \in Nat /\ o < FLASH_ERASE_SIZE
  BY Sizes
<1>2. FLASH_ERASE_SIZE % FLASH_WRITE_SIZE = 0
  BY SizeAssumption
<1>3. QED
  BY <1>1, <1>2, Sizes, ModGap, Zenon

\* The start of a page is its own PageStart, and so is the next page's.
LEMMA PageStartOfStart ==
  ASSUME NEW b \in Nat, b % FLASH_ERASE_SIZE = 0
  PROVE  PageStart(b) = b /\ PageStart(b + FLASH_ERASE_SIZE) = b + FLASH_ERASE_SIZE
<1>1. PageStart(b) = b
  BY DEF PageStart, BufferIndex
<1>2. FLASH_ERASE_SIZE % FLASH_ERASE_SIZE = 0 /\ FLASH_ERASE_SIZE \in Nat
  BY Sizes, ModOnce
<1>3. (b + FLASH_ERASE_SIZE) % FLASH_ERASE_SIZE = 0
  BY <1>2, Sizes, ModAdd, Zenon
<1>4. QED
  BY <1>1, <1>2, <1>3 DEF PageStart, BufferIndex

\* What the buffer holds of a page from address lo on, by its index or by address.
LEMMA BufferByAddress ==
  ASSUME NEW b \in Nat, b % FLASH_ERASE_SIZE = 0, NEW n \in 0 .. FLASH_ERASE_SIZE,
         NEW lo \in Nat, NEW buf, NEW rec
  PROVE  (\A i \in 0 .. n - 1 : b + i >= lo => buf[i] = rec[b + i])
           <=> (\A i \in b .. b + n - 1 : i >= lo => buf[BufferIndex(i)] = rec[i])
<1>1. ASSUME \A i \in 0 .. n - 1 : b + i >= lo => buf[i] = rec[b + i],
             NEW i \in b .. b + n - 1, i >= lo
      PROVE  buf[BufferIndex(i)] = rec[i]
  <2>1. i - b \in 0 .. FLASH_ERASE_SIZE - 1 /\ i - b \in 0 .. n - 1 /\ b + (i - b) = i
    BY Sizes
  <2>2. BufferIndex(b + (i - b)) = i - b
    BY <2>1, IndexInPage
  <2>3. QED
    BY <1>1, <2>1, <2>2
<1>2. ASSUME \A i \in b .. b + n - 1 : i >= lo => buf[BufferIndex(i)] = rec[i],
             NEW i \in 0 .. n - 1, b + i >= lo
      PROVE  buf[i] = rec[b + i]
  <2>1. i \in 0 .. FLASH_ERASE_SIZE - 1 /\ b + i \in b .. b + n - 1
    BY Sizes
  <2>2. BufferIndex(b + i) = i
    BY <2>1, IndexInPage
  <2>3. QED
    BY <1>2, <2>1, <2>2
<1>3. QED
  BY <1>1, <1>2

-----------------------------------------------------------------------------
(***************************************************************************)
(* The locals of the call chain, for every writePage.                      *)
(***************************************************************************)
InCommit == pc \in {"commit", "row", "trampoline", "vector", "program", "return"}
InRows == pc \in {"row", "trampoline", "vector", "program"}

\* The number of bytes of writeBuffer that commitToFlash was called for.
CommitLen == offset + len

\* What the locals are worth: a write commits a full page that it has sent all
\* of, a finalize what there is of the last page.
CallLocals ==
  /\ pc # "return" => err = 0
  /\ pc # "idle" => cmd # "none"
  /\ pc = "copy" => cmd = "WRITE_FLASH"
  /\ pc = "commit" => offset = 0
  /\ InRows => CommitLen > 0
  /\ InCommit =>
       /\ base % FLASH_ERASE_SIZE = 0
       /\ CommitLen <= FLASH_ERASE_SIZE
       /\ cmd = "WRITE_FLASH" => /\ CommitLen = FLASH_ERASE_SIZE
                                 /\ address = base + FLASH_ERASE_SIZE
                                 /\ address <= nextWriteAddress
       /\ cmd # "WRITE_FLASH" => /\ base = PageStart(nextWriteAddress)
                                 /\ CommitLen = nextWriteAddress - base

\* The steps of a command, up to the page it commits and from there on.
CommandStep ==
  \/ Reset
  \/ \E a \in Addr : WriteRejected(a)
  \/ \E a \in Addr, n \in 0 .. MaxData, img \in Images : WriteAccepted(a, n, img)
  \/ FinalizeFlash
  \/ CopyByte \/ CopyDone \/ CommitOk \/ CommitFailed
  \/ UNCHANGED vars

\* The numbers among the variables.
LEMMA Numbers ==
  ASSUME TypeInvariant
  PROVE  /\ address \in Nat /\ nextWriteAddress \in Nat /\ base \in Nat
         /\ offset \in Nat /\ len \in Nat /\ CommitLen \in Nat
         /\ address < ADDR /\ nextWriteAddress < ADDR /\ base < ADDR
  BY Sizes DEF TypeInvariant, Addr, CommitLen

\* At power-on the types are right, and no local is in use.
LEMMA RamInitLocals == RamInit => TypeInvariant /\ CallLocals
<1> SUFFICES ASSUME RamInit PROVE TypeInvariant /\ CallLocals
  OBVIOUS
<1>1. 0 \in Byte /\ ERASED \in Byte
  BY ByteAssumption
<1>2. TypeInvariant
  BY <1>1, Sizes DEF RamInit, TypeInvariant, Reply, Status, Addr
<1>3. CallLocals
  BY DEF RamInit, CallLocals, InCommit, InRows
<1>4. QED
  BY <1>2, <1>3

\* The steps of a command keep the types and what the locals are worth.
LEMMA CommandStepLocals ==
  TypeInvariant /\ CallLocals /\ CommandStep => TypeInvariant' /\ CallLocals'
<1> SUFFICES ASSUME TypeInvariant, CallLocals, CommandStep
             PROVE  TypeInvariant' /\ CallLocals'
  OBVIOUS
<1> USE Sizes, ByteAssumption
<1> USE DEF TypeInvariant, CallLocals, InCommit, InRows, CommitLen, buffers, commitV,
            history, Addr, Status, Reply
<1>0. address \in Nat /\ nextWriteAddress \in Nat
  OBVIOUS
<1>1. CASE Reset
  BY <1>1 DEF Reset
<1>2. ASSUME NEW a \in Addr, WriteRejected(a) PROVE TypeInvariant' /\ CallLocals'
  BY <1>2 DEF WriteRejected
<1>3. ASSUME NEW a \in Addr, NEW n \in 0 .. MaxData, NEW img \in Images,
             WriteAccepted(a, n, img)
      PROVE  TypeInvariant' /\ CallLocals'
  <2>1. Advance(a, n) \in Addr
    BY ModRange DEF Advance
  <2>2. img \in [Addr -> Byte]
    BY InputAssumption
  <2>3. QED
    BY <1>3, <2>1, <2>2 DEF WriteAccepted
<1>4. CASE CopyByte
  <2>1. BufferIndex(address) \in 0 .. FLASH_ERASE_SIZE - 1
    BY <1>0, PageLemma, Zenon
  <2>2. CASE BufferIndex(address + 1) = 0
    <3>1. address + 1 - FLASH_ERASE_SIZE = PageStart(address)
      BY <2>2, PageEnd
    <3>2. PageStart(address) \in Nat /\ PageStart(address) % FLASH_ERASE_SIZE = 0
      BY <1>0, PageLemma, Zenon
    <3>3. QED
      BY <1>4, <2>1, <2>2, <3>1, <3>2 DEF CopyByte
  <2>3. CASE BufferIndex(address + 1) # 0
    BY <1>4, <2>1, <2>3 DEF CopyByte
  <2>4. QED
    BY <2>2, <2>3
<1>5. CASE CopyDone
  BY <1>5 DEF CopyDone
<1>6. CASE FinalizeFlash
  <2>1. /\ PageStart(nextWriteAddress) \in Nat
        /\ PageStart(nextWriteAddress) % FLASH_ERASE_SIZE = 0
        /\ PageStart(nextWriteAddress) <= nextWriteAddress
        /\ nextWriteAddress < PageStart(nextWriteAddress) + FLASH_ERASE_SIZE
    BY <1>0, PageLemma, Zenon
  <2>2. PageStart(nextWriteAddress)' = PageStart(nextWriteAddress)
    BY <1>6 DEF FinalizeFlash, PageStart, BufferIndex
  <2>3. QED
    BY <1>6, <2>1, <2>2 DEF FinalizeFlash
<1>7. CASE CommitOk
  BY <1>7 DEF CommitOk, LocalsGone
<1>8. CASE CommitFailed
  BY <1>8 DEF CommitFailed, LocalsGone
<1>9. CASE UNCHANGED vars
  BY <1>9 DEF vars, PageStart, BufferIndex
<1>10. QED
  BY <1>1, <1>2, <1>3, <1>4, <1>5, <1>6, <1>7, <1>8, <1>9, Zenon DEF CommandStep

\* While a page is committed, the command stays, and so does what it commits.
CommitStep ==
  /\ InCommit /\ pc # "return" /\ InCommit'
  /\ base' = base /\ CommitLen' = CommitLen
  /\ UNCHANGED <<nextWriteAddress, address, cmd, received, clean>>

\* CommitSkip, CommitStart and CommitDone are such steps.
LEMMA CompareSteps ==
  ASSUME TypeInvariant, CallLocals, NEW readByte,
         CommitSkip(readByte) \/ CommitStart(readByte) \/ CommitDone
  PROVE  CommitStep /\ TypeInvariant' /\ CallLocals'
<1>1. CASE CommitStart(readByte)
  <2>1. len > 0
    <3>1. PICK i \in 0 .. len - 1 : writeBuffer[i] # readByte[AppAddress(base + i)]
      BY <1>1 DEF CommitStart, EqualToFlash
    <3>2. QED
      BY <3>1, Numbers
  <2>2. QED
    BY <1>1, <2>1, Numbers DEF CommitStart, CommitStep, TypeInvariant, CallLocals, InCommit, InRows,
       CommitLen, commitV, buffers, history, PageStart, BufferIndex
<1>2. CASE CommitSkip(readByte)
  BY <1>2 DEF CommitSkip, CommitStep, TypeInvariant, CallLocals, InCommit, InRows,
     CommitLen, commitV, buffers, history, PageStart, BufferIndex
<1>3. CASE CommitDone
  BY <1>3 DEF CommitDone, CommitStep, TypeInvariant, CallLocals, InCommit, InRows,
     CommitLen, commitV, buffers, history, PageStart, BufferIndex
<1>4. QED
  BY <1>1, <1>2, <1>3

-----------------------------------------------------------------------------
(***************************************************************************)
(* The upload: what is in the buffer, and how far the pages behind it go.  *)
(***************************************************************************)
\* Where the upload stands: bytes below Top have been taken from the payload,
\* those below Bound have been committed.
Top == IF pc = "copy" THEN address ELSE nextWriteAddress
Bound == IF InCommit THEN base ELSE PageStart(Top)

\* The buffer holds the bytes received of its page, from address lo on.
BufferedFrom(lo) ==
  clean =>
    /\ pc = "copy" => address <= nextWriteAddress
    /\ IF InCommit
         THEN \A i \in 0 .. CommitLen - 1 : base + i >= lo => writeBuffer[i] = received[base + i]
         ELSE \A i \in PageStart(Top) .. Top - 1 : i >= lo => writeBuffer[BufferIndex(i)] = received[i]

\* What a write that goes on with an upload leaves of it.
LEMMA WriteGoesOn ==
  ASSUME TypeInvariant, NEW a \in Addr, NEW n \in 0 .. MaxData, NEW img \in Images,
         WriteAccepted(a, n, img), clean'
  PROVE  /\ a \in Nat /\ nextWriteAddress' = a + n /\ a <= nextWriteAddress'
         /\ ~ InCommit /\ ~ InCommit' /\ pc = "idle" /\ pc' = "copy" /\ address' = a
         /\ Top = nextWriteAddress /\ Top' = a
         /\ a # 0 => /\ clean /\ a = nextWriteAddress
                     /\ \A i \in 0 .. a - 1 : received'[i] = received[i]
<1>1. a \in Nat /\ n \in Nat /\ a + n < ADDR
  <2>1. a + n < ADDR
    BY Zenon DEF WriteAccepted
  <2>2. QED
    BY <2>1, Sizes DEF Addr
<1>2. Advance(a, n) = a + n
  BY <1>1, Sizes, ModSmall DEF Advance
<1>3. nextWriteAddress' = a + n
  BY <1>2 DEF WriteAccepted
<1>4. /\ ~ InCommit /\ ~ InCommit' /\ pc = "idle" /\ pc' = "copy" /\ address' = a
      /\ Top = nextWriteAddress /\ Top' = a
  BY DEF WriteAccepted, InCommit, Top
<1>5. ASSUME a # 0
      PROVE  clean /\ a = nextWriteAddress /\ \A i \in 0 .. a - 1 : received'[i] = received[i]
  <2>1. a = nextWriteAddress /\ clean
    BY <1>5 DEF WriteAccepted, Expected
  <2>2. \A i \in 0 .. a - 1 : i \in Addr /\ i \notin a .. a + n - 1
    BY <1>1, Sizes DEF Addr
  <2>3. \A i \in 0 .. a - 1 : received'[i] = received[i]
    BY <1>5, <2>2, Zenon DEF WriteAccepted
  <2>4. QED
    BY <2>1, <2>3
<1>6. QED
  BY <1>1, <1>3, <1>4, <1>5

\* The buffer keeps holding the bytes received of its page, through the copy
\* loop, commits in its middle, rejected writes and restarts at address 0.
LEMMA StepBuffered ==
  ASSUME TypeInvariant, CallLocals, NEW lo \in Nat, BufferedFrom(lo),
         CommandStep \/ CommitStep,
         CommitStep => \A i \in 0 .. FLASH_ERASE_SIZE - 1 :
                          base + i >= lo => writeBuffer'[i] = writeBuffer[i]
  PROVE  BufferedFrom(lo)'
<1> SUFFICES ASSUME clean' PROVE BufferedFrom(lo)'
  BY DEF BufferedFrom
<1>1. CASE UNCHANGED vars
  BY <1>1 DEF vars, BufferedFrom, InCommit, Top, CommitLen, PageStart, BufferIndex
<1>2. CASE Reset
  <2>1. PageStart(0) = 0
    BY Sizes, PageStartOfStart, ModSmall
  <2>2. /\ pc' = "idle" /\ nextWriteAddress' = 0
    BY <1>2 DEF Reset
  <2>3. ~ InCommit' /\ Top' = 0 /\ PageStart(Top)' = 0
    BY <2>1, <2>2 DEF InCommit, Top, PageStart, BufferIndex
  <2>4. QED
    BY <2>2, <2>3 DEF BufferedFrom
<1>3. CASE CommitStep
  <2>1. /\ InCommit /\ InCommit' /\ pc' # "copy"
        /\ base' = base /\ CommitLen' = CommitLen
        /\ UNCHANGED <<received, clean>>
    BY <1>3 DEF CommitStep, InCommit
  <2>2. \A i \in 0 .. CommitLen - 1 : base + i >= lo => writeBuffer'[i] = received[base + i]
    <3>1. \A i \in 0 .. CommitLen - 1 : i \in 0 .. FLASH_ERASE_SIZE - 1
      BY <2>1, Numbers, Sizes DEF CallLocals
    <3>2. \A i \in 0 .. CommitLen - 1 : base + i >= lo => writeBuffer[i] = received[base + i]
      BY <2>1 DEF BufferedFrom
    <3>3. QED
      BY <1>3, <3>1, <3>2
  <2>3. QED
    BY <2>1, <2>2 DEF BufferedFrom
<1>4. ASSUME NEW a \in Addr, WriteRejected(a) PROVE BufferedFrom(lo)'
  <2>1. pc = "idle" /\ pc' = "idle" /\ ~ InCommit /\ ~ InCommit'
    BY <1>4 DEF WriteRejected, InCommit
  <2>2. Top' = Top /\ PageStart(Top)' = PageStart(Top)
    BY <1>4, <2>1 DEF WriteRejected, buffers, Top, PageStart, BufferIndex
  <2>3. UNCHANGED <<writeBuffer, received, clean>>
    BY <1>4 DEF WriteRejected, buffers, history
  <2>4. QED
    BY <2>1, <2>2, <2>3 DEF BufferedFrom, BufferIndex
<1>5. ASSUME NEW a \in Addr, NEW n \in 0 .. MaxData, NEW img \in Images,
             WriteAccepted(a, n, img)
      PROVE  BufferedFrom(lo)'
  <2>1. /\ a \in Nat /\ a <= nextWriteAddress' /\ ~ InCommit /\ ~ InCommit'
        /\ pc' = "copy" /\ address' = a /\ Top = nextWriteAddress /\ Top' = a
        /\ writeBuffer' = writeBuffer
    BY <1>5, WriteGoesOn DEF WriteAccepted
  <2>2. \A i \in PageStart(a) .. a - 1 : i >= lo => writeBuffer[BufferIndex(i)] = received'[i]
    <3>1. CASE a = 0
      <4>1. PageStart(0) = 0
        BY Sizes, PageStartOfStart, ModSmall
      <4>2. QED
        BY <3>1, <4>1
    <3>2. CASE a # 0
      <4>1. a = nextWriteAddress /\ clean /\ \A i \in 0 .. a - 1 : received'[i] = received[i]
        BY <1>5, <3>2, WriteGoesOn
      <4>2. \A i \in PageStart(a) .. a - 1 : i \in 0 .. a - 1
        <5>1. PageStart(a) \in Nat
          BY <2>1, PageLemma, Zenon
        <5>2. QED
          BY <2>1, <5>1
      <4>3. \A i \in PageStart(a) .. a - 1 : i >= lo => writeBuffer[BufferIndex(i)] = received[i]
        BY <2>1, <4>1 DEF BufferedFrom
      <4>4. QED
        BY <4>1, <4>2, <4>3
    <3>3. QED
      BY <3>1, <3>2
  <2>3. PageStart(Top)' = PageStart(a)
    BY <2>1 DEF PageStart, BufferIndex
  <2>4. QED
    BY <2>1, <2>2, <2>3 DEF BufferedFrom, BufferIndex
<1>6. CASE CopyByte
  <2>1. /\ pc = "copy" /\ ~ InCommit /\ Top = address /\ clean
        /\ address < nextWriteAddress
        /\ UNCHANGED <<nextWriteAddress, received>>
        /\ address' = address + 1
        /\ writeBuffer' = [writeBuffer EXCEPT ![BufferIndex(address)] = received[address]]
    BY <1>6 DEF CopyByte, InCommit, Top, history
  <2> DEFINE b == PageStart(address)
             k == BufferIndex(address)
  <2>2. /\ b \in Nat /\ b % FLASH_ERASE_SIZE = 0 /\ k \in 0 .. FLASH_ERASE_SIZE - 1
        /\ address = b + k
    <3>1. address \in Nat
      BY Numbers
    <3>2. k \in 0 .. FLASH_ERASE_SIZE - 1 /\ b \in Nat /\ b % FLASH_ERASE_SIZE = 0
      BY <3>1, PageLemma, Zenon
    <3>3. address = b + k
      BY <3>1, <3>2, Sizes DEF PageStart
    <3>4. QED
      BY <3>2, <3>3
  <2>3. \A i \in b .. b + k - 1 : i >= lo => writeBuffer[BufferIndex(i)] = received[i]
    BY <2>1, <2>2 DEF BufferedFrom
  <2> HIDE DEF b, k
  <2>4. \A i \in 0 .. k - 1 : b + i >= lo => writeBuffer[i] = received[b + i]
    <3>1. \A i \in 0 .. k - 1 : b + i \in b .. b + k - 1 /\ BufferIndex(b + i) = i
      <4>1. ASSUME NEW i \in 0 .. k - 1 PROVE b + i \in b .. b + k - 1 /\ BufferIndex(b + i) = i
        <5>1. b + i \in b .. b + k - 1 /\ i \in 0 .. FLASH_ERASE_SIZE - 1
          BY <2>2, Sizes
        <5>2. QED
          BY <2>2, <5>1, IndexInPage
      <4>2. QED
        BY <4>1
    <3>2. QED
      BY <2>3, <3>1, Zenon
  <2>5. \A i \in 0 .. (k + 1) - 1 : b + i >= lo => writeBuffer'[i] = received'[b + i]
    <3>1. writeBuffer' = [writeBuffer EXCEPT ![k] = received[b + k]]
      BY <2>1, <2>2 DEF k
    <3>2. writeBuffer \in [0 .. FLASH_ERASE_SIZE - 1 -> Byte]
      BY DEF TypeInvariant
    <3>3. QED
      BY <2>1, <2>2, <2>4, <3>1, <3>2, Sizes
  <2>6. CASE BufferIndex(address + 1) = 0
    <3>1. /\ InCommit' /\ CommitLen' = FLASH_ERASE_SIZE /\ base' = address + 1 - FLASH_ERASE_SIZE
          /\ pc' # "copy"
      BY <1>6, <2>6, Sizes DEF CopyByte, InCommit, CommitLen
    <3>2. base' = b
      BY <2>6, <3>1, Numbers, PageEnd DEF b
    <3>3. k = FLASH_ERASE_SIZE - 1
      BY <2>2, <3>1, <3>2, Sizes
    <3>4. \A i \in 0 .. CommitLen' - 1 : base' + i >= lo => writeBuffer'[i] = received'[base' + i]
      BY <2>5, <3>1, <3>2, <3>3, Sizes
    <3>5. QED
      BY <3>1, <3>4 DEF BufferedFrom
  <2>7. CASE BufferIndex(address + 1) # 0
    <3>1. pc' = "copy" /\ ~ InCommit' /\ Top' = address + 1
      BY <1>6, <2>1, <2>7 DEF CopyByte, InCommit, Top
    <3>2. PageStart(Top)' = b
      BY <2>7, <3>1, Numbers, PageNext DEF b, PageStart, BufferIndex
    <3>3. \A i \in b .. b + (k + 1) - 1 : i >= lo => writeBuffer'[BufferIndex(i)] = received'[i]
      <4> DEFINE n == k + 1
      <4>1. n \in 0 .. FLASH_ERASE_SIZE /\ \A i \in 0 .. n - 1 : b + i >= lo => writeBuffer'[i] = received'[b + i]
        BY <2>2, <2>5, Sizes
      <4> HIDE DEF n
      <4>2. \A i \in b .. b + n - 1 : i >= lo => writeBuffer'[BufferIndex(i)] = received'[i]
        BY <2>2, <4>1, BufferByAddress
      <4>3. QED
        BY <4>2 DEF n
    <3>4. \A i \in PageStart(Top)' .. Top' - 1 : i >= lo => writeBuffer'[BufferIndex(i)] = received'[i]
      BY <2>2, <3>1, <3>2, <3>3
    <3>5. address' <= nextWriteAddress'
      BY <2>1, Numbers
    <3>6. QED
      BY <3>1, <3>4, <3>5 DEF BufferedFrom, BufferIndex
  <2>8. QED
    BY <2>6, <2>7
<1>7. CASE CopyDone
  <2>1. /\ pc = "copy" /\ pc' = "idle" /\ ~ InCommit /\ ~ InCommit'
        /\ UNCHANGED <<writeBuffer, nextWriteAddress, received, clean>>
        /\ address >= nextWriteAddress
    BY <1>7 DEF CopyDone, InCommit, history
  <2>2. address = nextWriteAddress
    BY <2>1, Numbers DEF BufferedFrom
  <2>3. Top = address /\ Top' = address
    BY <2>1, <2>2 DEF Top
  <2>4. PageStart(Top)' = PageStart(Top)
    BY <2>3 DEF PageStart, BufferIndex
  <2>5. QED
    BY <2>1, <2>3, <2>4 DEF BufferedFrom, BufferIndex
<1>8. CASE FinalizeFlash
  <2> DEFINE b == PageStart(nextWriteAddress)
  <2>1. /\ pc = "idle" /\ ~ InCommit /\ InCommit' /\ Top = nextWriteAddress
        /\ pc' # "copy"
        /\ UNCHANGED <<writeBuffer, received, clean>>
        /\ base' = b /\ CommitLen' = nextWriteAddress - b
    <3>1. b \in Nat
      BY Numbers, PageLemma, Zenon
    <3>2. base' = b /\ offset' = 0 /\ len' = nextWriteAddress - b
      BY <1>8 DEF FinalizeFlash
    <3>3. CommitLen' = nextWriteAddress - b
      BY <3>1, <3>2, Numbers DEF CommitLen
    <3>4. QED
      BY <1>8, <3>2, <3>3, Zenon DEF FinalizeFlash, InCommit, Top, buffers, history
  <2>2. b \in Nat /\ b % FLASH_ERASE_SIZE = 0 /\ b <= nextWriteAddress
        /\ nextWriteAddress < b + FLASH_ERASE_SIZE
    BY Numbers, PageLemma, Zenon
  <2>3. \A i \in b .. nextWriteAddress - 1 : i >= lo => writeBuffer[BufferIndex(i)] = received[i]
    BY <2>1 DEF BufferedFrom
  <2> HIDE DEF b
  <2> DEFINE n == nextWriteAddress - b
  <2>4. n \in 0 .. FLASH_ERASE_SIZE /\ b + n = nextWriteAddress /\ CommitLen' = n
    BY <2>1, <2>2, Numbers, Sizes
  <2> HIDE DEF n
  <2>5. \A i \in b .. b + n - 1 : i >= lo => writeBuffer[BufferIndex(i)] = received[i]
    <3>1. b + n - 1 = nextWriteAddress - 1
      BY <2>2, <2>4, Numbers, Sizes
    <3>2. QED
      BY <2>3, <3>1, Zenon
  <2>6. \A i \in 0 .. n - 1 : b + i >= lo => writeBuffer[i] = received[b + i]
    BY <2>2, <2>4, <2>5, BufferByAddress
  <2>7. QED
    BY <2>1, <2>4, <2>6 DEF BufferedFrom
<1>9. CASE CommitOk /\ cmd = "WRITE_FLASH"
  <2>1. /\ pc = "return" /\ InCommit /\ ~ InCommit' /\ pc' = "copy" /\ clean
        /\ UNCHANGED <<address, nextWriteAddress>> /\ Top' = address
    BY <1>9 DEF CommitOk, InCommit, Top, buffers, history
  <2>2. /\ address = base + FLASH_ERASE_SIZE /\ base % FLASH_ERASE_SIZE = 0
        /\ address <= nextWriteAddress
    BY <1>9, <2>1 DEF CallLocals
  <2>3. PageStart(Top)' = address
    <3>1. PageStart(address) = address
      BY <2>2, Numbers, PageStartOfStart
    <3>2. QED
      BY <2>1, <3>1 DEF PageStart, BufferIndex
  <2>4. \A i \in PageStart(Top)' .. Top' - 1 : FALSE
    BY <2>1, <2>3, Numbers
  <2>5. QED
    BY <2>1, <2>2, <2>4 DEF BufferedFrom
<1>10. CASE (CommitOk \/ CommitFailed) /\ cmd # "WRITE_FLASH"
  <2>1. /\ pc = "return" /\ InCommit /\ ~ InCommit' /\ pc' = "idle" /\ clean
        /\ UNCHANGED <<writeBuffer, received, nextWriteAddress>>
        /\ Top' = nextWriteAddress
    BY <1>10 DEF CommitOk, CommitFailed, InCommit, Top, buffers, history
  <2>2. /\ base = PageStart(nextWriteAddress) /\ base % FLASH_ERASE_SIZE = 0
        /\ CommitLen = nextWriteAddress - base
        /\ CommitLen \in 0 .. FLASH_ERASE_SIZE
    BY <1>10, <2>1, Numbers, Sizes DEF CallLocals
  <2>3. \A i \in 0 .. CommitLen - 1 : base + i >= lo => writeBuffer[i] = received[base + i]
    BY <2>1 DEF BufferedFrom
  <2>4. \A i \in base .. base + CommitLen - 1 : i >= lo => writeBuffer[BufferIndex(i)] = received[i]
    <3>1. base \in Nat /\ base % FLASH_ERASE_SIZE = 0 /\ CommitLen \in 0 .. FLASH_ERASE_SIZE
      BY <2>2, Numbers
    <3>2. QED
      BY <2>3, <3>1, BufferByAddress
  <2>5. PageStart(Top)' = base /\ base + CommitLen = nextWriteAddress
    BY <2>1, <2>2, Numbers DEF PageStart, BufferIndex
  <2>6. \A i \in PageStart(Top)' .. Top' - 1 : i >= lo => writeBuffer'[BufferIndex(i)] = received'[i]
    <3>1. PageStart(Top)' .. Top' - 1 = base .. base + CommitLen - 1
      <4>1. PageStart(Top)' = base /\ Top' = nextWriteAddress
        BY <2>1, <2>5
      <4>2. nextWriteAddress - 1 = base + CommitLen - 1
        BY <2>2, <2>5, Numbers, Sizes
      <4>3. QED
        BY <4>1, <4>2, Zenon
    <3>2. writeBuffer' = writeBuffer /\ received' = received
      BY <2>1
    <3>3. QED
      BY <2>4, <3>1, <3>2, Zenon
  <2>7. QED
    BY <2>1, <2>6, Zenon DEF BufferedFrom, BufferIndex
<1>11. CASE CommitFailed /\ cmd = "WRITE_FLASH"
  BY <1>11 DEF CommitFailed
<1>12. QED
  BY <1>1, <1>2, <1>3, <1>4, <1>5, <1>6, <1>7, <1>8, <1>9, <1>10, <1>11, Zenon DEF CommandStep

\* The pages that are committed: a step starts over, leaves them and what was
\* received of them, or adds the page that has just been committed.
LEMMA StepBound ==
  ASSUME TypeInvariant, CallLocals, NEW lo \in Nat, BufferedFrom(lo),
         CommandStep \/ CommitStep, clean'
  PROVE  \/ (Reset \/ StartUpload) /\ ~ InCommit' /\ Top' = 0 /\ Bound' = 0
         \/ /\ clean /\ Bound \in Nat /\ Bound' = Bound
            /\ \A i \in 0 .. Bound - 1 : received'[i] = received[i]
         \/ /\ CommitOk /\ cmd = "WRITE_FLASH" /\ clean
            /\ Bound = base /\ Bound' = base + FLASH_ERASE_SIZE
<1>0. PageStart(0) = 0
  BY Sizes, PageStartOfStart, ModSmall
<1>1. Bound \in Nat
  <2>1. Top \in Nat
    BY Numbers DEF Top
  <2>2. PageStart(Top) \in Nat
    BY <2>1, PageLemma, Zenon
  <2>3. QED
    BY <2>2, Numbers DEF Bound
<1>2. CASE UNCHANGED vars \/ CommitStep
  BY <1>1, <1>2 DEF vars, CommitStep, Bound, Top, InCommit, PageStart, BufferIndex
<1>3. CASE Reset
  BY <1>0, <1>3 DEF Reset, Bound, Top, InCommit, PageStart, BufferIndex
<1>4. ASSUME NEW a \in Addr, WriteRejected(a)
      PROVE  clean /\ Bound' = Bound /\ received' = received
  BY <1>4 DEF WriteRejected, Bound, Top, InCommit, PageStart, BufferIndex, buffers, history
<1>5. ASSUME NEW a \in Addr, NEW n \in 0 .. MaxData, NEW img \in Images,
             WriteAccepted(a, n, img)
      PROVE  \/ StartUpload /\ ~ InCommit' /\ Top' = 0 /\ Bound' = 0
             \/ /\ clean /\ Bound' = Bound
                /\ \A i \in 0 .. Bound - 1 : received'[i] = received[i]
  <2>1. /\ ~ InCommit /\ ~ InCommit' /\ Top = nextWriteAddress /\ Top' = a /\ a \in Nat
    BY <1>5, WriteGoesOn
  <2>2. CASE a = 0
    BY <1>0, <1>5, <2>1, <2>2 DEF Bound, PageStart, BufferIndex, StartUpload
  <2>3. CASE a # 0
    <3>1. clean /\ a = nextWriteAddress /\ \A i \in 0 .. a - 1 : received'[i] = received[i]
      BY <1>5, <2>3, WriteGoesOn
    <3>2. Bound = PageStart(a) /\ Bound' = PageStart(a)
      BY <2>1, <3>1 DEF Bound, PageStart, BufferIndex
    <3>3. PageStart(a) <= a
      BY <2>1, PageLemma, Zenon
    <3>4. QED
      BY <1>1, <2>1, <3>1, <3>2, <3>3
  <2>4. QED
    BY <2>2, <2>3
<1>6. CASE CopyByte
  <2>1. /\ ~ InCommit /\ Top = address /\ clean /\ received' = received
    BY <1>6 DEF CopyByte, InCommit, Top, history
  <2>2. CASE BufferIndex(address + 1) = 0
    <3>1. InCommit' /\ base' = PageStart(address)
      BY <1>6, <2>2, Numbers, PageEnd DEF CopyByte, InCommit
    <3>2. QED
      BY <1>1, <2>1, <3>1 DEF Bound
  <2>3. CASE BufferIndex(address + 1) # 0
    <3>1. ~ InCommit' /\ Top' = address + 1
      BY <1>6, <2>3 DEF CopyByte, InCommit, Top
    <3>2. PageStart(Top)' = PageStart(address)
      BY <2>3, <3>1, Numbers, PageNext DEF PageStart, BufferIndex
    <3>3. QED
      BY <1>1, <2>1, <3>1, <3>2 DEF Bound
  <2>4. QED
    BY <2>2, <2>3
<1>7. CASE CopyDone
  <2>1. /\ pc = "copy" /\ ~ InCommit /\ ~ InCommit' /\ Top = address /\ Top' = nextWriteAddress
        /\ clean /\ received' = received /\ address >= nextWriteAddress
    BY <1>7 DEF CopyDone, InCommit, Top, history
  <2>2. address = nextWriteAddress
    BY <2>1, Numbers DEF BufferedFrom
  <2>3. QED
    BY <1>1, <2>1, <2>2 DEF Bound, PageStart, BufferIndex
<1>8. CASE FinalizeFlash
  BY <1>1, <1>8 DEF FinalizeFlash, Bound, InCommit, Top, history
<1>9. CASE CommitOk /\ cmd = "WRITE_FLASH"
  <2>1. /\ InCommit /\ ~ InCommit' /\ clean /\ Top' = address
    BY <1>9 DEF CommitOk, InCommit, Top, buffers, history
  <2>2. /\ address = base + FLASH_ERASE_SIZE /\ base % FLASH_ERASE_SIZE = 0
    BY <1>9, <2>1 DEF CallLocals
  <2>3. PageStart(Top)' = base + FLASH_ERASE_SIZE
    <3>1. PageStart(address) = address
      BY <2>2, Numbers, PageStartOfStart
    <3>2. QED
      BY <2>1, <2>2, <3>1 DEF PageStart, BufferIndex
  <2>4. QED
    BY <1>9, <2>1, <2>3 DEF Bound
<1>10. CASE (CommitOk \/ CommitFailed) /\ cmd # "WRITE_FLASH"
  <2>1. /\ InCommit /\ ~ InCommit' /\ clean
        /\ UNCHANGED <<received, nextWriteAddress>> /\ Top' = nextWriteAddress
    BY <1>10 DEF CommitOk, CommitFailed, InCommit, Top, buffers, history
  <2>2. base = PageStart(nextWriteAddress)
    BY <1>10, <2>1 DEF CallLocals
  <2>3. QED
    BY <1>1, <2>1, <2>2 DEF Bound, PageStart, BufferIndex
<1>11. CASE CommitFailed /\ cmd = "WRITE_FLASH"
  BY <1>11 DEF CommitFailed
<1>12. QED
  BY <1>1, <1>2, <1>3, <1>4, <1>5, <1>6, <1>7, <1>8, <1>9, <1>10, <1>11 DEF CommandStep

\* What a commit is called for: the bytes the command at hand has to store.
End == IF cmd = "WRITE_FLASH" THEN PageStart(nextWriteAddress) ELSE nextWriteAddress

\* A commit does not go further than that.
LEMMA CommitEnd ==
  ASSUME TypeInvariant, CallLocals
  PROVE  /\ End \in Nat /\ End <= nextWriteAddress
         /\ InCommit => base + CommitLen <= End
<1>1. /\ PageStart(nextWriteAddress) \in Nat
      /\ PageStart(nextWriteAddress) % FLASH_ERASE_SIZE = 0
      /\ PageStart(nextWriteAddress) <= nextWriteAddress
      /\ nextWriteAddress < PageStart(nextWriteAddress) + FLASH_ERASE_SIZE
  BY Numbers, PageLemma, Zenon
<1>2. CASE InCommit /\ cmd = "WRITE_FLASH"
  <2>1. /\ base % FLASH_ERASE_SIZE = 0 /\ CommitLen = FLASH_ERASE_SIZE
        /\ base + FLASH_ERASE_SIZE <= nextWriteAddress
    BY <1>2 DEF CallLocals
  <2>2. base + FLASH_ERASE_SIZE \in Nat /\ (base + FLASH_ERASE_SIZE) % FLASH_ERASE_SIZE = 0
    <3>1. FLASH_ERASE_SIZE \in Nat /\ FLASH_ERASE_SIZE % FLASH_ERASE_SIZE = 0
      BY Sizes, ModOnce
    <3>2. (base + FLASH_ERASE_SIZE) % FLASH_ERASE_SIZE = 0
      BY <2>1, <3>1, Numbers, Sizes, ModAdd, Zenon
    <3>3. QED
      BY <3>1, <3>2, Numbers
  <2>3. ~ (PageStart(nextWriteAddress) < base + FLASH_ERASE_SIZE)
    <3>1. SUFFICES ASSUME PageStart(nextWriteAddress) < base + FLASH_ERASE_SIZE PROVE FALSE
      OBVIOUS
    <3>2. PageStart(nextWriteAddress) + FLASH_ERASE_SIZE <= base + FLASH_ERASE_SIZE
      BY <1>1, <2>2, <3>1, Sizes, ModGap, Zenon
    <3>3. QED
      BY <1>1, <2>1, <3>2, Numbers, Sizes
  <2>4. QED
    BY <1>1, <1>2, <2>1, <2>2, <2>3, Numbers DEF End
<1>3. CASE InCommit /\ cmd # "WRITE_FLASH"
  <2>1. base = PageStart(nextWriteAddress) /\ CommitLen = nextWriteAddress - base
    BY <1>3 DEF CallLocals
  <2>2. QED
    BY <1>1, <1>3, <2>1, Numbers DEF End
<1>4. CASE ~ InCommit
  BY <1>1, <1>4, Numbers DEF End
<1>5. QED
  BY <1>2, <1>3, <1>4
=============================================================================
