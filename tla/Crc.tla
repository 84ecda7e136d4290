---------------------------------- MODULE Crc ----------------------------------
(***************************************************************************)
(* The checksums of Crc.h and what BusCallback makes of them: a frame gets *)
(* its CRC, noise flips some of its bits, and the receiver accepts it or   *)
(* not.  A byte or a CRC register is the set of its bits that are 1, so    *)
(* xor is symmetric difference and a shift moves every bit.                *)
(***************************************************************************)
EXTENDS Integers, Sequences, FiniteSets

CONSTANTS
  Messages,    \* what is sent: sequences of bytes, the address included on RS485
  Flips(_, _)  \* on which bus, how many bits of a message noise may flip: a set

Bits == 0 .. 7

Buses == {"I2C", "RS485"}

ASSUME CrcAssumption ==
  \A m \in Messages :
    /\ m \in Seq(SUBSET Bits) /\ m # << >>
    /\ \A b \in Buses : Flips(b, m) \subseteq Nat

VARIABLES
  bus,         \* "I2C", with one CRC byte, or "RS485", with two
  message,     \* what is sent
  position,    \* how many bytes of its frame have arrived
  sum,         \* the CRC of the sender over the bytes of the message so far
  check,       \* and that of the receiver over what arrived of them
  crcReceived, \* the CRC bytes that have arrived
  flipped      \* how many bits noise has flipped so far

crcVars == <<bus, message, position, sum, check, crcReceived, flipped>>

Xor(a, b) == (a \ b) \cup (b \ a)
ShiftLeft(a, n, width) == { i + n : i \in { j \in a : j + n < width } }
ShiftRight(a, n) == { i - n : i \in { j \in a : j >= n } }

\* Variants with a bug: a digit of a polynomial is mistaken, 0x05 and 0x2001.
Polynomial8Sparse == {0, 2}
Polynomial16Sparse == {0, 13}

\* 0x07, and 0xA001 (reflected).
Polynomial8 == {0, 1, 2}
Polynomial16 == {0, 13, 15}

Round8(data) ==
  IF 7 \in data THEN Xor(ShiftLeft(data, 1, 8), Polynomial8) ELSE ShiftLeft(data, 1, 8)

Round16(crc) ==
  IF 0 \in crc THEN Xor(ShiftRight(crc, 1), Polynomial16) ELSE ShiftRight(crc, 1)

crc8_ccitt_update(crc, byte) ==
  LET after[n \in 0 .. 8] == IF n = 0 THEN Xor(crc, byte) ELSE Round8(after[n - 1])
  IN  after[8]

crc16_update(crc, byte) ==
  LET after[n \in 0 .. 8] == IF n = 0 THEN Xor(crc, byte) ELSE Round16(after[n - 1])
  IN  after[8]

\* The CRC of BusCallback, and its initial value.
update(crc, byte) ==
  IF bus = "I2C" THEN crc8_ccitt_update(crc, byte) ELSE crc16_update(crc, byte)
Initial == IF bus = "I2C" THEN Bits ELSE 0 .. 15

LowByte(crc) == crc \cap Bits
HighByte(crc) == ShiftRight(crc, 8)

\* Variant with a bug: an output XOR on I2C, the high byte first on RS485.
CrcBytesMistaken(crc) ==
  IF bus = "I2C" THEN <<Bits \ crc>> ELSE <<HighByte(crc), LowByte(crc)>>

\* What is sent behind the message: the low byte first on RS485.
CrcBytes(crc) == IF bus = "I2C" THEN <<crc>> ELSE <<LowByte(crc), HighByte(crc)>>

\* What BusCallback looks at: whether the CRC over the whole frame is zero on
\* I2C; on RS485, whether the CRC over the rest equals the last two bytes.
Accepts ==
  IF bus = "I2C" THEN update(check, crcReceived[1]) = {}
  ELSE check = crcReceived[1] \cup { i + 8 : i \in crcReceived[2] }

FrameLength == Len(message) + Len(CrcBytes(sum))
Arrived == position = FrameLength

CrcInit ==
  /\ bus \in Buses /\ message \in Messages
  /\ Flips(bus, message) # {}
  /\ position = 0
  /\ sum = Initial /\ check = Initial
  /\ crcReceived = << >>
  /\ flipped = 0

\* Flips that noise may add, no more than are looked at.
Noise == { s \in SUBSET Bits : \E n \in Flips(bus, message) : flipped + Cardinality(s) <= n }

ByteArrives ==
  /\ position < Len(message)
  /\ LET b == message[position + 1]
     IN  \E noise \in Noise :
           /\ sum' = update(sum, b)
           /\ check' = update(check, Xor(b, noise))
           /\ flipped' = flipped + Cardinality(noise)
  /\ position' = position + 1
  /\ UNCHANGED <<bus, message, crcReceived>>

CrcByteArrives ==
  /\ position \in Len(message) .. FrameLength - 1
  /\ LET b == CrcBytes(sum)[position - Len(message) + 1]
     IN  \E noise \in Noise :
           /\ crcReceived' = Append(crcReceived, Xor(b, noise))
           /\ flipped' = flipped + Cardinality(noise)
  /\ position' = position + 1
  /\ UNCHANGED <<bus, message, sum, check>>

CrcNext == ByteArrives \/ CrcByteArrives

CrcSpec == CrcInit /\ [][CrcNext]_crcVars

-----------------------------------------------------------------------------
\* PROTOCOL.md: the CRC protects against all 1-bit and 3-bit errors; and against
\* 2-bit errors in messages that are not too long.  No frame with such an
\* error, in its CRC bytes or anywhere else, is accepted by BusCallback.
RefusesDamaged == (Arrived /\ flipped \in Flips(bus, message) \ {0}) => ~ Accepts

\* Sender and receiver agree how a CRC is computed and where its bytes go: a
\* frame without an error is accepted.
AcceptsIntact == (Arrived /\ flipped = 0) => Accepts
=============================================================================
