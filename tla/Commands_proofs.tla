---------------------------- MODULE Commands_proofs ----------------------------
(***************************************************************************)
(* Proofs about Commands: every reply is one that PROTOCOL.md allows to    *)
(* its request, but for those of Excepted, there is none where it wants    *)
(* none, and no index leaves the buffer, for every packet length, content  *)
(* of flash and list of arguments.  And about the CRC, which Commands      *)
(* takes to be right or wrong: an intact frame is accepted and one with an *)
(* odd number of flipped bits is not, for messages of every length.  The   *)
(* two modules share no state; the theorems about Crc are about CrcSpec.   *)
(***************************************************************************)
EXTENDS Commands, Crc, SequenceTheorems, FiniteSetTheorems, TLAPS

-----------------------------------------------------------------------------
(***************************************************************************)
(* The inductive invariant.                                                *)
(***************************************************************************)
\* The types, the history included.
Types ==
  /\ CommandsTypeOK
  /\ request.cmd \in Byte
  /\ request.args \in Seq(Byte) /\ Len(request.args) + 3 <= MAX_PACKET_LENGTH
  /\ request.bytes \in Nat /\ request.crcOk \in BOOLEAN
  /\ expected \in 0 .. ADDR - 1 /\ erased \in Nat

\* The versions are those of the board info.
Loaded == versions = LoadVersions(flash)

\* The request has a command byte and is intact.
Intact == request.bytes = Len(request.args) + 1 + CrcLength /\ request.crcOk

\* The request is in the buffer.
InBuffer ==
  /\ data[0] = request.cmd
  /\ \A i \in 1 .. Len(request.args) : data[i] = request.args[i]

\* What a frame is before its CRC is looked at.
Framed ==
  pc = "frame" =>
    /\ len = request.bytes
    /\ \/ request.bytes < 1 + CrcLength
       \/ request.bytes = Len(request.args) + 1 + CrcLength /\ InBuffer

\* A command is executed on the request as it was sent.
Commanded == pc = "command" => Intact /\ len = Len(request.args) /\ InBuffer

\* The loop of readFlash has the arguments of the request, of which the buffer need
\* not hold anything any more, and has copied done bytes.
Reading ==
  pc = "read" =>
    /\ Intact /\ Len(request.args) = 3 /\ request.args[3] <= maxLen
    /\ \/ /\ request.cmd = READ_FLASH
          /\ address = (Offset(request) + FLASH_APP_OFFSET(board)) % ADDR
          /\ count = request.args[3]
       \/ /\ request.cmd = READ_BOARD_INFO
          /\ address = (Offset(request) + BOARD_INFO) % ADDR
          /\ count = BoardInfoCount(Offset(request), request.args[3])
    /\ \A i \in 0 .. done - 1 : data[dataout + i] = flash[(address + i) % ADDR]

\* The address that is expected next is that of the bootloader, which moves on when
\* it executes a WRITE_FLASH and not only when the reply has been sent.
Handled == pc \in {"result", "reply", "silent", "exited"}

Kept ==
  nextWriteAddress = IF Handled /\ ValidWrite(request) THEN Following(request) ELSE expected

\* The count of pages is that of the bootloader, which starts anew when it executes a
\* FINALIZE_FLASH.
Reported ==
  /\ request.cmd = FINALIZE_FLASH
  /\ \/ pc = "result" /\ result.status = COMMAND_OK
     \/ pc = "reply" /\ data[dataout - 2] = COMMAND_OK

Counted == eraseCount = IF Reported THEN 0 ELSE Saturated(erased)

\* The loop ends with START_APPLICATION.
Exiting == bootloaderExit => pc \in {"result", "exited"} /\ request.cmd = START_APPLICATION

Uploading == Kept /\ Counted /\ Exiting

\* What is known to be the result is as promised, before it gets a header.
Payload == [i \in 1 .. result.len |-> data[dataout + i - 1]]

Allowed == Promised(request) \cup Excepted(request)

Known ==
  pc = "result" =>
    IF bootloaderExit THEN Promised(request) = {}
    ELSE [status |-> result.status, payload |-> Payload] \in Allowed

IInv == Types /\ Loaded /\ Framed /\ Commanded /\ Reading /\ Uploading /\ Known /\ AnswersAsPromised

-----------------------------------------------------------------------------
(***************************************************************************)
(* The buffer and the numbers.                                             *)
(***************************************************************************)
\* A remainder is below the divisor and not above the number.
LEMMA ModRange ==
  ASSUME NEW n \in Nat \ {0}, NEW a \in Nat
  PROVE  a % n \in 0 .. n - 1 /\ a % n <= a
  BY SMT

\* Division with remainder.
LEMMA DivMod ==
  ASSUME NEW n \in Nat \ {0}, NEW a \in Nat
  PROVE  a = n * (a \div n) + (a % n) /\ a \div n \in Nat
  BY SMT

\* The remainder is the only number below n at a multiple's distance from a.
LEMMA ModUnique ==
  ASSUME NEW n \in Nat \ {0}, NEW a \in Nat
  PROVE  \A q \in Nat, r \in 0 .. n - 1 : a = n * q + r => a % n = r
  BY SMTT(30)

\* A number below the divisor is its own remainder.
LEMMA ModSmall ==
  ASSUME NEW n \in Nat \ {0}, NEW a \in 0 .. n - 1
  PROVE  a % n = a
  BY SMT

\* Adding a multiple of n changes no remainder.
LEMMA ModAdd ==
  ASSUME NEW n \in Nat \ {0}, NEW a \in Nat, NEW b \in Nat, b % n = 0
  PROVE  (b + a) % n = a % n
<1>1. a = n * (a \div n) + (a % n) /\ a \div n \in Nat
  BY DivMod
<1>2. a % n \in 0 .. n - 1
  BY ModRange
<1>3. b = n * (b \div n) /\ b \div n \in Nat
  BY DivMod
<1>4. b + a = n * ((a \div n) + (b \div n)) + (a % n)
  BY <1>1, <1>3, SMT
<1>5. (a \div n) + (b \div n) \in Nat
  BY <1>1, <1>3
<1>6. \A q \in Nat, r \in 0 .. n - 1 : b + a = n * q + r => (b + a) % n = r
  <2>1. b + a \in Nat
    OBVIOUS
  <2>2. QED
    BY <2>1, ModUnique, Zenon
<1>7. QED
  BY <1>2, <1>4, <1>5, <1>6, Zenon

\* A product grows with its factors.
LEMMA Products ==
  ASSUME NEW a \in Nat, NEW b \in Nat, NEW n \in Nat, a <= b
  PROVE  a * n <= b * n /\ a * n \in Nat /\ b * n \in Nat
<1>1. \A k \in Nat : (a + k) * n = a * n + k * n /\ k * n \in Nat /\ a * n \in Nat
  BY SMT
<1>2. b - a \in Nat /\ a + (b - a) = b
  OBVIOUS
<1>3. b * n = a * n + (b - a) * n /\ (b - a) * n \in Nat /\ a * n \in Nat
  BY <1>1, <1>2, Zenon
<1>4. QED
  <2> DEFINE p == a * n
  <2> DEFINE q == (b - a) * n
  <2> DEFINE r == b * n
  <2>1. r = p + q /\ q \in Nat /\ p \in Nat
    BY <1>3
  <2> HIDE DEF p, q, r
  <2>2. p <= r /\ r \in Nat
    BY <2>1
  <2>3. QED
    BY <2>1, <2>2 DEF p, r

\* Numbers of two bytes are addresses.
LEMMA Numbers ==
  /\ BYTE \in Nat \ {0} /\ BYTE > READ_BOARD_INFO
  /\ ADDR \in Nat \ {0}
  /\ \A a, b \in Byte : a * BYTE + b \in 0 .. ADDR - 1
  /\ \A a \in 0 .. ADDR - 1 : a \div BYTE \in Byte /\ a % BYTE \in Byte
<1>1. BYTE \in Nat \ {0} /\ BYTE > READ_BOARD_INFO
  BY CommandsAssumption DEF READ_BOARD_INFO
<1>2. \A n \in Nat \ {0} : n * n \in Nat \ {0}
  OBVIOUS
<1>3. ASSUME NEW a \in Byte, NEW b \in Byte PROVE a * BYTE + b \in 0 .. ADDR - 1
  <2>1. \A n \in Nat \ {0}, x, y \in Nat : x <= n - 1 /\ y <= n - 1 => x * n + y \in 0 .. n * n - 1
    <3>1. SUFFICES ASSUME NEW n \in Nat \ {0}, NEW x \in Nat, NEW y \in Nat, x <= n - 1, y <= n - 1
                   PROVE  x * n + y \in 0 .. n * n - 1
      OBVIOUS
    <3> DEFINE p == x * n
    <3> DEFINE q == n * n
    <3>2. p <= (n - 1) * n /\ p \in Nat
      <4>1. n - 1 \in Nat /\ n \in Nat
        OBVIOUS
      <4>2. QED
        BY <3>1, <4>1, Products, Zenon
    <3>3. (n - 1) * n = q - n /\ q \in Nat
      BY SMT
    <3> HIDE DEF p, q
    <3>4. p + y \in 0 .. q - 1
      BY <3>1, <3>2, <3>3
    <3>5. QED
      BY <3>4 DEF p, q
  <2>2. QED
    BY <1>1, <2>1 DEF Byte, ADDR
<1>4. ASSUME NEW a \in 0 .. ADDR - 1 PROVE a \div BYTE \in Byte /\ a % BYTE \in Byte
  <2>1. \A n \in Nat \ {0}, x \in Nat : x < n * n => x \div n \in 0 .. n - 1 /\ x % n \in 0 .. n - 1
    <3>1. SUFFICES ASSUME NEW n \in Nat \ {0}, NEW x \in Nat, x < n * n
                   PROVE  x \div n \in 0 .. n - 1 /\ x % n \in 0 .. n - 1
      OBVIOUS
    <3>2. x = n * (x \div n) + (x % n) /\ x \div n \in Nat /\ x % n \in 0 .. n - 1
      BY DivMod, ModRange
    <3>3. ASSUME x \div n >= n PROVE FALSE
      <4>1. n * n <= (x \div n) * n /\ n * n \in Nat
        BY <3>2, <3>3, Products
      <4>2. (x \div n) * n = n * (x \div n) /\ n * (x \div n) \in Nat
        BY <3>2, SMT
      <4>3. QED
        BY <3>1, <3>2, <4>1, <4>2
    <3>4. QED
      BY <3>2, <3>3
  <2>2. a \in Nat /\ a < BYTE * BYTE
    <3>1. BYTE * BYTE \in Nat
      BY <1>1, <1>2
    <3>2. QED
      BY <3>1 DEF ADDR
  <2>3. a \div BYTE \in 0 .. BYTE - 1 /\ a % BYTE \in 0 .. BYTE - 1
    BY <1>1, <2>1, <2>2, Zenon
  <2>4. QED
    BY <2>3 DEF Byte
<1>5. QED
  BY <1>1, <1>2, <1>3, <1>4 DEF ADDR

\* Where datain and dataout are.
LEMMA Layout ==
  ASSUME board \in Boards
  PROVE  /\ board \in {"interfaceboard", "gphopper"}
         /\ CrcLength \in {1, 2} /\ dataout = CrcLength + 1 /\ datain = 1
         /\ maxLen \in Nat /\ maxLen >= 5 /\ dataout + maxLen + CrcLength = MAX_PACKET_LENGTH
         /\ Overhead = dataout + CrcLength
         /\ MAX_PACKET_LENGTH \in Nat /\ MAX_PACKET_LENGTH >= 10 /\ MAX_PACKET_LENGTH < BYTE
         /\ 0 .. maxLen \subseteq Byte
         /\ HwType \in {1, 2}
<1>1. board \in {"interfaceboard", "gphopper"}
  BY CommandsAssumption
<1>2. /\ MAX_PACKET_LENGTH \in Nat /\ MAX_PACKET_LENGTH >= 10 /\ MAX_PACKET_LENGTH < BYTE
      /\ BYTE \in Nat
  BY CommandsAssumption DEF Byte
<1>3. CASE board = "interfaceboard"
  <2>1. CrcLength = 1 /\ dataout = 2 /\ Overhead = 3 /\ maxLen = MAX_PACKET_LENGTH - 3 /\ HwType = 1
    BY <1>2, <1>3 DEF CrcLength, dataout, Overhead, maxLen, Bus, HwType
  <2>2. QED
    BY <1>1, <1>2, <2>1 DEF datain, Byte
<1>4. CASE board = "gphopper"
  <2>1. CrcLength = 2 /\ dataout = 3 /\ Overhead = 5 /\ maxLen = MAX_PACKET_LENGTH - 5 /\ HwType = 2
    BY <1>2, <1>4 DEF CrcLength, dataout, Overhead, maxLen, Bus, HwType
  <2>2. QED
    BY <1>1, <1>2, <2>1 DEF datain, Byte
<1>5. QED
  BY <1>1, <1>3, <1>4

\* Bytes in the buffer.
Cell == Byte \cup {Stale}
Buffer == [0 .. MAX_PACKET_LENGTH - 1 -> Cell]

\* The constants of the protocol are bytes.
LEMMA SmallBytes == 0 .. 14 \subseteq Byte
BY Numbers DEF Byte, READ_BOARD_INFO

\* Reading on from a wrapped address is reading on from the address.
LEMMA ModShift ==
  ASSUME NEW n \in Nat \ {0}, NEW a \in Nat, NEW i \in Nat
  PROVE  ((a % n) + i) % n = (a + i) % n
<1>1. a = n * (a \div n) + (a % n) /\ a \div n \in Nat /\ a % n \in Nat
  BY DivMod, ModRange
<1> DEFINE b == n * (a \div n)
<1>2. b \in Nat /\ b % n = 0
  <2>1. b \in Nat
    BY <1>1, SMT
  <2>2. b = n * (a \div n) + 0 /\ 0 \in 0 .. n - 1
    BY <2>1
  <2>3. QED
    BY <1>1, <2>1, <2>2, ModUnique
<1> HIDE DEF b
<1>3. (a % n) + i \in Nat
  BY <1>1
<1>4. (b + ((a % n) + i)) % n = ((a % n) + i) % n
  BY <1>2, <1>3, ModAdd, Zenon
<1>5. b + ((a % n) + i) = a + i
  <2>1. a = b + (a % n)
    BY <1>1 DEF b
  <2>2. QED
    BY <1>1, <1>2, <2>1
<1>6. QED
  BY <1>4, <1>5

\* The types, in parts.
LEMMA TypeFacts ==
  ASSUME Types
  PROVE  /\ board \in Boards /\ flash \in [0 .. ADDR - 1 -> Byte] /\ flash \in Flashes
         /\ data \in Buffer
         /\ request.args \in Seq(Byte) /\ Len(request.args) \in Nat
         /\ Len(request.args) + 3 <= MAX_PACKET_LENGTH
         /\ \A i \in 1 .. Len(request.args) : request.args[i] \in Byte
         /\ Len(request.args) = 0 <=> request.args = << >>
<1>1. /\ board \in Boards /\ flash \in [0 .. ADDR - 1 -> Byte] /\ flash \in Flashes
      /\ data \in Buffer
  BY CommandsAssumption DEF Types, CommandsTypeOK, Buffer, Cell
<1>2. request.args \in Seq(Byte) /\ Len(request.args) + 3 <= MAX_PACKET_LENGTH
  BY DEF Types
<1>3. Len(request.args) \in Nat /\ \A i \in 1 .. Len(request.args) : request.args[i] \in Byte
  BY <1>2, LenProperties, ElementOfSeq
<1>4. Len(request.args) = 0 <=> request.args = << >>
  BY <1>2, EmptySeq
<1>5. QED
  BY <1>1, <1>2, <1>3, <1>4, Zenon

\* The bytes of the board info.
LEMMA BoardInfoBytes ==
  ASSUME NEW f \in [0 .. ADDR - 1 -> Byte]
  PROVE  \A i \in 0 .. 4 : BOARD_INFO + i \in 0 .. ADDR - 1 /\ BoardInfoByte(f, i) \in Byte
<1>1. \A i \in 0 .. 4 : BOARD_INFO + i \in 0 .. ADDR - 1
  <2>1. /\ BOARD_INFO \in Nat /\ BOARD_INFO_SIZE \in Nat /\ BOARD_INFO_SIZE >= 5
        /\ BOARD_INFO + BOARD_INFO_SIZE <= ADDR
    BY CommandsAssumption
  <2>2. ADDR \in Nat
    BY Numbers
  <2>3. QED
    BY <2>1, <2>2
<1>2. QED
  BY <1>1 DEF BoardInfoByte

\* The board info as a sequence.
LEMMA BoardInfoSeq ==
  ASSUME flash \in [0 .. ADDR - 1 -> Byte]
  PROVE  /\ BoardInfo \in Seq(Byte) /\ Len(BoardInfo) = BOARD_INFO_SIZE
         /\ BOARD_INFO_SIZE \in Nat /\ BOARD_INFO_SIZE >= 5
         /\ \A i \in 1 .. BOARD_INFO_SIZE : BoardInfo[i] = flash[BOARD_INFO + i - 1]
<1>1. /\ BOARD_INFO \in Nat /\ BOARD_INFO_SIZE \in Nat /\ BOARD_INFO_SIZE >= 5
      /\ BOARD_INFO + BOARD_INFO_SIZE <= ADDR
  BY CommandsAssumption
<1>2. ADDR \in Nat
  BY Numbers
<1>3. \A i \in 1 .. BOARD_INFO_SIZE : BOARD_INFO + i - 1 \in 0 .. ADDR - 1
  BY <1>1, <1>2
<1>4. BoardInfo \in [1 .. BOARD_INFO_SIZE -> Byte]
  BY <1>3 DEF BoardInfo
<1>5. \A i \in 1 .. BOARD_INFO_SIZE : BoardInfo[i] = flash[BOARD_INFO + i - 1]
  BY DEF BoardInfo
<1>6. \A n \in Nat : \A s \in [1 .. n -> Byte] : s \in Seq(Byte) /\ Len(s) = n
  OBVIOUS
<1>7. QED
  BY <1>1, <1>4, <1>5, <1>6, Zenon

\* The versions are bytes, and the component variations have four bits.
LEMMA VersionTypes ==
  ASSUME NEW f \in [0 .. ADDR - 1 -> Byte]
  PROVE  LoadVersions(f) \in [current : Byte, compatible : Byte, extra : Byte]
<1>1. BoardInfoByte(f, 2) \in Byte /\ BoardInfoByte(f, 3) \in Byte /\ BoardInfoByte(f, 4) \in Byte
  BY BoardInfoBytes
<1>2. \A n \in Nat : n % 16 \in 0 .. 15
  OBVIOUS
<1>3. 0 .. 15 \subseteq Byte /\ BYTE - 1 \in Byte /\ Byte \subseteq Nat
  BY CommandsAssumption, Numbers DEF Byte
<1>4. BoardInfoByte(f, 4) % 16 \in Byte /\ 0 \in Byte
  <2>1. PICK n \in Nat : n = BoardInfoByte(f, 4)
    BY <1>1, <1>3
  <2>2. n % 16 \in 0 .. 15 /\ 0 \in 0 .. 15
    BY <1>2
  <2>3. QED
    BY <1>3, <2>1, <2>2, Zenon
<1>5. QED
  BY <1>1, <1>3, <1>4 DEF LoadVersions

\* The fields of the board info are those that runBootloader has loaded.
LEMMA Fields ==
  ASSUME Types, Loaded
  PROVE  /\ Field(3, NoVersion) = versions.current /\ Field(4, NoVersion) = versions.compatible
         /\ Field(5, 0) % 16 = versions.extra
         /\ versions \in [current : Byte, compatible : Byte, extra : Byte]
<1>1. BOARD_INFO \in Nat /\ BOARD_INFO_SIZE \in Nat /\ BOARD_INFO_SIZE >= 5
  BY CommandsAssumption
<1> DEFINE B(i) == BoardInfoByte(flash, i)
<1>2. BoardInfo[1] = B(0) /\ BoardInfo[2] = B(1) /\ BoardInfo[3] = B(2) /\ BoardInfo[4] = B(3)
      /\ BoardInfo[5] = B(4)
  <2>1. \A i \in 1 .. 5 : i \in 1 .. BOARD_INFO_SIZE /\ BOARD_INFO + i - 1 = BOARD_INFO + (i - 1)
    BY <1>1
  <2>2. \A i \in 1 .. 5 : BoardInfo[i] = B(i - 1)
    BY <2>1 DEF BoardInfo, BoardInfoByte
  <2>3. QED
    BY <2>2
<1>3. SubSeq(BoardInfo, 1, 2) = <<BoardInfo[1], BoardInfo[2]>>
  <2>1. BoardInfo \in Seq(Byte) /\ 2 \in 1 .. Len(BoardInfo)
    BY TypeFacts, BoardInfoSeq
  <2>2. ASSUME NEW s \in Seq(Byte), 2 \in 1 .. Len(s) PROVE SubSeq(s, 1, 2) = <<s[1], s[2]>>
    <3>1. /\ SubSeq(s, 1, 2) \in Seq(Byte) /\ Len(SubSeq(s, 1, 2)) = 2
          /\ SubSeq(s, 1, 2)[1] = s[1] /\ SubSeq(s, 1, 2)[2] = s[2]
      BY <2>2
    <3>2. s[1] \in Byte /\ s[2] \in Byte
      BY <2>2
    <3>3. <<s[1], s[2]>> \in Seq(Byte) /\ Len(<<s[1], s[2]>>) = 2
      BY <3>2
    <3>4. \A i \in 1 .. 2 : SubSeq(s, 1, 2)[i] = <<s[1], s[2]>>[i]
      BY <3>1
    <3>5. QED
      BY <3>1, <3>3, <3>4, SeqEqual
  <2>3. QED
    BY <2>1, <2>2
<1>4. SubSeq(BoardInfo, 1, 2) = <<BOARD_INFO_SIGNATURE, BOARD_INFO_MAJOR_VERSION>>
        <=> B(0) = BOARD_INFO_SIGNATURE /\ B(1) = BOARD_INFO_MAJOR_VERSION
  BY <1>2, <1>3
<1>5. versions \in [current : Byte, compatible : Byte, extra : Byte]
  BY TypeFacts, VersionTypes DEF Loaded
<1>6. 0 % 16 = 0
  OBVIOUS
<1>7. versions = IF B(0) = BOARD_INFO_SIGNATURE /\ B(1) = BOARD_INFO_MAJOR_VERSION
                   THEN [current |-> B(2), compatible |-> B(3), extra |-> B(4) % 16]
                   ELSE [current |-> BYTE - 1, compatible |-> BYTE - 1, extra |-> 0]
  BY DEF Loaded, LoadVersions
<1> HIDE DEF B
<1>8. QED
  BY <1>2, <1>4, <1>5, <1>6, <1>7 DEF Field, NoVersion

\* The replies to commands without arguments fit.
LEMMA InformationTypes ==
  ASSUME Types, Loaded, NEW c \in InformationCommands
  PROVE  Information(c) \in Seq(Byte) /\ Len(Information(c)) <= maxLen
<1>1. board \in Boards /\ versions.compatible \in Byte /\ versions.current \in Byte
      /\ versions.extra \in Byte
  BY TypeFacts, Fields
<1>2. /\ maxLen \in Nat /\ maxLen >= 5 /\ HwType \in Byte /\ BL_VERSION \in Byte
      /\ NUM_CHILDREN \in Byte /\ maxLen >= MAX_PACKET_LENGTH - 5 /\ MAX_PACKET_LENGTH \in Nat
  BY <1>1, Layout, SmallBytes DEF BL_VERSION, NUM_CHILDREN
<1>3. ApplicationSize(board) \div BYTE \in Byte /\ ApplicationSize(board) % BYTE \in Byte
  BY <1>1, CommandsAssumption, Numbers
<1>4. /\ SerialNumber \in Seq(Byte) /\ Len(SerialNumber) <= maxLen
      /\ Stm32Serial \in Seq(Byte) /\ Len(Stm32Serial) <= maxLen
  <2>1. SerialNumber \in Seq(Byte) /\ Len(SerialNumber) <= MAX_PACKET_LENGTH - 5
    BY CommandsAssumption
  <2>2. Len(SerialNumber) \in Nat /\ DOMAIN SerialNumber = 1 .. Len(SerialNumber)
        /\ \A i \in 1 .. Len(SerialNumber) : SerialNumber[i] \in Byte
    BY <2>1, LenProperties, ElementOfSeq
  <2>3. \A i \in 1 .. Len(SerialNumber) : Len(SerialNumber) + 1 - i \in 1 .. Len(SerialNumber)
    BY <2>2
  <2>4. Stm32Serial \in [1 .. Len(SerialNumber) -> Byte]
    BY <2>2, <2>3 DEF Stm32Serial
  <2>5. Stm32Serial \in Seq(Byte) /\ Len(Stm32Serial) = Len(SerialNumber)
    BY <2>2, <2>4
  <2>6. Len(SerialNumber) <= maxLen
    BY <1>2, <2>1, <2>2
  <2>7. QED
    BY <2>1, <2>5, <2>6
<1>5. \A v \in Byte : <<v>> \in Seq(Byte) /\ Len(<<v>>) <= maxLen
  BY <1>2
<1>6. c \in {GET_HARDWARE_INFO, GET_HARDWARE_REVISION, GET_SERIAL_NUMBER, GET_NUM_CHILDREN,
            GET_EXTRA_INFO}
  BY DEF InformationCommands
<1> USE DEF GET_HARDWARE_INFO, GET_HARDWARE_REVISION, GET_SERIAL_NUMBER, GET_NUM_CHILDREN,
            GET_EXTRA_INFO
<1>7. CASE c = GET_HARDWARE_INFO
  <2>1. Information(c) = <<HwType, versions.compatible, BL_VERSION,
                           ApplicationSize(board) \div BYTE, ApplicationSize(board) % BYTE>>
    BY <1>7 DEF Information
  <2>2. QED
    BY <1>1, <1>2, <1>3, <2>1
<1>8. CASE c = GET_HARDWARE_REVISION
  BY <1>1, <1>5, <1>8 DEF Information
<1>9. CASE c = GET_SERIAL_NUMBER
  BY <1>4, <1>9 DEF Information
<1>10. CASE c = GET_NUM_CHILDREN
  BY <1>2, <1>5, <1>10 DEF Information
<1>11. CASE c = GET_EXTRA_INFO
  BY <1>1, <1>5, <1>11 DEF Information
<1>12. QED
  BY <1>6, <1>7, <1>8, <1>9, <1>10, <1>11

\* The commands a board has in processCommand and in PROTOCOL.md.
LEMMA SupportedOffered ==
  ASSUME board \in Boards
  PROVE  \A c \in Byte : c \in Supported <=> c \in Offered
<1>1. board = "interfaceboard" \/ board = "gphopper"
  BY CommandsAssumption
<1>2. Byte \subseteq Nat
  BY Numbers DEF Byte
<1>3. QED
  BY <1>1, <1>2 DEF GET_PROTOCOL_VERSION, SET_ADDRESS, POWER_UP_DISPLAY, GET_HARDWARE_INFO,
     GET_SERIAL_NUMBER, START_APPLICATION, WRITE_FLASH, FINALIZE_FLASH, READ_FLASH,
     GET_HARDWARE_REVISION, GET_NUM_CHILDREN, SET_CHILD_SELECT, GET_MAX_PACKET_LENGTH,
     GET_EXTRA_INFO, READ_BOARD_INFO, Supported, InformationCommands, Offered

\* What PROTOCOL.md allows to an intact request depends on its command.
LEMMA PromisedOf ==
  ASSUME Types, Intact
  PROVE  /\ Whole(request)
         /\ request.cmd \notin Supported => Error(COMMAND_NOT_SUPPORTED) \in Promised(request)
         /\ request.cmd \in Supported => Promised(request) = PromisedTo(request)
<1>1. request.bytes > CrcLength /\ request.crcOk
  <2>1. CrcLength \in Nat /\ Len(request.args) \in Nat
    BY Layout, TypeFacts
  <2>2. QED
    BY <2>1 DEF Intact
<1>2. Whole(request) /\ ~ (request.bytes <= CrcLength)
  <2>1. CrcLength \in Nat /\ request.bytes \in Nat
    BY Layout, TypeFacts DEF Types
  <2>2. QED
    BY <1>1, <2>1 DEF Whole
<1>3. request.cmd \in Supported <=> request.cmd \in Offered
  BY TypeFacts, SupportedOffered DEF Types
<1>4. QED
  BY <1>1, <1>2, <1>3 DEF Promised

\* The promise to each command.
LEMMA PromisedEach ==
  ASSUME NEW q
  PROVE  /\ q.cmd = GET_PROTOCOL_VERSION => PromisedTo(q) = {Ok(<<2, 2>>)}
         /\ q.cmd = GET_MAX_PACKET_LENGTH =>
              PromisedTo(q) = { Ok(size) : size \in BigEndian(MAX_PACKET_LENGTH) }
         /\ q.cmd = POWER_UP_DISPLAY => PromisedTo(q) = {Ok(<<1>>)}
         /\ q.cmd = SET_ADDRESS =>
              PromisedTo(q) = IF Len(q.args) # 2 THEN Wrong
                              ELSE IF q.args[2] \in {0, HardwareType} THEN {Ok(<< >>)} ELSE {}
         /\ q.cmd = START_APPLICATION => PromisedTo(q) = WithoutArguments(q, {})
         /\ q.cmd = GET_HARDWARE_INFO => PromisedTo(q) = WithoutArguments(q, HardwareInfos)
         /\ q.cmd = GET_HARDWARE_REVISION =>
              PromisedTo(q) = WithoutArguments(q, {Ok(<<Field(3, NoVersion)>>)})
         /\ q.cmd = GET_SERIAL_NUMBER => PromisedTo(q) = WithoutArguments(q, {Ok(Serial)})
         /\ q.cmd = GET_NUM_CHILDREN => PromisedTo(q) = WithoutArguments(q, {Ok(<<1>>)})
         /\ q.cmd = GET_EXTRA_INFO => PromisedTo(q) = WithoutArguments(q, {Ok(<<Field(5, 0) % 16>>)})
         /\ q.cmd = SET_CHILD_SELECT =>
              PromisedTo(q) = IF Len(q.args) = 2 /\ q.args[1] = 0 /\ q.args[2] \in {0, 1}
                              THEN {Ok(<< >>)} ELSE Wrong
         /\ q.cmd = WRITE_FLASH =>
              PromisedTo(q) = IF ValidWrite(q) THEN {Ok(<< >>)} \cup Failures ELSE Wrong
         /\ q.cmd = FINALIZE_FLASH => PromisedTo(q) = WithoutArguments(q, EraseCounts \cup Failures)
         /\ q.cmd = READ_FLASH =>
              PromisedTo(q) = IF Len(q.args) = 3 /\ q.args[3] <= maxLen
                              THEN FlashFrom(Offset(q), q.args[3]) ELSE Wrong
         /\ q.cmd = READ_BOARD_INFO =>
              PromisedTo(q) = IF Len(q.args) = 3 /\ q.args[3] <= maxLen
                              THEN BoardInfoFrom(Offset(q), q.args[3]) ELSE Wrong
<1> USE DEF GET_PROTOCOL_VERSION, SET_ADDRESS, POWER_UP_DISPLAY, GET_HARDWARE_INFO,
            GET_SERIAL_NUMBER, START_APPLICATION, WRITE_FLASH, FINALIZE_FLASH, READ_FLASH,
            GET_HARDWARE_REVISION, GET_NUM_CHILDREN, SET_CHILD_SELECT, GET_MAX_PACKET_LENGTH,
            GET_EXTRA_INFO, READ_BOARD_INFO
<1>1. q.cmd = GET_PROTOCOL_VERSION => PromisedTo(q) = {Ok(<<2, 2>>)}
  BY DEF PromisedTo
<1>2. q.cmd = GET_MAX_PACKET_LENGTH =>
        PromisedTo(q) = { Ok(size) : size \in BigEndian(MAX_PACKET_LENGTH) }
  BY DEF PromisedTo
<1>3. /\ q.cmd = POWER_UP_DISPLAY => PromisedTo(q) = {Ok(<<1>>)}
      /\ q.cmd = SET_ADDRESS =>
           PromisedTo(q) = IF Len(q.args) # 2 THEN Wrong
                           ELSE IF q.args[2] \in {0, HardwareType} THEN {Ok(<< >>)} ELSE {}
  BY DEF PromisedTo
<1>4. /\ q.cmd = START_APPLICATION => PromisedTo(q) = WithoutArguments(q, {})
      /\ q.cmd = GET_HARDWARE_INFO => PromisedTo(q) = WithoutArguments(q, HardwareInfos)
      /\ q.cmd = GET_HARDWARE_REVISION =>
           PromisedTo(q) = WithoutArguments(q, {Ok(<<Field(3, NoVersion)>>)})
  BY DEF PromisedTo
<1>5. /\ q.cmd = GET_SERIAL_NUMBER => PromisedTo(q) = WithoutArguments(q, {Ok(Serial)})
      /\ q.cmd = GET_NUM_CHILDREN => PromisedTo(q) = WithoutArguments(q, {Ok(<<1>>)})
      /\ q.cmd = GET_EXTRA_INFO => PromisedTo(q) = WithoutArguments(q, {Ok(<<Field(5, 0) % 16>>)})
  BY DEF PromisedTo
<1>6. /\ q.cmd = SET_CHILD_SELECT =>
           PromisedTo(q) = IF Len(q.args) = 2 /\ q.args[1] = 0 /\ q.args[2] \in {0, 1}
                           THEN {Ok(<< >>)} ELSE Wrong
      /\ q.cmd = WRITE_FLASH =>
           PromisedTo(q) = IF ValidWrite(q) THEN {Ok(<< >>)} \cup Failures ELSE Wrong
  BY DEF PromisedTo
<1>7. /\ q.cmd = FINALIZE_FLASH => PromisedTo(q) = WithoutArguments(q, EraseCounts \cup Failures)
      /\ q.cmd = READ_FLASH =>
           PromisedTo(q) = IF Len(q.args) = 3 /\ q.args[3] <= maxLen
                           THEN FlashFrom(Offset(q), q.args[3]) ELSE Wrong
      /\ q.cmd = READ_BOARD_INFO =>
           PromisedTo(q) = IF Len(q.args) = 3 /\ q.args[3] <= maxLen
                           THEN BoardInfoFrom(Offset(q), q.args[3]) ELSE Wrong
  BY DEF PromisedTo
<1>8. QED
  BY <1>1, <1>2, <1>3, <1>4, <1>5, <1>6, <1>7

\* The same after a command that has written flash.
LEMMA PromisedAfter ==
  ASSUME request' = request
  PROVE  /\ request.cmd = WRITE_FLASH =>
              PromisedTo(request)' = IF ValidWrite(request)' THEN {Ok(<< >>)} \cup Failures ELSE Wrong
         /\ request.cmd = FINALIZE_FLASH =>
              PromisedTo(request)' = WithoutArguments(request, EraseCounts' \cup Failures)
BY DEF PromisedTo, GET_PROTOCOL_VERSION, SET_ADDRESS, POWER_UP_DISPLAY, GET_HARDWARE_INFO,
   GET_SERIAL_NUMBER, START_APPLICATION, WRITE_FLASH, FINALIZE_FLASH, READ_FLASH,
   GET_HARDWARE_REVISION, GET_NUM_CHILDREN, SET_CHILD_SELECT, GET_MAX_PACKET_LENGTH,
   GET_EXTRA_INFO, READ_BOARD_INFO, Ok, Failures, Wrong, WithoutArguments, Error

-----------------------------------------------------------------------------
(***************************************************************************)
(* What leads to a result.                                                 *)
(***************************************************************************)
\* What depends on the board alone stays.
LEMMA SameLayout ==
  ASSUME board' = board
  PROVE  /\ dataout' = dataout /\ CrcLength' = CrcLength /\ maxLen' = maxLen /\ Overhead' = Overhead
         /\ Bus' = Bus
BY DEF dataout, CrcLength, maxLen, Overhead, Bus

\* What depends on the request besides.
LEMMA SameRequest ==
  ASSUME board' = board, request' = request
  PROVE  /\ Intact' <=> Intact /\ Offset(request)' = Offset(request)
         /\ Following(request)' = Following(request) /\ Excepted(request)' = Excepted(request)
         /\ expected' = expected => (ValidWrite(request)' <=> ValidWrite(request))
<1>1. CrcLength' = CrcLength /\ Bus' = Bus
  BY SameLayout
<1>2. Offset(request)' = Offset(request)
  BY DEF Offset
<1>3. Following(request)' = Following(request)
  BY <1>2 DEF Following
<1>4. Excepted(request)' = Excepted(request)
  BY <1>1 DEF Excepted, Error
<1>5. Intact' <=> Intact
  BY <1>1 DEF Intact
<1>6. ASSUME expected' = expected PROVE ValidWrite(request)' <=> ValidWrite(request)
  BY <1>1, <1>2, <1>6 DEF ValidWrite, Whole
<1>7. QED
  BY <1>2, <1>3, <1>4, <1>5, <1>6

\* What a promise rests on.
LEMMA SamePromise ==
  ASSUME UNCHANGED <<board, flash, expected, erased, request>>
  PROVE  Promised(request)' = Promised(request) /\ Allowed' = Allowed
<1>1. /\ CrcLength' = CrcLength /\ Bus' = Bus /\ maxLen' = maxLen
      /\ Offset(request)' = Offset(request) /\ Excepted(request)' = Excepted(request)
      /\ ValidWrite(request)' <=> ValidWrite(request)
  BY SameLayout, SameRequest
<1>2. HardwareType' = HardwareType /\ Offered' = Offered /\ Serial' = Serial /\ BoardInfo' = BoardInfo
  BY DEF HardwareType, Offered, Serial, BoardInfo
<1>3. /\ Field(3, NoVersion)' = Field(3, NoVersion) /\ Field(4, NoVersion)' = Field(4, NoVersion)
      /\ Field(5, 0)' = Field(5, 0)
  BY <1>2 DEF Field, NoVersion
<1>4. HardwareInfos' = HardwareInfos
  BY <1>2, <1>3 DEF HardwareInfos, Ok, BigEndian, NoVersion
<1>5. EraseCounts' = EraseCounts
  BY DEF EraseCounts, Ok
<1>6. FlashFrom(Offset(request), request.args[3])' = FlashFrom(Offset(request), request.args[3])
  BY <1>1 DEF FlashFrom, Ok
<1>7. BoardInfoFrom(Offset(request), request.args[3])' = BoardInfoFrom(Offset(request), request.args[3])
  BY <1>1, <1>2 DEF BoardInfoFrom, Ok
<1>8. PromisedTo(request)' = PromisedTo(request)
  BY <1>1, <1>2, <1>3, <1>4, <1>5, <1>6, <1>7 DEF PromisedTo, WithoutArguments, Wrong, Failures, Error,
     Ok, BigEndian
<1>9. Promised(request)' = Promised(request)
  BY <1>1, <1>2, <1>8 DEF Promised, Whole, Error
<1>10. QED
  BY <1>1, <1>9 DEF Allowed

\* The result of a command or of a check: st, and the bytes after dataout.
Results(st, bytes) ==
  /\ UNCHANGED <<board, versions, expected, len, request, address, count, done>>
  /\ pc' = "result"
  /\ data' \in Buffer
  /\ result' = [status |-> st, len |-> Len(bytes)]
  /\ \A i \in 1 .. Len(bytes) : data'[dataout + i - 1] = bytes[i]

\* The payload is what has been written behind dataout.
LEMMA ResultPayload ==
  ASSUME NEW st, NEW bytes \in Seq(Byte), Results(st, bytes)
  PROVE  [status |-> result'.status, payload |-> Payload'] = [status |-> st, payload |-> bytes]
<1>1. result'.status = st /\ result'.len = Len(bytes) /\ dataout' = dataout
  BY SameLayout DEF Results
<1>2. Payload' = [i \in 1 .. Len(bytes) |-> data'[dataout + i - 1]]
  BY <1>1 DEF Payload
<1>3. Payload' = [i \in 1 .. Len(bytes) |-> bytes[i]]
  BY <1>2 DEF Results
<1>4. bytes = [i \in 1 .. Len(bytes) |-> bytes[i]]
  BY LenProperties
<1>5. QED
  BY <1>1, <1>3, <1>4

\* Every result that is promised keeps the invariant, if what the upload needs is kept.
LEMMA ResultKeeps ==
  ASSUME IInv, NEW st \in Byte, NEW bytes \in Seq(Byte), Len(bytes) <= maxLen, Results(st, bytes),
         flash' \in Flashes, LoadVersions(flash') = LoadVersions(flash),
         nextWriteAddress' \in 0 .. ADDR - 1, eraseCount' \in 0 .. MaxErase,
         bootloaderExit' \in BOOLEAN, erased' \in Nat, Uploading',
         IF bootloaderExit' THEN Promised(request)' = {}
         ELSE [status |-> st, payload |-> bytes] \in Allowed'
  PROVE  IInv'
<1>1. Types /\ Loaded
  BY DEF IInv
<1>2. /\ UNCHANGED <<board, versions, expected, request, len, address, count, done>>
      /\ pc' = "result" /\ data' \in Buffer
      /\ result'.status = st /\ result'.len = Len(bytes)
  BY DEF Results
<1>3. dataout' = dataout /\ CrcLength' = CrcLength /\ maxLen' = maxLen
  BY <1>2, SameLayout
<1>4. Len(bytes) \in 0 .. maxLen
  <2>1. Len(bytes) \in Nat /\ maxLen \in Nat
    BY <1>1, Layout, TypeFacts, LenProperties
  <2>2. QED
    BY <2>1
<1>5. Types'
  <2>1. data' \in [0 .. MAX_PACKET_LENGTH - 1 -> Byte \cup {Stale}]
    BY <1>2 DEF Buffer, Cell
  <2>2. QED
    BY <1>1, <1>2, <1>3, <1>4, <2>1 DEF Types, CommandsTypeOK
<1>6. Loaded'
  BY <1>1, <1>2 DEF Loaded
<1>7. Known'
  BY ResultPayload DEF Known
<1>8. Framed' /\ Commanded' /\ Reading' /\ AnswersAsPromised'
  BY <1>2 DEF Framed, Commanded, Reading, AnswersAsPromised
<1>9. QED
  BY <1>5, <1>6, <1>7, <1>8 DEF IInv

\* A result that nothing of an upload follows from.
LEMMA FixedResultKeeps ==
  ASSUME IInv, NEW st \in Byte, NEW bytes \in Seq(Byte), Len(bytes) <= maxLen, Results(st, bytes),
         UNCHANGED fixed, pc \in {"frame", "command", "read"},
         ~ ValidWrite(request), request.cmd = FINALIZE_FLASH => st # COMMAND_OK,
         [status |-> st, payload |-> bytes] \in Allowed
  PROVE  IInv'
<1>1. /\ UNCHANGED <<board, flash, versions, expected, erased, request>> /\ pc' = "result"
      /\ UNCHANGED <<nextWriteAddress, eraseCount, bootloaderExit>>
      /\ result'.status = st
  BY DEF Results, fixed, writing
<1>2. /\ flash \in Flashes /\ nextWriteAddress \in 0 .. ADDR - 1 /\ eraseCount \in 0 .. MaxErase
      /\ bootloaderExit \in BOOLEAN /\ erased \in Nat
      /\ Kept /\ Counted /\ Exiting
  BY DEF IInv, Types, CommandsTypeOK, Uploading
<1>3. ~ bootloaderExit
  BY <1>2 DEF Exiting
<1>4. Kept'
  <2>1. nextWriteAddress = expected
    BY <1>2 DEF Kept
  <2>2. ~ ValidWrite(request)'
    BY <1>1, SameRequest
  <2>3. QED
    BY <1>1, <2>1, <2>2 DEF Kept
<1>5. Counted'
  <2>1. ~ Reported /\ ~ Reported'
    BY <1>1 DEF Reported
  <2>2. QED
    BY <1>1, <1>2, <2>1 DEF Counted, Saturated
<1>6. Exiting'
  BY <1>1, <1>3 DEF Exiting
<1>7. Allowed' = Allowed
  BY <1>1, SamePromise
<1>8. QED
  BY <1>1, <1>2, <1>3, <1>4, <1>5, <1>6, <1>7, ResultKeeps DEF Uploading

\* Statuses are bytes.
LEMMA StatusBytes ==
  /\ COMMAND_OK \in Byte /\ COMMAND_FAILED \in Byte /\ COMMAND_NOT_SUPPORTED \in Byte
  /\ INVALID_TRANSFER \in Byte /\ INVALID_CRC \in Byte /\ INVALID_ARGUMENTS \in Byte
BY SmallBytes DEF COMMAND_OK, COMMAND_FAILED, COMMAND_NOT_SUPPORTED, INVALID_TRANSFER, INVALID_CRC,
   INVALID_ARGUMENTS

\* A failure that is promised keeps the invariant.
LEMMA FailKeeps ==
  ASSUME IInv, NEW st \in {COMMAND_NOT_SUPPORTED, INVALID_TRANSFER, INVALID_CRC, INVALID_ARGUMENTS},
         Fails(st), UNCHANGED <<fixed, len, request, address, count, done>>,
         pc \in {"frame", "command", "read"}, ~ ValidWrite(request), Error(st) \in Allowed
  PROVE  IInv'
<1>1. Results(st, << >>)
  <2>1. data' \in Buffer /\ result' = [status |-> st, len |-> 0] /\ pc' = "result"
    BY TypeFacts DEF IInv, Fails, Result
  <2>2. Len(<< >>) = 0 /\ \A i \in 1 .. 0 : FALSE
    OBVIOUS
  <2>3. QED
    BY <2>1, <2>2 DEF Results, fixed
<1>2. << >> \in Seq(Byte) /\ Len(<< >>) <= maxLen
  BY Layout, TypeFacts DEF IInv
<1>3. [status |-> st, payload |-> << >>] \in Allowed
  BY DEF Error
<1>4. st \in Byte /\ st # COMMAND_OK
  BY StatusBytes DEF COMMAND_OK, COMMAND_NOT_SUPPORTED, INVALID_TRANSFER, INVALID_CRC, INVALID_ARGUMENTS
<1>5. QED
  BY <1>1, <1>2, <1>3, <1>4, FixedResultKeeps

\* An answer is in the buffer.
LEMMA AnswerResults ==
  ASSUME Types, NEW bytes \in Seq(Byte), Len(bytes) <= maxLen, Answer(bytes),
         UNCHANGED <<board, versions, expected, len, request, address, count, done>>
  PROVE  Results(COMMAND_OK, bytes)
<1>1. Len(bytes) \in Nat /\ \A i \in 1 .. Len(bytes) : bytes[i] \in Byte
  BY LenProperties, ElementOfSeq
<1>2. dataout \in Nat /\ maxLen \in Nat /\ CrcLength \in Nat /\ MAX_PACKET_LENGTH \in Nat
      /\ dataout + maxLen + CrcLength = MAX_PACKET_LENGTH
  BY Layout, TypeFacts
<1>3. data' = [i \in 0 .. MAX_PACKET_LENGTH - 1 |->
                 IF i - dataout \in 0 .. Len(bytes) - 1 THEN bytes[i - dataout + 1] ELSE data[i]]
  BY TypeFacts DEF Answer, Buffer
<1>4. data' \in Buffer
  <2>1. ASSUME NEW i \in 0 .. MAX_PACKET_LENGTH - 1
        PROVE  (IF i - dataout \in 0 .. Len(bytes) - 1 THEN bytes[i - dataout + 1] ELSE data[i]) \in Cell
    <3>1. CASE i - dataout \in 0 .. Len(bytes) - 1
      <4>1. i - dataout + 1 \in 1 .. Len(bytes)
        BY <1>1, <1>2, <3>1
      <4>2. QED
        BY <1>1, <3>1, <4>1 DEF Cell
    <3>2. CASE i - dataout \notin 0 .. Len(bytes) - 1
      BY <3>2, TypeFacts DEF Buffer
    <3>3. QED
      BY <3>1, <3>2
  <2>2. QED
    BY <1>3, <2>1 DEF Buffer
<1>5. ASSUME NEW i \in 1 .. Len(bytes) PROVE data'[dataout + i - 1] = bytes[i]
  <2>1. dataout + i - 1 \in 0 .. MAX_PACKET_LENGTH - 1
    BY <1>1, <1>2
  <2>2. (dataout + i - 1) - dataout \in 0 .. Len(bytes) - 1 /\ (dataout + i - 1) - dataout + 1 = i
    BY <1>1, <1>2
  <2>3. QED
    BY <1>3, <2>1, <2>2
<1>6. pc' = "result" /\ result' = [status |-> COMMAND_OK, len |-> Len(bytes)]
  BY DEF Answer, Result
<1>7. QED
  BY <1>4, <1>5, <1>6 DEF Results

\* An answer that is promised keeps the invariant.
LEMMA AnswerKeeps ==
  ASSUME IInv, NEW bytes \in Seq(Byte), Len(bytes) <= maxLen, Answer(bytes),
         UNCHANGED <<fixed, len, request, address, count, done>>, pc = "command",
         request.cmd \notin {WRITE_FLASH, FINALIZE_FLASH},
         Ok(bytes) \in Promised(request)
  PROVE  IInv'
<1>1. Results(COMMAND_OK, bytes)
  BY AnswerResults DEF IInv, fixed
<1>2. [status |-> COMMAND_OK, payload |-> bytes] \in Allowed
  BY DEF Ok, Allowed
<1>3. ~ ValidWrite(request) /\ request.cmd # FINALIZE_FLASH
  BY DEF ValidWrite
<1>4. QED
  BY <1>1, <1>2, <1>3, StatusBytes, FixedResultKeeps

-----------------------------------------------------------------------------
(***************************************************************************)
(* The beginning and the end of a request.                                 *)
(***************************************************************************)
\* The first two arguments are an address, and there is one behind the bytes.
LEMMA Addresses ==
  ASSUME Types, Len(request.args) >= 2
  PROVE  Offset(request) \in 0 .. ADDR - 1 /\ Following(request) \in 0 .. ADDR - 1
<1>1. request.args[1] \in Byte /\ request.args[2] \in Byte /\ Len(request.args) \in Nat
  BY TypeFacts
<1>2. Offset(request) \in 0 .. ADDR - 1 /\ ADDR \in Nat \ {0}
  BY <1>1, Numbers DEF Offset
<1>3. Offset(request) + Len(request.args) - 2 \in Nat
  BY <1>1, <1>2
<1>4. QED
  BY <1>2, <1>3, ModRange DEF Following

\* The counter stays where it saturates.
LEMMA SaturatedRange ==
  /\ \A n \in Nat : Saturated(n) \in 0 .. MaxErase
  /\ Saturated(0) = 0
  /\ \A n, k \in Nat : Saturated(Saturated(n) + k) = Saturated(n + k)
  /\ MaxErase \in Nat /\ 0 .. MaxErase \subseteq Byte
<1>1. MaxErase \in Nat /\ 0 .. MaxErase \subseteq Byte
  BY CommandsAssumption, Numbers DEF Byte
<1>2. QED
  BY <1>1 DEF Saturated

\* Between two requests there is nothing of the earlier one.
LEMMA ServedKeeps ==
  ASSUME Served, board' \in Boards, flash' \in Flashes, Loaded',
         nextWriteAddress' = expected', expected' \in 0 .. ADDR - 1,
         erased' \in Nat, eraseCount' = Saturated(erased'), bootloaderExit' = FALSE
  PROVE  IInv'
<1>1. /\ data' = AllStale /\ len' = 0 /\ pc' = "idle" /\ address' = 0 /\ count' = 0 /\ done' = 0
      /\ result' = NoResult /\ request' = NoRequest
  BY DEF Served
<1>2. maxLen' \in Nat
  <2>1. MAX_PACKET_LENGTH >= 10 /\ MAX_PACKET_LENGTH \in Nat
    BY CommandsAssumption, Numbers DEF Byte
  <2>2. CASE board' = "interfaceboard"
    <3>1. maxLen' = MAX_PACKET_LENGTH - 3
      BY <2>1, <2>2 DEF maxLen, Overhead, dataout, CrcLength, Bus
    <3>2. QED
      BY <2>1, <3>1
  <2>3. CASE board' # "interfaceboard"
    <3>1. maxLen' = MAX_PACKET_LENGTH - 5
      BY <2>1, <2>3 DEF maxLen, Overhead, dataout, CrcLength, Bus
    <3>2. QED
      BY <2>1, <3>1
  <2>4. QED
    BY <2>2, <2>3
<1>3. 0 \in Byte /\ 0 \in 0 .. ADDR - 1 /\ 0 \in 0 .. maxLen' /\ 0 \in 0 .. MAX_PACKET_LENGTH /\ 0 \in 0 .. 0
      /\ MAX_PACKET_LENGTH >= 10 /\ MAX_PACKET_LENGTH \in Nat
  <2>1. MAX_PACKET_LENGTH >= 10 /\ MAX_PACKET_LENGTH \in Nat
    BY CommandsAssumption, Numbers DEF Byte
  <2>2. QED
    BY <1>2, <2>1, Numbers, SmallBytes
<1>4. AllStale \in [0 .. MAX_PACKET_LENGTH - 1 -> Byte \cup {Stale}]
  BY DEF AllStale
<1>5. << >> \in Seq(Byte) /\ Len(<< >>) = 0
  OBVIOUS
<1>6. eraseCount' \in 0 .. MaxErase
  BY SaturatedRange
<1>7. Types'
  <2>1. result'.status \in Byte /\ result'.len \in 0 .. maxLen'
    BY <1>1, <1>3 DEF NoResult, COMMAND_OK
  <2>2. CommandsTypeOK'
    BY <1>1, <1>3, <1>4, <1>6, <2>1 DEF CommandsTypeOK
  <2>3. /\ request'.cmd = 0 /\ request'.args = << >> /\ request'.bytes = 0 /\ request'.crcOk = FALSE
    BY <1>1 DEF NoRequest, GET_PROTOCOL_VERSION
  <2>4. /\ request'.cmd \in Byte /\ request'.bytes \in Nat /\ request'.crcOk \in BOOLEAN
        /\ request'.args \in Seq(Byte) /\ Len(request'.args) + 3 <= MAX_PACKET_LENGTH
    <3>1. request'.args \in Seq(Byte) /\ Len(request'.args) = 0
      BY <1>5, <2>3, Zenon
    <3>2. request'.crcOk \in BOOLEAN
      BY <2>3
    <3>3. request'.cmd \in Byte /\ request'.bytes \in Nat
      BY <1>3, <2>3
    <3>4. QED
      BY <1>3, <3>1, <3>2, <3>3
  <2>5. QED
    BY <2>2, <2>4 DEF Types
<1>8. Uploading'
  BY <1>1 DEF Uploading, Kept, Counted, Exiting, Handled, Reported, Saturated
<1>9. Framed' /\ Commanded' /\ Reading' /\ Known' /\ AnswersAsPromised'
  BY <1>1 DEF Framed, Commanded, Reading, Known, AnswersAsPromised
<1>10. QED
  BY <1>7, <1>8, <1>9 DEF IInv

\* No request yet.
LEMMA InitIInv == Init => IInv
<1> SUFFICES ASSUME Init PROVE IInv
  OBVIOUS
<1>1. board \in Boards /\ flash \in [0 .. ADDR - 1 -> Byte] /\ flash \in Flashes
  BY CommandsAssumption DEF Init
<1>2. 0 \in Byte /\ 0 \in 0 .. ADDR - 1 /\ 0 \in 0 .. maxLen /\ 0 \in 0 .. MAX_PACKET_LENGTH
      /\ MAX_PACKET_LENGTH >= 10 /\ MAX_PACKET_LENGTH \in Nat
  BY <1>1, Numbers, Layout, SmallBytes
<1>3. data \in [0 .. MAX_PACKET_LENGTH - 1 -> Byte \cup {Stale}]
  BY DEF Init, AllStale
<1>4. << >> \in Seq(Byte) /\ Len(<< >>) = 0
  OBVIOUS
<1>5. 0 \in 0 .. MaxErase /\ 0 = Saturated(0)
  BY SaturatedRange
<1>6. Types
  BY <1>1, <1>2, <1>3, <1>4, <1>5 DEF Init, Types, CommandsTypeOK, NoRequest, NoResult, COMMAND_OK,
     GET_PROTOCOL_VERSION
<1>7. Loaded
  BY DEF Init, Loaded
<1>8. Uploading
  BY <1>5 DEF Init, Uploading, Kept, Counted, Exiting, Handled, Reported
<1>9. Framed /\ Commanded /\ Reading /\ Known /\ AnswersAsPromised
  BY DEF Init, Framed, Commanded, Reading, Known, AnswersAsPromised
<1>10. QED
  BY <1>6, <1>7, <1>8, <1>9 DEF IInv

\* With the reply, the history catches up with the bootloader.
LEMMA ForgetKeeps ==
  ASSUME IInv, Forget
  PROVE  IInv'
<1>1. /\ pc \in {"reply", "silent"} /\ Served
      /\ expected' = IF ValidWrite(request) THEN Following(request) ELSE expected
      /\ UNCHANGED <<board, flash, versions, nextWriteAddress, eraseCount, bootloaderExit>>
  BY DEF Forget
<1>2. Types /\ Loaded /\ Kept /\ Counted /\ Exiting /\ board \in Boards /\ flash \in Flashes
  BY TypeFacts DEF IInv, Uploading
<1>3. erased' = IF Reported THEN 0 ELSE erased
  BY <1>1 DEF Forget, Reported
<1>4. nextWriteAddress' = expected'
  BY <1>1, <1>2 DEF Kept, Handled
<1>5. eraseCount' = Saturated(erased')
  BY <1>1, <1>2, <1>3, SaturatedRange DEF Counted
<1>6. erased' \in Nat
  BY <1>2, <1>3 DEF Types
<1>7. expected' \in 0 .. ADDR - 1
  BY <1>1, <1>2, <1>4 DEF Types, CommandsTypeOK
<1>8. bootloaderExit' = FALSE
  BY <1>1, <1>2 DEF Exiting, Types, CommandsTypeOK
<1>9. Loaded'
  BY <1>1, <1>2 DEF Loaded
<1>10. QED
  BY <1>1, <1>2, <1>4, <1>5, <1>6, <1>7, <1>8, <1>9, ServedKeeps

\* After a reset, both start again.
LEMMA RestartKeeps ==
  ASSUME IInv, Restart
  PROVE  IInv'
<1>1. /\ Served /\ UNCHANGED <<board, flash>> /\ versions' = LoadVersions(flash)
      /\ nextWriteAddress' = 0 /\ expected' = 0 /\ eraseCount' = 0 /\ erased' = 0
      /\ bootloaderExit' = FALSE
  BY DEF Restart
<1>2. board \in Boards /\ flash \in Flashes
  BY TypeFacts DEF IInv
<1>3. Loaded'
  BY <1>1 DEF Loaded
<1>4. 0 \in 0 .. ADDR - 1 /\ 0 \in Nat
  BY Numbers
<1>5. QED
  BY <1>1, <1>2, <1>3, <1>4, SaturatedRange, ServedKeeps

\* A step that only moves on within a request, before its result.
LEMMA MovesOn ==
  ASSUME IInv, UNCHANGED <<fixed, request>>, ~ Handled, ~ Handled' \/ ~ ValidWrite(request),
         pc' \notin {"result", "reply"}
  PROVE  Loaded' /\ Uploading'
<1>1. UNCHANGED <<board, flash, versions, nextWriteAddress, eraseCount, bootloaderExit, expected,
                  erased, request>>
  BY DEF fixed, writing
<1>2. Loaded /\ Kept /\ Counted /\ Exiting
  BY DEF IInv, Uploading
<1>3. ValidWrite(request)' <=> ValidWrite(request)
  BY <1>1, SameRequest
<1>4. Kept'
  BY <1>1, <1>2, <1>3 DEF Kept
<1>5. Counted'
  <2>1. ~ Reported /\ ~ Reported'
    BY DEF Reported, Handled
  <2>2. QED
    BY <1>1, <1>2, <2>1 DEF Counted, Saturated
<1>6. Exiting'
  BY <1>1, <1>2 DEF Exiting, Handled
<1>7. Loaded'
  BY <1>1, <1>2 DEF Loaded
<1>8. QED
  BY <1>4, <1>5, <1>6, <1>7 DEF Uploading

\* A frame that arrives is one with a command byte, or too short for one.
LEMMA ReceiveKeeps ==
  ASSUME IInv, pc = "idle", NEW c \in Byte, NEW args \in Seq(Byte), Len(args) + 3 <= MAX_PACKET_LENGTH,
         NEW n, NEW crcOk \in BOOLEAN, Receive(c, args, n, crcOk),
         n = Len(args) + 1 + CrcLength \/ (n \in 1 .. CrcLength /\ args = << >>)
  PROVE  IInv'
<1>1. Types /\ board \in Boards
  BY TypeFacts DEF IInv
<1>2. /\ Len(args) \in Nat /\ \A i \in 1 .. Len(args) : args[i] \in Byte
  BY LenProperties, ElementOfSeq
<1>3. /\ CrcLength \in {1, 2} /\ MAX_PACKET_LENGTH \in Nat /\ MAX_PACKET_LENGTH >= 10
  BY <1>1, Layout
<1>4. n \in Nat /\ n \in 0 .. MAX_PACKET_LENGTH /\ (n > CrcLength <=> n = Len(args) + 1 + CrcLength)
      /\ (~ (n > CrcLength) => n < 1 + CrcLength)
  <2>1. CASE n = Len(args) + 1 + CrcLength
    BY <1>2, <1>3, <2>1
  <2>2. CASE n \in 1 .. CrcLength /\ args = << >>
    <3>1. Len(args) = 0
      BY <2>2
    <3>2. QED
      BY <1>3, <2>2, <3>1
  <2>3. QED
    BY <2>1, <2>2
<1>5. /\ request' = [cmd |-> c, args |-> args, bytes |-> n, crcOk |-> crcOk]
      /\ data' = [i \in 0 .. MAX_PACKET_LENGTH - 1 |->
                    IF i = 0 /\ n > CrcLength THEN c
                    ELSE IF i \in 1 .. Len(args) THEN args[i] ELSE Stale]
      /\ len' = n /\ pc' = "frame"
      /\ UNCHANGED <<board, flash, versions, nextWriteAddress, eraseCount, bootloaderExit, expected,
                     erased, address, count, done, result>>
  BY <1>1, TypeFacts DEF Receive, fixed, writing, local, Buffer
<1>6. data' \in [0 .. MAX_PACKET_LENGTH - 1 -> Byte \cup {Stale}]
  BY <1>2, <1>5
<1>7. maxLen' = maxLen /\ CrcLength' = CrcLength
  BY <1>5, SameLayout
<1>8. Types'
  BY <1>1, <1>2, <1>4, <1>5, <1>6, <1>7 DEF Types, CommandsTypeOK
<1>9. Framed'
  <2>1. CASE n > CrcLength
    <3>1. data'[0] = c
      BY <1>3, <1>5, <2>1
    <3>2. \A i \in 1 .. Len(args) : i \in 0 .. MAX_PACKET_LENGTH - 1 /\ i # 0
      BY <1>2, <1>3
    <3>3. \A i \in 1 .. Len(args) : data'[i] = args[i]
      BY <1>5, <3>2
    <3>4. QED
      BY <1>4, <1>5, <1>7, <2>1, <3>1, <3>3 DEF Framed, InBuffer
  <2>2. CASE ~ (n > CrcLength)
    BY <1>4, <1>5, <1>7, <2>2 DEF Framed
  <2>3. QED
    BY <2>1, <2>2
<1>10. Loaded' /\ Uploading'
  <2>1. Loaded /\ Kept /\ Counted /\ Exiting
    BY DEF IInv, Uploading
  <2>2. ~ Reported /\ ~ Reported' /\ ~ Handled /\ ~ Handled'
    BY <1>5 DEF Reported, Handled
  <2>3. Kept' /\ Counted'
    BY <1>5, <2>1, <2>2 DEF Kept, Counted, Saturated
  <2>4. Exiting' /\ Loaded'
    BY <1>5, <2>1 DEF Exiting, Loaded
  <2>5. QED
    BY <2>3, <2>4 DEF Uploading
<1>11. Commanded' /\ Reading' /\ Known' /\ AnswersAsPromised'
  BY <1>5 DEF Commanded, Reading, Known, AnswersAsPromised
<1>12. QED
  BY <1>8, <1>9, <1>10, <1>11 DEF IInv

\* The frames that arrive are such.
LEMMA FrameArrivesKeeps ==
  ASSUME IInv, FrameArrives
  PROVE  IInv'
<1>1. pc = "idle"
  BY DEF FrameArrives
<1>2. << >> \in Seq(Byte) /\ Len(<< >>) = 0 /\ 0 \in Byte
  BY SmallBytes
<1>3. MAX_PACKET_LENGTH \in Nat /\ MAX_PACKET_LENGTH >= 10 /\ CrcLength \in {1, 2}
  BY Layout, TypeFacts DEF IInv
<1>4. CASE \E c \in Byte, args \in Arguments : Receive(c, args, Len(args) + 1 + CrcLength, TRUE)
  <2>1. PICK c \in Byte, args \in Arguments : Receive(c, args, Len(args) + 1 + CrcLength, TRUE)
    BY <1>4
  <2>2. args \in Seq(Byte) /\ Len(args) + 3 <= MAX_PACKET_LENGTH
    BY CommandsAssumption
  <2>3. QED
    BY <1>1, <2>1, <2>2, ReceiveKeeps
<1>5. CASE \E c \in Byte : Receive(c, << >>, 1 + CrcLength, FALSE)
  <2>1. PICK c \in Byte : Receive(c, << >>, 1 + CrcLength, FALSE)
    BY <1>5
  <2>2. 1 + CrcLength = Len(<< >>) + 1 + CrcLength /\ Len(<< >>) + 3 <= MAX_PACKET_LENGTH
    BY <1>2, <1>3
  <2>3. QED
    BY <1>1, <1>2, <2>1, <2>2, ReceiveKeeps
<1>6. CASE \E n \in 1 .. CrcLength : Receive(0, << >>, n, FALSE)
  <2>1. PICK n \in 1 .. CrcLength : Receive(0, << >>, n, FALSE)
    BY <1>6
  <2>2. Len(<< >>) + 3 <= MAX_PACKET_LENGTH
    BY <1>2, <1>3
  <2>3. QED
    BY <1>1, <1>2, <2>1, <2>2, ReceiveKeeps
<1>7. QED
  BY <1>4, <1>5, <1>6 DEF FrameArrives

-----------------------------------------------------------------------------
(***************************************************************************)
(* The check of a frame, and the commands that are answered at once.       *)
(***************************************************************************)
\* Going on without a reply, where none is wanted.
LEMMA SilentKeeps ==
  ASSUME IInv, pc \in {"frame", "command"}, pc' = "silent",
         UNCHANGED <<fixed, len, data, local, request>>,
         ~ ValidWrite(request), Promised(request) = {}
  PROVE  IInv'
<1>1. UNCHANGED <<board, flash, versions, nextWriteAddress, eraseCount, bootloaderExit, expected,
                  erased, len, data, address, count, done, result, request>>
  BY DEF fixed, writing, local
<1>2. Types'
  BY <1>1, SameLayout DEF IInv, Types, CommandsTypeOK
<1>3. Loaded' /\ Uploading'
  BY MovesOn DEF Handled
<1>4. Promised(request)' = {}
  BY <1>1, SamePromise
<1>5. Framed' /\ Commanded' /\ Reading' /\ Known' /\ AnswersAsPromised'
  BY <1>4 DEF Framed, Commanded, Reading, Known, AnswersAsPromised
<1>6. QED
  BY <1>2, <1>3, <1>5 DEF IInv

\* What the length and the CRC of a frame lead to.
LEMMA FrameKeeps ==
  ASSUME IInv, ShortFrame \/ WrongCrc \/ RightCrc
  PROVE  IInv'
<1>1. Types /\ board \in Boards /\ pc = "frame"
  BY TypeFacts DEF IInv, ShortFrame, WrongCrc, RightCrc
<1>2. /\ len = request.bytes /\ request.bytes \in Nat
      /\ CrcLength \in {1, 2} /\ Bus \in {"I2C", "RS485"}
      /\ Len(request.args) \in Nat /\ Len(request.args) + 3 <= MAX_PACKET_LENGTH
      /\ MAX_PACKET_LENGTH \in Nat
  BY <1>1, Layout, TypeFacts DEF IInv, Framed, Types, Bus
<1>3. CASE ShortFrame
  <2>1. Fails(INVALID_TRANSFER) /\ UNCHANGED <<fixed, len, request, address, count, done>>
        /\ len < 1 + CrcLength
    BY <1>3 DEF ShortFrame
  <2>2. request.bytes <= CrcLength /\ ~ Whole(request) /\ ~ ValidWrite(request)
    BY <1>2, <2>1 DEF Whole, ValidWrite
  <2>3. Error(INVALID_TRANSFER) \in Allowed
    <3>1. CASE Bus = "RS485"
      BY <2>2, <3>1 DEF Allowed, Excepted
    <3>2. CASE Bus # "RS485"
      BY <2>2, <3>2 DEF Allowed, Promised
    <3>3. QED
      BY <3>1, <3>2
  <2>4. QED
    BY <1>1, <2>1, <2>2, <2>3, FailKeeps
<1>4. CASE WrongCrc
  <2>1. len >= 1 + CrcLength /\ ~ request.crcOk /\ UNCHANGED <<fixed, request, address, count, done>>
        /\ IF Bus = "I2C" THEN Fails(INVALID_CRC) /\ UNCHANGED len
           ELSE pc' = "silent" /\ UNCHANGED <<data, len, result>>
    BY <1>4 DEF WrongCrc
  <2>2. ~ Whole(request) /\ ~ ValidWrite(request) /\ ~ (request.bytes <= CrcLength)
    BY <1>2, <2>1 DEF Whole, ValidWrite
  <2>3. CASE Bus = "I2C"
    <3>1. Error(INVALID_CRC) \in Allowed
      BY <2>1, <2>2, <2>3 DEF Allowed, Promised
    <3>2. QED
      BY <1>1, <2>1, <2>2, <2>3, <3>1, FailKeeps
  <2>4. CASE Bus = "RS485"
    <3>1. Promised(request) = {}
      BY <2>2, <2>4 DEF Promised
    <3>2. UNCHANGED <<fixed, len, data, local, request>> /\ pc' = "silent"
      BY <2>1, <2>4 DEF local
    <3>3. QED
      BY <1>1, <2>2, <3>1, <3>2, SilentKeeps
  <2>5. QED
    BY <1>2, <2>3, <2>4
<1>5. CASE RightCrc
  <2>1. /\ len >= 1 + CrcLength /\ request.crcOk /\ pc' = "command" /\ len' = len - 1 - CrcLength
        /\ UNCHANGED <<fixed, data, local, request>>
    BY <1>5 DEF RightCrc
  <2>2. UNCHANGED <<board, flash, versions, nextWriteAddress, eraseCount, bootloaderExit, expected,
                    erased, data, address, count, done, result, request>>
    BY <2>1 DEF fixed, writing, local
  <2>3. request.bytes = Len(request.args) + 1 + CrcLength /\ InBuffer
    BY <1>1, <1>2, <2>1 DEF IInv, Framed
  <2>4. len' = Len(request.args) /\ len' \in 0 .. MAX_PACKET_LENGTH
    BY <1>2, <2>1, <2>3
  <2>5. maxLen' = maxLen /\ CrcLength' = CrcLength
    BY <2>2, SameLayout
  <2>6. Types'
    BY <1>1, <2>1, <2>2, <2>4, <2>5 DEF Types, CommandsTypeOK
  <2>7. Commanded'
    BY <2>1, <2>2, <2>3, <2>4, <2>5 DEF Commanded, Intact, InBuffer
  <2>8. Loaded' /\ Uploading'
    BY <1>1, <2>1, MovesOn DEF Handled
  <2>9. Framed' /\ Reading' /\ Known' /\ AnswersAsPromised'
    BY <2>1 DEF Framed, Reading, Known, AnswersAsPromised
  <2>10. QED
    BY <2>6, <2>7, <2>8, <2>9 DEF IInv
<1>6. QED
  BY <1>3, <1>4, <1>5

\* The command that is executed is the one of the request.
LEMMA CommandFacts ==
  ASSUME IInv, NEW c, Executes(c)
  PROVE  /\ Types /\ Loaded /\ Uploading /\ board \in Boards
         /\ pc = "command" /\ Intact /\ request.cmd = c
         /\ len = Len(request.args) /\ Len(request.args) \in Nat
         /\ \A i \in 1 .. Len(request.args) : data[i] = request.args[i] /\ request.args[i] \in Byte
         /\ len = 0 <=> request.args = << >>
         /\ UNCHANGED <<board, versions, expected, len, request>>
<1>1. pc = "command" /\ data[0] = c /\ UNCHANGED <<board, versions, expected, len, request>>
  BY DEF Executes
<1>2. Types /\ Loaded /\ Uploading /\ Intact /\ len = Len(request.args) /\ InBuffer
  BY <1>1 DEF IInv, Commanded
<1>3. Len(request.args) = 0 <=> request.args = << >>
  BY <1>2, TypeFacts
<1>4. QED
  BY <1>1, <1>2, <1>3, TypeFacts DEF InBuffer

\* What PROTOCOL.md allows for a command that is executed.
LEMMA CommandPromise ==
  ASSUME IInv, NEW c \in Supported, Executes(c)
  PROVE  Promised(request) = PromisedTo(request)
BY CommandFacts, PromisedOf

\* A command that is refused.
LEMMA RefusalKeeps ==
  ASSUME IInv, NEW c, Command(c), c # WRITE_FLASH, Fails(INVALID_ARGUMENTS),
         UNCHANGED <<address, count, done>>, Error(INVALID_ARGUMENTS) \in Promised(request)
  PROVE  IInv'
<1>1. Executes(c) /\ UNCHANGED fixed
  BY DEF Command
<1>2. pc = "command" /\ request.cmd = c /\ UNCHANGED <<len, request>>
  BY <1>1, CommandFacts
<1>3. ~ ValidWrite(request) /\ Error(INVALID_ARGUMENTS) \in Allowed
  BY <1>2 DEF ValidWrite, Allowed
<1>4. QED
  BY <1>1, <1>2, <1>3, FailKeeps

\* A command that is answered.
LEMMA CommandKeeps ==
  ASSUME IInv, NEW c, Command(c), c \notin {WRITE_FLASH, FINALIZE_FLASH},
         NEW bytes \in Seq(Byte), Len(bytes) <= maxLen, Answer(bytes),
         UNCHANGED <<address, count, done>>, Ok(bytes) \in Promised(request)
  PROVE  IInv'
<1>1. Executes(c) /\ UNCHANGED fixed
  BY DEF Command
<1>2. pc = "command" /\ request.cmd = c /\ UNCHANGED <<len, request>>
  BY <1>1, CommandFacts
<1>3. QED
  BY <1>1, <1>2, AnswerKeeps

\* Short replies fit.
LEMMA ShortReplies ==
  ASSUME board \in Boards
  PROVE  /\ << >> \in Seq(Byte) /\ Len(<< >>) = 0 /\ Len(<< >>) <= maxLen
         /\ \A v \in Byte : <<v>> \in Seq(Byte) /\ Len(<<v>>) = 1 /\ Len(<<v>>) <= maxLen
         /\ \A v, w \in Byte : <<v, w>> \in Seq(Byte) /\ Len(<<v, w>>) <= maxLen
<1>1. maxLen \in Nat /\ maxLen >= 5
  BY Layout
<1>2. QED
  BY <1>1

\* The commands that read neither arguments nor flash.
LEMMA ConstantKeeps ==
  ASSUME IInv, GetProtocolVersion \/ GetMaxPacketLength \/ PowerUpDisplay \/ NotSupported
  PROVE  IInv'
<1>1. board \in Boards
  BY TypeFacts DEF IInv
<1>2. CASE GetProtocolVersion
  <2>1. Command(GET_PROTOCOL_VERSION) /\ Answer(PROTOCOL_VERSION) /\ UNCHANGED <<address, count, done>>
    BY <1>2 DEF GetProtocolVersion
  <2>2. Ok(PROTOCOL_VERSION) \in Promised(request)
    <3>1. Promised(request) = PromisedTo(request) /\ request.cmd = GET_PROTOCOL_VERSION
      BY <2>1, CommandFacts, CommandPromise DEF Command, Supported
    <3>2. QED
      BY <3>1, PromisedEach DEF PROTOCOL_VERSION
  <2>3. PROTOCOL_VERSION \in Seq(Byte) /\ Len(PROTOCOL_VERSION) <= maxLen
    BY <1>1, ShortReplies, SmallBytes DEF PROTOCOL_VERSION
  <2>4. GET_PROTOCOL_VERSION \notin {WRITE_FLASH, FINALIZE_FLASH}
    BY DEF GET_PROTOCOL_VERSION, WRITE_FLASH, FINALIZE_FLASH
  <2>5. QED
    BY <2>1, <2>2, <2>3, <2>4, CommandKeeps
<1>3. CASE GetMaxPacketLength
  <2>1. Command(GET_MAX_PACKET_LENGTH) /\ Answer(<<0, MAX_PACKET_LENGTH>>) /\ UNCHANGED <<address, count, done>>
    BY <1>3 DEF GetMaxPacketLength
  <2>2. 0 \in Byte /\ MAX_PACKET_LENGTH \in Byte /\ 0 * BYTE + MAX_PACKET_LENGTH = MAX_PACKET_LENGTH
    BY CommandsAssumption, Numbers, SmallBytes DEF Byte
  <2>3. <<0, MAX_PACKET_LENGTH>> \in BigEndian(MAX_PACKET_LENGTH)
    BY <2>2 DEF BigEndian
  <2>4. Ok(<<0, MAX_PACKET_LENGTH>>) \in Promised(request)
    <3>1. Promised(request) = PromisedTo(request) /\ request.cmd = GET_MAX_PACKET_LENGTH
      BY <2>1, CommandFacts, CommandPromise DEF Command, Supported
    <3>2. PromisedTo(request) = { Ok(size) : size \in BigEndian(MAX_PACKET_LENGTH) }
      BY <3>1, PromisedEach
    <3>3. QED
      BY <2>3, <3>1, <3>2
  <2>5. <<0, MAX_PACKET_LENGTH>> \in Seq(Byte) /\ Len(<<0, MAX_PACKET_LENGTH>>) <= maxLen
    BY <1>1, <2>2, ShortReplies
  <2>6. GET_MAX_PACKET_LENGTH \notin {WRITE_FLASH, FINALIZE_FLASH}
    BY DEF GET_MAX_PACKET_LENGTH, WRITE_FLASH, FINALIZE_FLASH
  <2>7. QED
    BY <2>1, <2>4, <2>5, <2>6, CommandKeeps
<1>4. CASE PowerUpDisplay
  <2>1. /\ board = "interfaceboard" /\ Command(POWER_UP_DISPLAY) /\ Answer(<<DISPLAY_CONTROLLER_TYPE>>)
        /\ UNCHANGED <<address, count, done>>
    BY <1>4 DEF PowerUpDisplay
  <2>2. Ok(<<DISPLAY_CONTROLLER_TYPE>>) \in Promised(request)
    <3>1. POWER_UP_DISPLAY \in Supported
      BY <2>1 DEF Supported
    <3>2. Promised(request) = PromisedTo(request) /\ request.cmd = POWER_UP_DISPLAY
      BY <2>1, <3>1, CommandFacts, CommandPromise DEF Command
    <3>3. QED
      BY <3>2, PromisedEach DEF DISPLAY_CONTROLLER_TYPE
  <2>3. <<DISPLAY_CONTROLLER_TYPE>> \in Seq(Byte) /\ Len(<<DISPLAY_CONTROLLER_TYPE>>) <= maxLen
    BY <1>1, ShortReplies, SmallBytes DEF DISPLAY_CONTROLLER_TYPE
  <2>4. POWER_UP_DISPLAY \notin {WRITE_FLASH, FINALIZE_FLASH}
    BY DEF POWER_UP_DISPLAY, WRITE_FLASH, FINALIZE_FLASH
  <2>5. QED
    BY <2>1, <2>2, <2>3, <2>4, CommandKeeps
<1>5. CASE NotSupported
  <2>1. PICK c \in Byte \ Supported : Command(c)
    BY <1>5 DEF NotSupported
  <2>2. Fails(COMMAND_NOT_SUPPORTED) /\ UNCHANGED <<address, count, done>> /\ Executes(c) /\ UNCHANGED fixed
    BY <1>5, <2>1 DEF NotSupported, Command
  <2>3. pc = "command" /\ request.cmd = c /\ Types /\ Intact /\ UNCHANGED <<len, request>>
    BY <2>2, CommandFacts
  <2>4. Error(COMMAND_NOT_SUPPORTED) \in Allowed
    BY <2>1, <2>3, PromisedOf DEF Allowed
  <2>5. ~ ValidWrite(request)
    BY <2>1, <2>3 DEF ValidWrite, Supported
  <2>6. QED
    BY <2>2, <2>3, <2>4, <2>5, FailKeeps
<1>6. QED
  BY <1>2, <1>3, <1>4, <1>5

\* SET_ADDRESS is answered by the addressed type of hardware only.
LEMMA SetAddressKeeps ==
  ASSUME IInv, SetAddress
  PROVE  IInv'
<1>1. Command(SET_ADDRESS) /\ Executes(SET_ADDRESS) /\ UNCHANGED <<address, count, done>> /\ UNCHANGED fixed
  BY DEF SetAddress, Command
<1>2. /\ board \in Boards /\ pc = "command" /\ request.cmd = SET_ADDRESS
      /\ len = Len(request.args) /\ Len(request.args) \in Nat
      /\ \A i \in 1 .. Len(request.args) : data[i] = request.args[i]
      /\ UNCHANGED <<len, request>>
  BY <1>1, CommandFacts
<1>3. Promised(request) = IF Len(request.args) # 2 THEN Wrong
                          ELSE IF request.args[2] \in {0, HardwareType} THEN {Ok(<< >>)} ELSE {}
  <2>1. Promised(request) = PromisedTo(request)
    BY <1>1, CommandPromise DEF Supported
  <2>2. QED
    BY <1>2, <2>1, PromisedEach
<1>4. len = 2 => data[datain + 1] = request.args[2]
  BY <1>2 DEF datain
<1>5. HardwareType = HwType
  BY DEF HardwareType, HwType
<1>6. SET_ADDRESS # WRITE_FLASH /\ SET_ADDRESS # FINALIZE_FLASH
  BY DEF SET_ADDRESS, WRITE_FLASH, FINALIZE_FLASH
<1>7. CASE len # 2 /\ Fails(INVALID_ARGUMENTS)
  <2>1. Error(INVALID_ARGUMENTS) \in Promised(request)
    BY <1>2, <1>3, <1>7 DEF Wrong
  <2>2. QED
    BY <1>1, <1>6, <1>7, <2>1, RefusalKeeps
<1>8. CASE len = 2 /\ data[datain + 1] \in {0, HwType} /\ Answer(<< >>)
  <2>1. Ok(<< >>) \in Promised(request)
    BY <1>2, <1>3, <1>4, <1>5, <1>8
  <2>2. << >> \in Seq(Byte) /\ Len(<< >>) <= maxLen
    BY <1>2, ShortReplies
  <2>3. QED
    BY <1>1, <1>6, <1>8, <2>1, <2>2, CommandKeeps
<1>9. CASE len = 2 /\ data[datain + 1] \notin {0, HwType} /\ pc' = "silent" /\ UNCHANGED <<data, result>>
  <2>1. Promised(request) = {}
    BY <1>2, <1>3, <1>4, <1>5, <1>9
  <2>2. ~ ValidWrite(request)
    BY <1>2, <1>6 DEF ValidWrite
  <2>3. QED
    BY <1>1, <1>2, <1>9, <2>1, <2>2, SilentKeeps DEF local
<1>10. QED
  BY <1>7, <1>8, <1>9 DEF SetAddress

\* SET_CHILD_SELECT takes the one child there is, and a state of its pin.
LEMMA SetChildSelectKeeps ==
  ASSUME IInv, SetChildSelect
  PROVE  IInv'
<1>1. board = "gphopper" /\ Command(SET_CHILD_SELECT) /\ Executes(SET_CHILD_SELECT)
      /\ UNCHANGED <<address, count, done>>
  BY DEF SetChildSelect, Command
<1>2. /\ board \in Boards /\ pc = "command" /\ request.cmd = SET_CHILD_SELECT
      /\ len = Len(request.args) /\ Len(request.args) \in Nat
      /\ \A i \in 1 .. Len(request.args) : data[i] = request.args[i] /\ request.args[i] \in Byte
  BY <1>1, CommandFacts
<1>3. Promised(request) = IF Len(request.args) = 2 /\ request.args[1] = 0 /\ request.args[2] \in {0, 1}
                            THEN {Ok(<< >>)} ELSE Wrong
  <2>1. SET_CHILD_SELECT \in Supported
    BY <1>1 DEF Supported
  <2>2. Promised(request) = PromisedTo(request)
    BY <1>1, <2>1, CommandPromise
  <2>3. QED
    BY <1>2, <2>2, PromisedEach
<1>4. len = 2 => /\ data[datain] = request.args[1] /\ data[datain + 1] = request.args[2]
                 /\ request.args[1] \in Nat /\ request.args[2] \in Nat
  <2>1. Byte \subseteq Nat
    BY Numbers DEF Byte
  <2>2. ASSUME len = 2
        PROVE  /\ data[1] = request.args[1] /\ data[2] = request.args[2]
               /\ request.args[1] \in Nat /\ request.args[2] \in Nat
    <3>1. 1 \in 1 .. Len(request.args) /\ 2 \in 1 .. Len(request.args)
      BY <1>2, <2>2
    <3>2. QED
      BY <1>2, <2>1, <3>1
  <2>3. datain = 1 /\ datain + 1 = 2
    BY DEF datain
  <2>4. QED
    BY <2>2, <2>3
<1>5. SET_CHILD_SELECT # WRITE_FLASH /\ SET_CHILD_SELECT # FINALIZE_FLASH
  BY DEF SET_CHILD_SELECT, WRITE_FLASH, FINALIZE_FLASH
<1>6. CASE len # 2 \/ data[datain] >= NUM_CHILDREN \/ data[datain + 1] > 1
  <2>1. Fails(INVALID_ARGUMENTS)
    BY <1>6 DEF SetChildSelect
  <2>2. ~ (Len(request.args) = 2 /\ request.args[1] = 0 /\ request.args[2] \in {0, 1})
    BY <1>2, <1>4, <1>6 DEF NUM_CHILDREN
  <2>3. Error(INVALID_ARGUMENTS) \in Promised(request)
    BY <1>3, <2>2 DEF Wrong
  <2>4. QED
    BY <1>1, <1>5, <2>1, <2>3, RefusalKeeps
<1>7. CASE ~ (len # 2 \/ data[datain] >= NUM_CHILDREN \/ data[datain + 1] > 1)
  <2>1. Answer(<< >>)
    BY <1>7 DEF SetChildSelect
  <2>2. Len(request.args) = 2 /\ request.args[1] = 0 /\ request.args[2] \in {0, 1}
    BY <1>2, <1>4, <1>7 DEF NUM_CHILDREN
  <2>3. Ok(<< >>) \in Promised(request)
    BY <1>3, <2>2
  <2>4. << >> \in Seq(Byte) /\ Len(<< >>) <= maxLen
    BY <1>2, ShortReplies
  <2>5. QED
    BY <1>1, <1>5, <2>1, <2>3, <2>4, CommandKeeps
<1>8. QED
  BY <1>6, <1>7

-----------------------------------------------------------------------------
(***************************************************************************)
(* Information, and the end of the loop.                                   *)
(***************************************************************************)
\* What is answered without arguments is what PROTOCOL.md asks for.
LEMMA InformationPromised ==
  ASSUME Types, Loaded, request.cmd \in InformationCommands, request.args = << >>
  PROVE  Ok(Information(request.cmd)) \in PromisedTo(request)
<1>1. \A replies : WithoutArguments(request, replies) = replies
  BY DEF WithoutArguments
<1>2. /\ Field(3, NoVersion) = versions.current /\ Field(4, NoVersion) = versions.compatible
      /\ Field(5, 0) % 16 = versions.extra
  BY Fields
<1>3. request.cmd \in {GET_HARDWARE_INFO, GET_HARDWARE_REVISION, GET_SERIAL_NUMBER, GET_NUM_CHILDREN,
                      GET_EXTRA_INFO}
  BY DEF InformationCommands
<1>4. CASE request.cmd = GET_HARDWARE_INFO
  <2> DEFINE high == ApplicationSize(board) \div BYTE
  <2> DEFINE low == ApplicationSize(board) % BYTE
  <2>1. Information(request.cmd) = <<HwType, versions.compatible, BL_VERSION, high, low>>
    BY <1>4 DEF Information, GET_HARDWARE_INFO, GET_HARDWARE_REVISION, GET_SERIAL_NUMBER,
       GET_NUM_CHILDREN, GET_EXTRA_INFO
  <2>2. <<high, low>> \in BigEndian(ApplicationSize(board))
    <3>1. ApplicationSize(board) \in 0 .. ADDR - 1
      BY TypeFacts, CommandsAssumption
    <3>2. high \in Byte /\ low \in Byte
      BY <3>1, Numbers
    <3>3. ApplicationSize(board) = BYTE * high + low /\ high \in Nat /\ low \in Nat
      <4>1. ASSUME NEW n \in Nat \ {0}, NEW k \in Nat
            PROVE  k = n * (k \div n) + (k % n) /\ k \div n \in Nat /\ k % n \in 0 .. n - 1
        BY DivMod, ModRange
      <4>2. ApplicationSize(board) \in Nat /\ BYTE \in Nat \ {0}
        <5>1. ADDR \in Nat \ {0} /\ BYTE \in Nat \ {0}
          BY Numbers
        <5>2. QED
          BY <3>1, <5>1
      <4>3. ApplicationSize(board) = BYTE * high + low /\ high \in Nat /\ low \in 0 .. BYTE - 1
        BY <4>1, <4>2, Zenon
      <4>4. QED
        BY <4>3
    <3> HIDE DEF high, low
    <3>4. high * BYTE + low = ApplicationSize(board)
      <4>1. high * BYTE = BYTE * high
        <5>1. BYTE \in Nat
          BY Numbers
        <5>2. QED
          BY <3>3, <5>1
      <4>2. QED
        BY <3>3, <4>1
    <3>5. QED
      BY <3>2, <3>4 DEF BigEndian
  <2>3. BL_VERSION \in Byte
    BY SmallBytes DEF BL_VERSION
  <2>4. PromisedTo(request) = HardwareInfos
    BY <1>1, <1>4, PromisedEach
  <2> HIDE DEF high, low
  <2>5. <<high, low>>[1] = high /\ <<high, low>>[2] = low
    OBVIOUS
  <2>6. Ok(<<HardwareType, Field(4, NoVersion), BL_VERSION, high, low>>) \in HardwareInfos
    BY <2>2, <2>3, <2>5 DEF HardwareInfos
  <2>7. HardwareType = HwType
    BY DEF HardwareType, HwType
  <2>8. QED
    BY <1>2, <2>1, <2>4, <2>6, <2>7
<1>5. CASE request.cmd = GET_HARDWARE_REVISION
  <2>1. Information(request.cmd) = <<versions.current>>
    BY <1>5 DEF Information, GET_HARDWARE_INFO, GET_HARDWARE_REVISION, GET_SERIAL_NUMBER,
       GET_NUM_CHILDREN, GET_EXTRA_INFO
  <2>2. PromisedTo(request) = {Ok(<<Field(3, NoVersion)>>)}
    BY <1>1, <1>5, PromisedEach
  <2>3. QED
    BY <1>2, <2>1, <2>2
<1>6. CASE request.cmd = GET_SERIAL_NUMBER
  <2>1. Information(request.cmd) = IF board = "gphopper" THEN Stm32Serial ELSE SerialNumber
    BY <1>6 DEF Information, GET_HARDWARE_INFO, GET_HARDWARE_REVISION, GET_SERIAL_NUMBER,
       GET_NUM_CHILDREN, GET_EXTRA_INFO
  <2>2. board = "interfaceboard" \/ board = "gphopper"
    BY TypeFacts, CommandsAssumption
  <2>3. DOMAIN SerialNumber = 1 .. Len(SerialNumber)
    BY CommandsAssumption
  <2>4. Serial = IF board = "gphopper" THEN Stm32Serial ELSE SerialNumber
    BY <2>2, <2>3 DEF Serial, Stm32Serial
  <2>5. PromisedTo(request) = {Ok(Serial)}
    BY <1>1, <1>6, PromisedEach
  <2>6. QED
    BY <2>1, <2>4, <2>5
<1>7. CASE request.cmd = GET_NUM_CHILDREN
  <2>1. Information(request.cmd) = <<1>>
    BY <1>7 DEF Information, GET_HARDWARE_INFO, GET_HARDWARE_REVISION, GET_SERIAL_NUMBER,
       GET_NUM_CHILDREN, GET_EXTRA_INFO, NUM_CHILDREN
  <2>2. PromisedTo(request) = {Ok(<<1>>)}
    BY <1>1, <1>7, PromisedEach
  <2>3. QED
    BY <2>1, <2>2
<1>8. CASE request.cmd = GET_EXTRA_INFO
  <2>1. Information(request.cmd) = <<versions.extra>>
    BY <1>8 DEF Information, GET_HARDWARE_INFO, GET_HARDWARE_REVISION, GET_SERIAL_NUMBER,
       GET_NUM_CHILDREN, GET_EXTRA_INFO
  <2>2. PromisedTo(request) = {Ok(<<Field(5, 0) % 16>>)}
    BY <1>1, <1>8, PromisedEach
  <2>3. QED
    BY <1>2, <2>1, <2>2
<1>9. QED
  BY <1>3, <1>4, <1>5, <1>6, <1>7, <1>8

\* Information is given.
LEMMA GetInformationKeeps ==
  ASSUME IInv, NEW c \in InformationCommands, GetInformation(c)
  PROVE  IInv'
<1>1. Command(c) /\ Executes(c) /\ len = 0 /\ Answer(Information(c)) /\ UNCHANGED <<address, count, done>>
  BY DEF GetInformation, Command
<1>2. Types /\ Loaded /\ request.cmd = c /\ request.args = << >>
  BY <1>1, CommandFacts
<1>3. c \in Supported /\ c \notin {WRITE_FLASH, FINALIZE_FLASH}
  BY DEF Supported, InformationCommands, GET_HARDWARE_INFO, GET_HARDWARE_REVISION, GET_SERIAL_NUMBER,
     GET_NUM_CHILDREN, GET_EXTRA_INFO, WRITE_FLASH, FINALIZE_FLASH
<1>4. Ok(Information(c)) \in Promised(request)
  BY <1>1, <1>2, <1>3, CommandPromise, InformationPromised
<1>5. Information(c) \in Seq(Byte) /\ Len(Information(c)) <= maxLen
  BY <1>2, InformationTypes
<1>6. QED
  BY <1>1, <1>3, <1>4, <1>5, CommandKeeps

\* Arguments are refused where there are to be none.
LEMMA RefuseArgumentsKeeps ==
  ASSUME IInv, RefuseArguments
  PROVE  IInv'
<1>1. PICK c \in InformationCommands \cup {START_APPLICATION, FINALIZE_FLASH} : Command(c)
  BY DEF RefuseArguments
<1>2. Executes(c) /\ len # 0 /\ Fails(INVALID_ARGUMENTS) /\ UNCHANGED <<address, count, done>>
  BY <1>1 DEF RefuseArguments, Command
<1>3. request.cmd = c /\ request.args # << >>
  BY <1>2, CommandFacts
<1>4. c \in Supported /\ c # WRITE_FLASH
  BY DEF Supported, InformationCommands, GET_HARDWARE_INFO, GET_HARDWARE_REVISION, GET_SERIAL_NUMBER,
     GET_NUM_CHILDREN, GET_EXTRA_INFO, START_APPLICATION, WRITE_FLASH, FINALIZE_FLASH
<1>5. c \in {GET_HARDWARE_INFO, GET_HARDWARE_REVISION, GET_SERIAL_NUMBER, GET_NUM_CHILDREN,
            GET_EXTRA_INFO, START_APPLICATION, FINALIZE_FLASH}
  BY DEF InformationCommands
<1>6. \A replies : WithoutArguments(request, replies) = Wrong
  BY <1>3 DEF WithoutArguments
<1>7. PromisedTo(request) = Wrong
  BY <1>3, <1>5, <1>6, PromisedEach
<1>8. Error(INVALID_ARGUMENTS) \in Promised(request)
  BY <1>2, <1>4, <1>7, CommandPromise DEF Wrong
<1>9. QED
  BY <1>1, <1>2, <1>4, <1>8, RefusalKeeps

\* No reply is wanted to the command that ends the loop.
LEMMA StartApplicationKeeps ==
  ASSUME IInv, StartApplication
  PROVE  IInv'
<1>1. /\ Executes(START_APPLICATION) /\ len = 0 /\ bootloaderExit' = TRUE /\ Answer(<< >>)
      /\ UNCHANGED <<flash, nextWriteAddress, eraseCount, erased, address, count, done>>
  BY DEF StartApplication, writing
<1>2. /\ Types /\ Kept /\ Counted /\ board \in Boards /\ pc = "command"
      /\ request.cmd = START_APPLICATION /\ request.args = << >>
      /\ UNCHANGED <<board, versions, expected, len, request>>
  BY <1>1, CommandFacts DEF Uploading
<1>3. Promised(request) = {}
  <2>1. Promised(request) = PromisedTo(request)
    BY <1>1, CommandPromise DEF Supported
  <2>2. QED
    BY <1>2, <2>1, PromisedEach DEF WithoutArguments
<1>4. Promised(request)' = {}
  BY <1>1, <1>2, <1>3, SamePromise
<1>5. << >> \in Seq(Byte) /\ Len(<< >>) <= maxLen
  BY <1>2, ShortReplies
<1>6. Results(COMMAND_OK, << >>)
  BY <1>1, <1>2, <1>5, AnswerResults
<1>7. pc' = "result"
  BY <1>6 DEF Results
<1>8. /\ flash \in Flashes /\ nextWriteAddress \in 0 .. ADDR - 1 /\ eraseCount \in 0 .. MaxErase
      /\ erased \in Nat
  BY <1>2 DEF Types, CommandsTypeOK
<1>9. Uploading'
  <2>1. START_APPLICATION # WRITE_FLASH /\ START_APPLICATION # FINALIZE_FLASH
    BY DEF START_APPLICATION, WRITE_FLASH, FINALIZE_FLASH
  <2>2. ~ ValidWrite(request)' /\ ~ ValidWrite(request) /\ ~ Reported /\ ~ Reported'
    BY <1>2, <2>1 DEF ValidWrite, Reported
  <2>3. Kept'
    BY <1>1, <1>2, <2>2 DEF Kept
  <2>4. Counted'
    BY <1>1, <1>2, <2>2 DEF Counted, Saturated
  <2>5. Exiting'
    BY <1>2, <1>7 DEF Exiting
  <2>6. QED
    BY <2>3, <2>4, <2>5 DEF Uploading
<1>10. QED
  BY <1>1, <1>4, <1>5, <1>6, <1>8, <1>9, StatusBytes, ResultKeeps

-----------------------------------------------------------------------------
(***************************************************************************)
(* Writing flash.                                                          *)
(***************************************************************************)
\* The first two arguments of a WRITE_FLASH are taken for what they were, and it is
\* executed exactly if PROTOCOL.md allows its address.
LEMMA WriteAddressed ==
  ASSUME IInv, Executes(WRITE_FLASH)
  PROVE  /\ len >= 2 => WriteAddress = Offset(request)
         /\ ValidWrite(request) <=> len >= 2 /\ Consecutive(WriteAddress)
<1>1. /\ Types /\ Kept /\ board \in Boards /\ pc = "command" /\ Intact /\ request.cmd = WRITE_FLASH
      /\ len = Len(request.args) /\ Len(request.args) \in Nat
      /\ \A i \in 1 .. Len(request.args) : data[i] = request.args[i]
  BY CommandFacts DEF Uploading
<1>2. nextWriteAddress = expected
  BY <1>1 DEF Kept, Handled
<1>3. Whole(request)
  BY <1>1, PromisedOf
<1>4. ASSUME len >= 2 PROVE WriteAddress = Offset(request)
  <2>1. 1 \in 1 .. Len(request.args) /\ 2 \in 1 .. Len(request.args) /\ datain = 1 /\ datain + 1 = 2
    BY <1>1, <1>4 DEF datain
  <2>2. data[datain] = request.args[1] /\ data[datain + 1] = request.args[2]
    BY <1>1, <2>1
  <2>3. QED
    BY <2>2 DEF WriteAddress, Offset
<1>5. QED
  BY <1>1, <1>2, <1>3, <1>4 DEF ValidWrite, Consecutive

\* An address that is not expected is refused.
LEMMA RefuseWriteKeeps ==
  ASSUME IInv, RefuseWrite
  PROVE  IInv'
<1>1. /\ Executes(WRITE_FLASH) /\ UNCHANGED fixed /\ Fails(INVALID_ARGUMENTS)
      /\ len >= 2 => ~ Consecutive(WriteAddress)
      /\ UNCHANGED <<address, count, done>>
  BY DEF RefuseWrite, Command
<1>2. pc = "command" /\ request.cmd = WRITE_FLASH /\ UNCHANGED <<len, request>>
  BY <1>1, CommandFacts
<1>3. ~ ValidWrite(request)
  BY <1>1, WriteAddressed
<1>4. Error(INVALID_ARGUMENTS) \in Allowed
  <2>1. Promised(request) = PromisedTo(request)
    BY <1>1, CommandPromise DEF Supported
  <2>2. PromisedTo(request) = Wrong
    BY <1>2, <1>3, PromisedEach
  <2>3. QED
    BY <2>1, <2>2 DEF Wrong, Allowed
<1>5. QED
  BY <1>1, <1>2, <1>3, <1>4, FailKeeps

\* The board info, and so the versions, are not in the pages that are committed.
LEMMA CommitKeeps ==
  ASSUME Types, eraseCount = Saturated(erased), NEW pages \in 0 .. MaxErased - erased, Commit(pages)
  PROVE  /\ flash' \in Flashes /\ LoadVersions(flash') = LoadVersions(flash)
         /\ erased' \in Nat /\ Saturated(eraseCount + pages) = Saturated(erased')
<1>1. flash' \in Flashes /\ SameBoardInfo(flash') /\ erased' = erased + pages
  BY DEF Commit
<1>2. erased \in Nat /\ MaxErased \in Nat /\ BOARD_INFO_SIZE \in Nat /\ BOARD_INFO_SIZE >= 5
  BY CommandsAssumption DEF Types
<1>3. pages \in Nat
  BY <1>2
<1>4. \A i \in 0 .. 4 : BoardInfoByte(flash', i) = BoardInfoByte(flash, i)
  BY <1>1, <1>2 DEF SameBoardInfo
<1>5. LoadVersions(flash') = LoadVersions(flash)
  BY <1>4 DEF LoadVersions
<1>6. QED
  BY <1>1, <1>2, <1>3, <1>5, SaturatedRange

\* The error of writePage is the reason that is given.
LEMMA FailedResults ==
  ASSUME Types, NEW err \in WriteErrors, Failed(err),
         UNCHANGED <<board, versions, expected, len, request, address, count, done>>
  PROVE  /\ Results(COMMAND_FAILED, <<err>>)
         /\ <<err>> \in Seq(Byte) /\ Len(<<err>>) <= maxLen
         /\ [status |-> COMMAND_FAILED, payload |-> <<err>>] \in Failures
<1>1. board \in Boards /\ err \in Byte
  BY TypeFacts, CommandsAssumption
<1>2. <<err>> \in Seq(Byte) /\ Len(<<err>>) = 1 /\ Len(<<err>>) <= maxLen /\ <<err>>[1] = err
  BY <1>1, ShortReplies
<1>3. dataout \in 0 .. MAX_PACKET_LENGTH - 1 /\ dataout + 1 - 1 = dataout
  BY <1>1, Layout
<1>4. /\ data' = [data EXCEPT ![dataout] = err] /\ pc' = "result"
      /\ result' = [status |-> COMMAND_FAILED, len |-> 1]
  BY DEF Failed, Result
<1>5. data' \in Buffer /\ data'[dataout] = err
  <2>1. data \in Buffer /\ err \in Cell
    BY <1>1, TypeFacts DEF Cell
  <2>2. QED
    BY <1>3, <1>4, <2>1 DEF Buffer
<1>6. \A i \in 1 .. Len(<<err>>) : data'[dataout + i - 1] = <<err>>[i]
  <2>1. ASSUME NEW i \in 1 .. Len(<<err>>) PROVE i = 1
    BY <1>2
  <2>2. QED
    BY <1>2, <1>3, <1>5, <2>1
<1>7. Results(COMMAND_FAILED, <<err>>)
  BY <1>2, <1>4, <1>5, <1>6 DEF Results
<1>8. [status |-> COMMAND_FAILED, payload |-> <<err>>] \in Failures
  BY <1>1 DEF Failures
<1>9. QED
  BY <1>2, <1>7, <1>8

\* What PROTOCOL.md allows for the request does not depend on flash otherwise.
LEMMA PromiseAfter ==
  ASSUME IInv, NEW c \in {WRITE_FLASH, FINALIZE_FLASH}, Executes(c)
  PROVE  /\ Promised(request)' = PromisedTo(request)'
         /\ \A reply \in Promised(request)' : reply \in Allowed'
<1>1. /\ board \in Boards /\ Types /\ Intact /\ request.cmd = c /\ UNCHANGED <<board, request>>
  BY CommandFacts
<1>2. Whole(request) /\ request.bytes > CrcLength /\ request.crcOk
  BY <1>1, PromisedOf DEF Whole
<1>3. /\ CrcLength' = CrcLength /\ Bus' = Bus /\ Offered' = Offered
  BY <1>1, SameLayout DEF Offered
<1>4. c \in Offered
  BY DEF Offered, WRITE_FLASH, FINALIZE_FLASH
<1>5. ~ (request.bytes <= CrcLength)
  <2>1. CrcLength \in Nat /\ request.bytes \in Nat
    BY <1>1, Layout DEF Types
  <2>2. QED
    BY <1>2, <2>1
<1>6. Promised(request)' = PromisedTo(request)'
  BY <1>1, <1>2, <1>3, <1>4, <1>5 DEF Promised, Whole
<1>7. QED
  BY <1>6 DEF Allowed

\* WRITE_FLASH moves the expected address on, whatever becomes of the pages.
LEMMA WriteFlashKeeps ==
  ASSUME IInv, WriteFlash
  PROVE  IInv'
<1>1. /\ Executes(WRITE_FLASH) /\ len >= 2 /\ Consecutive(WriteAddress)
      /\ nextWriteAddress' = (WriteAddress + len - 2) % ADDR
      /\ UNCHANGED <<bootloaderExit, address, count, done>>
  BY DEF WriteFlash
<1>2. /\ Types /\ Kept /\ Counted /\ Exiting /\ board \in Boards /\ pc = "command"
      /\ request.cmd = WRITE_FLASH /\ len = Len(request.args)
      /\ UNCHANGED <<board, versions, expected, len, request>>
  BY <1>1, CommandFacts DEF Uploading
<1>3. ValidWrite(request) /\ ValidWrite(request)' /\ nextWriteAddress' = Following(request)
      /\ Following(request)' = Following(request)
  BY <1>1, <1>2, WriteAddressed, SameRequest DEF Following
<1>4. nextWriteAddress' \in 0 .. ADDR - 1
  BY <1>1, <1>2, <1>3, Addresses
<1>5. eraseCount = Saturated(erased) /\ bootloaderExit = FALSE /\ erased \in Nat /\ flash \in Flashes
  <2>1. ~ Reported
    BY <1>2 DEF Reported
  <2>2. QED
    BY <1>2, <2>1 DEF Counted, Exiting, Types, CommandsTypeOK
<1>6. /\ flash' \in Flashes /\ LoadVersions(flash') = LoadVersions(flash)
      /\ erased' \in Nat /\ eraseCount' = Saturated(erased')
  <2>1. CASE UNCHANGED <<flash, eraseCount, erased>>
    BY <1>5, <2>1 DEF Saturated
  <2>2. CASE \E pages \in 0 .. MaxErased - erased :
               Commit(pages) /\ eraseCount' = Saturated(eraseCount + pages)
    <3>1. PICK pages \in 0 .. MaxErased - erased :
             Commit(pages) /\ eraseCount' = Saturated(eraseCount + pages)
      BY <2>2
    <3>2. QED
      BY <1>2, <1>5, <3>1, CommitKeeps
  <2>3. QED
    BY <2>1, <2>2 DEF WriteFlash
<1>7. Promised(request)' = {Ok(<< >>)} \cup Failures
  BY <1>1, <1>2, <1>3, PromiseAfter, PromisedAfter
<1>8. Answer(<< >>) \/ \E err \in WriteErrors : Failed(err)
  BY DEF WriteFlash
<1>9. ASSUME pc' = "result" PROVE Uploading'
  <2>1. Kept'
    BY <1>3, <1>9 DEF Kept, Handled
  <2>2. ~ Reported'
    BY <1>2 DEF Reported, WRITE_FLASH, FINALIZE_FLASH
  <2>3. Counted'
    BY <1>6, <2>2 DEF Counted, Saturated
  <2>4. Exiting'
    BY <1>1, <1>5 DEF Exiting
  <2>5. QED
    BY <2>1, <2>3, <2>4 DEF Uploading
<1>10. eraseCount' \in 0 .. MaxErase /\ bootloaderExit' = FALSE
  BY <1>1, <1>5, <1>6, SaturatedRange
<1>11. CASE Answer(<< >>)
  <2>1. << >> \in Seq(Byte) /\ Len(<< >>) <= maxLen
    BY <1>2, ShortReplies
  <2>2. Results(COMMAND_OK, << >>)
    BY <1>1, <1>2, <1>11, <2>1, AnswerResults
  <2>3. [status |-> COMMAND_OK, payload |-> << >>] \in Allowed'
    BY <1>1, <1>7, PromiseAfter DEF Ok
  <2>4. Uploading'
    BY <1>9, <2>2 DEF Results
  <2>5. QED
    BY <1>4, <1>6, <1>10, <2>1, <2>2, <2>3, <2>4, StatusBytes, ResultKeeps
<1>12. ASSUME NEW err \in WriteErrors, Failed(err) PROVE IInv'
  <2>1. /\ Results(COMMAND_FAILED, <<err>>) /\ <<err>> \in Seq(Byte) /\ Len(<<err>>) <= maxLen
        /\ [status |-> COMMAND_FAILED, payload |-> <<err>>] \in Failures
    BY <1>1, <1>2, <1>12, FailedResults
  <2>2. [status |-> COMMAND_FAILED, payload |-> <<err>>] \in Allowed'
    BY <1>1, <1>7, <2>1, PromiseAfter
  <2>3. Uploading'
    BY <1>9, <2>1 DEF Results
  <2>4. QED
    BY <1>4, <1>6, <1>10, <2>1, <2>2, <2>3, StatusBytes, ResultKeeps
<1>13. QED
  BY <1>8, <1>11, <1>12

\* FINALIZE_FLASH reports the pages that have been erased since the last one.
LEMMA FinalizeFlashKeeps ==
  ASSUME IInv, FinalizeFlash
  PROVE  IInv'
<1>1. /\ Executes(FINALIZE_FLASH) /\ len = 0
      /\ UNCHANGED <<nextWriteAddress, bootloaderExit, address, count, done>>
  BY DEF FinalizeFlash
<1>2. /\ Types /\ Kept /\ Counted /\ Exiting /\ board \in Boards /\ pc = "command"
      /\ request.cmd = FINALIZE_FLASH /\ request.args = << >>
      /\ UNCHANGED <<board, versions, expected, len, request>>
  BY <1>1, CommandFacts DEF Uploading
<1>3. /\ eraseCount = Saturated(erased) /\ bootloaderExit' = FALSE /\ erased \in Nat /\ flash \in Flashes
      /\ nextWriteAddress' \in 0 .. ADDR - 1 /\ nextWriteAddress' = expected'
  <2>1. ~ Reported /\ ~ Handled
    BY <1>2 DEF Reported, Handled
  <2>2. QED
    BY <1>1, <1>2, <2>1 DEF Kept, Counted, Exiting, Types, CommandsTypeOK
<1>4. ~ ValidWrite(request)'
  BY <1>2 DEF ValidWrite, FINALIZE_FLASH, WRITE_FLASH
<1>5. Promised(request)' = EraseCounts' \cup Failures
  BY <1>1, <1>2, PromiseAfter, PromisedAfter DEF WithoutArguments
<1>6. ASSUME erased' \in Nat PROVE Ok(<<Saturated(erased')>>) \in Promised(request)'
  <2>1. Saturated(erased') = IF erased' > MaxErase THEN MaxErase ELSE erased'
    BY <1>6, SaturatedRange DEF Saturated
  <2>2. EraseCounts' = {Ok(<<IF erased' > MaxErase THEN MaxErase ELSE erased'>>)}
    BY DEF EraseCounts, Ok
  <2>3. QED
    BY <1>5, <2>1, <2>2
<1>7. ASSUME pc' = "result", eraseCount' = IF result'.status = COMMAND_OK THEN 0 ELSE Saturated(erased')
      PROVE  Uploading'
  <2>1. Kept'
    BY <1>3, <1>4 DEF Kept
  <2>2. Reported' <=> result'.status = COMMAND_OK
    BY <1>2, <1>7 DEF Reported
  <2>3. Counted'
    BY <1>7, <2>2 DEF Counted, Saturated
  <2>4. Exiting'
    BY <1>3 DEF Exiting
  <2>5. QED
    BY <2>1, <2>3, <2>4 DEF Uploading
<1>8. ASSUME flash' \in Flashes, LoadVersions(flash') = LoadVersions(flash), erased' \in Nat,
             Answer(<<Saturated(erased')>>), eraseCount' = 0
      PROVE  IInv'
  <2>1. Saturated(erased') \in Byte /\ 0 \in 0 .. MaxErase
    BY <1>8, SaturatedRange
  <2>2. <<Saturated(erased')>> \in Seq(Byte) /\ Len(<<Saturated(erased')>>) <= maxLen
    BY <1>2, <2>1, ShortReplies
  <2>3. Results(COMMAND_OK, <<Saturated(erased')>>)
    BY <1>1, <1>2, <1>8, <2>2, AnswerResults
  <2>4. [status |-> COMMAND_OK, payload |-> <<Saturated(erased')>>] \in Allowed'
    BY <1>1, <1>6, <1>8, PromiseAfter DEF Ok
  <2>5. Uploading'
    BY <1>7, <1>8, <2>3 DEF Results
  <2>6. QED
    BY <1>3, <1>8, <2>1, <2>2, <2>3, <2>4, <2>5, StatusBytes, ResultKeeps
<1>9. ASSUME flash' \in Flashes, LoadVersions(flash') = LoadVersions(flash), erased' \in Nat,
             NEW err \in WriteErrors, Failed(err), eraseCount' = Saturated(erased')
      PROVE  IInv'
  <2>1. /\ Results(COMMAND_FAILED, <<err>>) /\ <<err>> \in Seq(Byte) /\ Len(<<err>>) <= maxLen
        /\ [status |-> COMMAND_FAILED, payload |-> <<err>>] \in Failures
    BY <1>1, <1>2, <1>9, FailedResults
  <2>2. [status |-> COMMAND_FAILED, payload |-> <<err>>] \in Allowed'
    BY <1>1, <1>5, <2>1, PromiseAfter
  <2>3. Uploading'
    <3>1. result'.status # COMMAND_OK /\ pc' = "result"
      BY <2>1 DEF Results, COMMAND_OK, COMMAND_FAILED
    <3>2. QED
      BY <1>7, <1>9, <3>1
  <2>4. eraseCount' \in 0 .. MaxErase
    BY <1>9, SaturatedRange
  <2>5. QED
    BY <1>3, <1>9, <2>1, <2>2, <2>3, <2>4, StatusBytes, ResultKeeps
<1>10. CASE Answer(<<eraseCount>>) /\ eraseCount' = 0 /\ UNCHANGED <<flash, erased>>
  <2>1. erased' \in Nat /\ Saturated(erased') = Saturated(erased)
    BY <1>3, <1>10
  <2>2. QED
    BY <1>3, <1>8, <1>10, <2>1
<1>11. ASSUME NEW pages \in 0 .. MaxErased - erased, Commit(pages),
              \/ Answer(<<Saturated(eraseCount + pages)>>) /\ eraseCount' = 0
              \/ /\ \E err \in WriteErrors : Failed(err)
                 /\ eraseCount' = Saturated(eraseCount + pages)
       PROVE  IInv'
  <2>1. /\ flash' \in Flashes /\ LoadVersions(flash') = LoadVersions(flash)
        /\ erased' \in Nat /\ Saturated(eraseCount + pages) = Saturated(erased')
    BY <1>2, <1>3, <1>11, CommitKeeps
  <2>2. CASE Answer(<<Saturated(eraseCount + pages)>>) /\ eraseCount' = 0
    BY <1>8, <2>1, <2>2
  <2>3. ASSUME NEW err \in WriteErrors, Failed(err), eraseCount' = Saturated(eraseCount + pages)
        PROVE  IInv'
    BY <1>9, <2>1, <2>3
  <2>4. QED
    BY <1>11, <2>2, <2>3
<1>12. QED
  BY <1>10, <1>11 DEF FinalizeFlash

-----------------------------------------------------------------------------
(***************************************************************************)
(* Reading flash.                                                          *)
(***************************************************************************)
\* What PROTOCOL.md allows to the commands that read flash.
LEMMA PromisedRead ==
  ASSUME Types, Intact, request.cmd \in {READ_FLASH, READ_BOARD_INFO}
  PROVE  Promised(request) =
           IF Len(request.args) # 3 \/ request.args[3] > maxLen THEN Wrong
           ELSE IF request.cmd = READ_FLASH THEN FlashFrom(Offset(request), request.args[3])
           ELSE BoardInfoFrom(Offset(request), request.args[3])
<1>1. Promised(request) = PromisedTo(request)
  BY PromisedOf DEF Supported
<1>2. PromisedTo(request) =
        IF Len(request.args) = 3 /\ request.args[3] <= maxLen
          THEN IF request.cmd = READ_FLASH THEN FlashFrom(Offset(request), request.args[3])
               ELSE BoardInfoFrom(Offset(request), request.args[3])
          ELSE Wrong
  BY PromisedEach DEF READ_FLASH, READ_BOARD_INFO
<1>3. ASSUME Len(request.args) = 3
      PROVE  request.args[3] <= maxLen <=> ~ (request.args[3] > maxLen)
  <2>1. 3 \in 1 .. Len(request.args)
    BY <1>3
  <2>2. request.args[3] \in Byte /\ maxLen \in Nat
    BY <2>1, TypeFacts, Layout
  <2>3. Byte \subseteq Nat
    BY Numbers DEF Byte
  <2>4. \A a, b \in Nat : a <= b <=> ~ (a > b)
    OBVIOUS
  <2>5. QED
    BY <2>2, <2>3, <2>4, Zenon
<1>4. QED
  BY <1>1, <1>2, <1>3

\* A read starts with the arguments of the request.
LEMMA StartReadKeeps ==
  ASSUME IInv, NEW c \in {READ_FLASH, READ_BOARD_INFO}, StartRead(c)
  PROVE  IInv'
<1>1. Command(c) /\ Executes(c) /\ UNCHANGED fixed
  BY DEF StartRead, Command
<1>2. /\ UNCHANGED <<len, request>> /\ Intact /\ request.cmd = c /\ Types /\ board \in Boards
      /\ pc = "command" /\ len = Len(request.args) /\ Len(request.args) \in Nat
      /\ \A i \in 1 .. Len(request.args) : data[i] = request.args[i] /\ request.args[i] \in Byte
  BY <1>1, CommandFacts
<1>3. /\ maxLen \in Nat /\ 0 \in 0 .. maxLen /\ datain = 1 /\ BYTE \in Nat
      /\ ADDR \in Nat \ {0} /\ BOARD_INFO \in Nat /\ BOARD_INFO_SIZE \in Nat
      /\ FLASH_APP_OFFSET(board) \in Nat
  BY <1>2, Layout, Numbers, CommandsAssumption
<1>4. CASE len # 3 \/ TooLong(data[datain + 2])
  <2>1. Fails(INVALID_ARGUMENTS) /\ UNCHANGED <<address, count, done>>
    BY <1>4 DEF StartRead
  <2>2. Len(request.args) # 3 \/ request.args[3] > maxLen
    <3>1. CASE len = 3
      <4>1. data[3] = request.args[3] /\ datain + 2 = 3
        BY <1>2, <1>3, <3>1
      <4>2. QED
        BY <1>4, <3>1, <4>1 DEF TooLong
    <3>2. QED
      BY <1>2, <3>1
  <2>3. Error(INVALID_ARGUMENTS) \in Promised(request)
    BY <1>2, <2>2, PromisedRead DEF Wrong
  <2>4. c # WRITE_FLASH
    BY DEF READ_FLASH, READ_BOARD_INFO, WRITE_FLASH
  <2>5. QED
    BY <1>1, <2>1, <2>3, <2>4, RefusalKeeps
<1>5. CASE ~ (len # 3 \/ TooLong(data[datain + 2]))
  <2>1. /\ Len(request.args) = 3
        /\ data[datain] = request.args[1] /\ data[datain + 1] = request.args[2]
        /\ data[datain + 2] = request.args[3]
        /\ request.args[1] \in Byte /\ request.args[2] \in Byte /\ request.args[3] \in Byte
    <3>1. Len(request.args) = 3 /\ datain = 1 /\ datain + 1 = 2 /\ datain + 2 = 3
      BY <1>2, <1>3, <1>5
    <3>2. QED
      BY <1>2, <3>1
  <2>2. request.args[3] \in 0 .. maxLen
    BY <1>3, <1>5, <2>1 DEF TooLong, Byte
  <2>3. Offset(request) \in 0 .. ADDR - 1 /\ Offset(request) \in Nat /\ data[datain] * BYTE + data[datain + 1] = Offset(request)
    <3>1. Offset(request) \in 0 .. ADDR - 1
      BY <2>1, Numbers DEF Offset
    <3>2. QED
      BY <1>3, <2>1, <3>1 DEF Offset
  <2>4. /\ count' = IF c = READ_FLASH THEN request.args[3] ELSE BoardInfoCount(Offset(request), request.args[3])
        /\ address' = (Offset(request) + (IF c = READ_FLASH THEN FLASH_APP_OFFSET(board) ELSE BOARD_INFO)) % ADDR
        /\ done' = 0 /\ pc' = "read" /\ UNCHANGED <<data, result>>
    BY <1>5, <2>1, <2>3 DEF StartRead
  <2>5. BoardInfoCount(Offset(request), request.args[3]) \in 0 .. maxLen
    BY <1>3, <2>2, <2>3 DEF BoardInfoCount
  <2>6. count' \in 0 .. maxLen
    BY <2>2, <2>4, <2>5
  <2>7. address' \in 0 .. ADDR - 1
    <3>1. Offset(request) + (IF c = READ_FLASH THEN FLASH_APP_OFFSET(board) ELSE BOARD_INFO) \in Nat
      BY <1>3, <2>3
    <3>2. QED
      BY <1>3, <2>4, <3>1, ModRange
  <2>8. /\ UNCHANGED <<board, flash, nextWriteAddress, eraseCount, bootloaderExit, expected, erased>>
        /\ maxLen' = maxLen /\ dataout' = dataout
        /\ Offset(request)' = Offset(request) /\ (Intact' <=> Intact)
    BY <1>1, <1>2, SameLayout, SameRequest DEF fixed, writing
  <2>9. Types'
    <3>1. 0 \in 0 .. count'
      BY <1>3, <2>6
    <3>2. QED
      BY <1>2, <2>4, <2>6, <2>7, <2>8, <3>1 DEF Types, CommandsTypeOK
  <2>10. Reading'
    <3>1. 0 .. done' - 1 = {}
      BY <2>4
    <3>2. /\ Intact' /\ Len(request'.args) = 3 /\ request'.args[3] <= maxLen'
          /\ request' = request
      BY <1>2, <1>3, <2>1, <2>2, <2>8
    <3>3. \/ /\ request.cmd = READ_FLASH
             /\ address' = (Offset(request) + FLASH_APP_OFFSET(board)) % ADDR
             /\ count' = request.args[3]
          \/ /\ request.cmd = READ_BOARD_INFO
             /\ address' = (Offset(request) + BOARD_INFO) % ADDR
             /\ count' = BoardInfoCount(Offset(request), request.args[3])
      BY <1>2, <2>4 DEF READ_FLASH, READ_BOARD_INFO
    <3>4. QED
      BY <2>8, <3>1, <3>2, <3>3 DEF Reading
  <2>11. Loaded' /\ Uploading'
    BY <1>1, <1>2, <2>4, MovesOn DEF Handled
  <2>12. Framed' /\ Commanded' /\ Known' /\ AnswersAsPromised'
    BY <2>4 DEF Framed, Commanded, Known, AnswersAsPromised
  <2>13. QED
    BY <2>9, <2>10, <2>11, <2>12 DEF IInv
<1>6. QED
  BY <1>4, <1>5

\* A byte that is read is written behind those that have been, over what is left of
\* the request.
LEMMA ReadByteKeeps ==
  ASSUME IInv, ReadByte
  PROVE  IInv'
<1>1. /\ pc = "read" /\ done < count /\ done' = done + 1
      /\ data' = [data EXCEPT ![dataout + done] = flash[(address + done) % ADDR]]
      /\ UNCHANGED <<fixed, len, pc, address, count, result, request>>
      /\ UNCHANGED <<board, flash, nextWriteAddress, eraseCount, bootloaderExit, expected, erased>>
  BY DEF ReadByte, fixed, writing
<1>2. Types /\ Reading /\ board \in Boards /\ data \in Buffer /\ flash \in [0 .. ADDR - 1 -> Byte]
  BY TypeFacts DEF IInv
<1>3. /\ maxLen \in Nat /\ dataout \in Nat /\ CrcLength \in Nat /\ MAX_PACKET_LENGTH \in Nat
      /\ dataout + maxLen + CrcLength = MAX_PACKET_LENGTH
      /\ ADDR \in Nat \ {0}
  <2>1. /\ maxLen \in Nat /\ CrcLength \in {1, 2} /\ dataout = CrcLength + 1 /\ MAX_PACKET_LENGTH \in Nat
        /\ dataout + maxLen + CrcLength = MAX_PACKET_LENGTH
    BY <1>2, Layout
  <2>2. ADDR \in Nat \ {0}
    BY Numbers
  <2>3. QED
    BY <2>1, <2>2
<1>4. address \in 0 .. ADDR - 1 /\ count \in 0 .. maxLen /\ done \in 0 .. count
  BY <1>2 DEF Types, CommandsTypeOK
<1>5. done' \in 0 .. count /\ dataout + done \in 0 .. MAX_PACKET_LENGTH - 1
  BY <1>1, <1>3, <1>4
<1>6. flash[(address + done) % ADDR] \in Byte
  <2>1. address + done \in Nat
    BY <1>3, <1>4
  <2>2. (address + done) % ADDR \in 0 .. ADDR - 1
    BY <1>3, <2>1, ModRange
  <2>3. QED
    BY <1>2, <2>2
<1>7. data' \in Buffer
  BY <1>1, <1>2, <1>5, <1>6 DEF Buffer, Cell
<1>8. /\ maxLen' = maxLen /\ dataout' = dataout
      /\ Offset(request)' = Offset(request) /\ (Intact' <=> Intact)
  BY <1>1, SameLayout, SameRequest
<1>9. Types'
  BY <1>1, <1>2, <1>5, <1>7, <1>8 DEF Types, CommandsTypeOK, Buffer, Cell
<1>10. \A i \in 0 .. done' - 1 : data'[dataout + i] = flash[(address + i) % ADDR]
  <2>1. ASSUME NEW i \in 0 .. done' - 1 PROVE data'[dataout + i] = flash[(address + i) % ADDR]
    <3>1. CASE i = done
      BY <1>1, <1>2, <1>5, <3>1 DEF Buffer
    <3>2. CASE i # done
      <4>1. i \in 0 .. done - 1 /\ dataout + i # dataout + done
            /\ dataout + i \in 0 .. MAX_PACKET_LENGTH - 1
        BY <1>1, <1>3, <1>4, <3>2
      <4>2. data[dataout + i] = flash[(address + i) % ADDR]
        BY <1>1, <1>2, <4>1 DEF Reading
      <4>3. QED
        BY <1>1, <1>2, <4>1, <4>2 DEF Buffer
    <3>3. QED
      BY <3>1, <3>2
  <2>2. QED
    BY <2>1
<1>11. Reading'
  BY <1>1, <1>2, <1>8, <1>10 DEF Reading
<1>12. Loaded' /\ Uploading'
  BY <1>1, MovesOn DEF Handled
<1>13. Framed' /\ Commanded' /\ Known' /\ AnswersAsPromised'
  BY <1>1 DEF Framed, Commanded, Known, AnswersAsPromised
<1>14. QED
  BY <1>9, <1>11, <1>12, <1>13 DEF IInv

\* What readFlash has copied when it returns is what the request asks for.
LEMMA ReadDoneKeeps ==
  ASSUME IInv, ReadDone
  PROVE  IInv'
<1>1. /\ pc = "read" /\ done = count /\ Result(COMMAND_OK, count)
      /\ UNCHANGED <<fixed, data, len, address, count, done, request>>
  BY DEF ReadDone
<1>2. Types /\ Reading /\ board \in Boards /\ data \in Buffer /\ flash \in [0 .. ADDR - 1 -> Byte]
  BY TypeFacts DEF IInv
<1>3. /\ maxLen \in Nat /\ ADDR \in Nat \ {0} /\ BOARD_INFO \in Nat /\ BOARD_INFO_SIZE \in Nat
      /\ BOARD_INFO + BOARD_INFO_SIZE <= ADDR /\ FLASH_APP_OFFSET(board) \in Nat
  <2>1. maxLen \in Nat
    BY <1>2, Layout
  <2>2. ADDR \in Nat \ {0}
    BY Numbers
  <2>3. QED
    BY <1>2, <2>1, <2>2, CommandsAssumption
<1>4. dataout \in Nat
  <2>1. CrcLength \in {1, 2} /\ dataout = CrcLength + 1
    BY <1>2, Layout
  <2>2. QED
    BY <2>1
<1>5. address \in 0 .. ADDR - 1 /\ count \in 0 .. maxLen
  BY <1>2 DEF Types, CommandsTypeOK
<1>6. /\ Intact /\ Len(request.args) = 3 /\ request.args[3] <= maxLen
      /\ \/ /\ request.cmd = READ_FLASH
            /\ address = (Offset(request) + FLASH_APP_OFFSET(board)) % ADDR
            /\ count = request.args[3]
         \/ /\ request.cmd = READ_BOARD_INFO
            /\ address = (Offset(request) + BOARD_INFO) % ADDR
            /\ count = BoardInfoCount(Offset(request), request.args[3])
      /\ \A i \in 0 .. count - 1 : data[dataout + i] = flash[(address + i) % ADDR]
  BY <1>1, <1>2 DEF Reading
<1>7. Offset(request) \in 0 .. ADDR - 1 /\ Offset(request) \in Nat /\ request.args[3] \in 0 .. maxLen
  <2>1. request.args[1] \in Byte /\ request.args[2] \in Byte /\ request.args[3] \in Byte
    <3>1. 1 \in 1 .. Len(request.args) /\ 2 \in 1 .. Len(request.args) /\ 3 \in 1 .. Len(request.args)
      BY <1>6
    <3>2. QED
      BY <1>2, <3>1, TypeFacts
  <2>2. Offset(request) \in 0 .. ADDR - 1
    BY <2>1, Numbers DEF Offset
  <2>3. request.args[3] \in Nat
    BY <2>1, Numbers DEF Byte
  <2>4. QED
    BY <1>3, <1>6, <2>2, <2>3
<1>8. ASSUME NEW i \in 1 .. count
      PROVE  i - 1 \in 0 .. count - 1 /\ dataout + i - 1 = dataout + (i - 1)
             /\ data[dataout + i - 1] = flash[(address + (i - 1)) % ADDR]
             /\ data[dataout + i - 1] \in Byte
  <2>1. i - 1 \in 0 .. count - 1 /\ dataout + i - 1 = dataout + (i - 1) /\ address + (i - 1) \in Nat
    BY <1>4, <1>5
  <2>2. (address + (i - 1)) % ADDR \in 0 .. ADDR - 1
    BY <1>3, <2>1, ModRange
  <2>3. flash[(address + (i - 1)) % ADDR] \in Byte
    BY <1>2, <2>2
  <2>4. QED
    BY <1>6, <2>1, <2>3
<1> DEFINE offset == Offset(request)
<1> DEFINE bytes == [i \in 1 .. count |-> data[dataout + i - 1]]
<1>9. bytes \in Seq(Byte) /\ Len(bytes) = count /\ \A i \in 1 .. count : bytes[i] = data[dataout + i - 1]
  <2>1. bytes \in [1 .. count -> Byte]
    BY <1>8
  <2>2. count \in Nat
    BY <1>3, <1>5
  <2>3. QED
    BY <2>1, <2>2
<1>10. Ok(bytes) \in Promised(request)
  <2>1. CASE request.cmd = READ_FLASH
    <3> DEFINE wanted == [i \in 1 .. request.args[3] |-> flash[(offset + FLASH_APP_OFFSET(board) + i - 1) % ADDR]]
    <3>1. Ok(wanted) \in Promised(request)
      <4>1. ~ (Len(request.args) # 3 \/ request.args[3] > maxLen)
        BY <1>3, <1>6, <1>7
      <4>2. Promised(request) = FlashFrom(offset, request.args[3])
        BY <1>2, <1>6, <2>1, <4>1, PromisedRead
      <4>3. QED
        BY <4>2 DEF FlashFrom
    <3>2. address = (offset + FLASH_APP_OFFSET(board)) % ADDR /\ count = request.args[3]
      BY <1>6, <2>1 DEF READ_FLASH, READ_BOARD_INFO
    <3>3. ASSUME NEW i \in 1 .. count
          PROVE  data[dataout + i - 1] = flash[(offset + FLASH_APP_OFFSET(board) + i - 1) % ADDR]
      <4>1. i - 1 \in Nat /\ offset + FLASH_APP_OFFSET(board) \in Nat
            /\ offset + FLASH_APP_OFFSET(board) + i - 1 = (offset + FLASH_APP_OFFSET(board)) + (i - 1)
        BY <1>3, <1>5, <1>7
      <4>2. (address + (i - 1)) % ADDR = ((offset + FLASH_APP_OFFSET(board)) + (i - 1)) % ADDR
        BY <1>3, <3>2, <4>1, ModShift
      <4>3. QED
        BY <1>8, <4>1, <4>2
    <3>4. bytes = wanted
      BY <3>2, <3>3
    <3>5. QED
      BY <3>1, <3>4
  <2>2. CASE request.cmd = READ_BOARD_INFO
    <3> DEFINE end == IF offset + request.args[3] < BOARD_INFO_SIZE THEN offset + request.args[3]
                                                                   ELSE BOARD_INFO_SIZE
    <3> DEFINE wanted == SubSeq(BoardInfo, offset + 1, end)
    <3>1. Ok(wanted) \in Promised(request)
      <4>1. ~ (Len(request.args) # 3 \/ request.args[3] > maxLen) /\ request.cmd # READ_FLASH
        BY <1>3, <1>6, <1>7, <2>2 DEF READ_FLASH, READ_BOARD_INFO
      <4>2. Promised(request) = BoardInfoFrom(offset, request.args[3])
        BY <1>2, <1>6, <2>2, <4>1, PromisedRead
      <4>3. QED
        BY <4>2 DEF BoardInfoFrom
    <3>2. address = (offset + BOARD_INFO) % ADDR /\ count = BoardInfoCount(offset, request.args[3])
      BY <1>6, <2>2 DEF READ_FLASH, READ_BOARD_INFO
    <3>3. BoardInfo \in Seq(Byte) /\ Len(BoardInfo) = BOARD_INFO_SIZE
          /\ \A i \in 1 .. BOARD_INFO_SIZE : BoardInfo[i] = flash[BOARD_INFO + i - 1]
      BY <1>2, BoardInfoSeq
    <3>4. /\ end \in Nat /\ end <= BOARD_INFO_SIZE
          /\ offset < BOARD_INFO_SIZE => count = end - offset /\ offset <= end
          /\ ~ (offset < BOARD_INFO_SIZE) => count = 0 /\ end < offset + 1
      BY <1>3, <1>7, <3>2 DEF BoardInfoCount
    <3> HIDE DEF end
    <3>5. CASE offset < BOARD_INFO_SIZE
      <4>1. offset + 1 \in 1 .. Len(BoardInfo) + 1 /\ end \in offset .. Len(BoardInfo)
            /\ (offset + 1) - 1 = offset
        <5>1. offset \in Nat /\ Len(BoardInfo) \in Nat /\ end \in Nat
              /\ offset < Len(BoardInfo) /\ end <= Len(BoardInfo) /\ offset <= end
          BY <1>3, <1>7, <3>3, <3>4, <3>5
        <5>2. QED
          BY <5>1
      <4>2. wanted \in Seq(Byte) /\ Len(wanted) = count
            /\ \A i \in 1 .. count : wanted[i] = BoardInfo[offset + i]
        <5>1. offset + 1 \in Int /\ end \in Int /\ end - (offset + 1) + 1 = count
          BY <1>7, <3>4, <3>5
        <5>2. \A i \in offset + 1 .. end : BoardInfo[i] \in Byte
          <6>1. \A i \in offset + 1 .. end : i \in 1 .. Len(BoardInfo)
            BY <1>7, <3>3, <3>4
          <6>2. QED
            BY <3>3, <6>1, ElementOfSeq
        <5>3. /\ wanted \in Seq(Byte)
              /\ Len(wanted) = IF offset + 1 <= end THEN end - (offset + 1) + 1 ELSE 0
              /\ \A i \in 1 .. end - (offset + 1) + 1 : wanted[i] = BoardInfo[(offset + 1) + i - 1]
          BY <5>1, <5>2, SubSeqProperties
        <5>4. \A i \in 1 .. count : (offset + 1) + i - 1 = offset + i
          BY <1>5, <1>7
        <5>5. offset + 1 <= end \/ count = 0
          BY <1>7, <3>4, <3>5
        <5> HIDE DEF offset, wanted
        <5>6. QED
          BY <5>1, <5>3, <5>4, <5>5
      <4>3. ASSUME NEW i \in 1 .. count PROVE BoardInfo[offset + i] = data[dataout + i - 1]
        <5>1. /\ offset + i \in 1 .. BOARD_INFO_SIZE
              /\ offset + BOARD_INFO \in 0 .. ADDR - 1
              /\ BOARD_INFO + (offset + i) - 1 = (offset + BOARD_INFO) + (i - 1)
              /\ (offset + BOARD_INFO) + (i - 1) \in 0 .. ADDR - 1
          BY <1>3, <1>7, <3>4, <3>5
        <5>2. address = offset + BOARD_INFO
          BY <1>3, <3>2, <5>1, ModSmall
        <5>3. (address + (i - 1)) % ADDR = (offset + BOARD_INFO) + (i - 1)
          BY <1>3, <5>1, <5>2, ModSmall
        <5>4. QED
          BY <1>8, <3>3, <5>1, <5>3
      <4>4. bytes = wanted
        <5> HIDE DEF bytes, wanted
        <5>1. \A i \in 1 .. Len(bytes) : bytes[i] = wanted[i]
          BY <1>9, <4>2, <4>3
        <5>2. QED
          BY <1>9, <4>2, <5>1, SeqEqual
      <4>5. QED
        BY <3>1, <4>4
    <3>6. CASE ~ (offset < BOARD_INFO_SIZE)
      <4>1. bytes = << >>
        <5>1. Len(bytes) = 0
          BY <1>9, <3>4, <3>6
        <5>2. QED
          BY <1>9, <5>1, EmptySeq
      <4>2. wanted = << >>
        BY <1>7, <3>3, <3>4, <3>6
      <4>3. QED
        BY <3>1, <4>1, <4>2
    <3>7. QED
      BY <3>5, <3>6
  <2>3. QED
    BY <1>6, <2>1, <2>2
<1>11. Results(COMMAND_OK, bytes)
  <2> HIDE DEF bytes
  <2>1. /\ UNCHANGED <<board, versions, expected, len, request, address, count, done>>
        /\ data' = data /\ pc' = "result" /\ result' = [status |-> COMMAND_OK, len |-> count]
    BY <1>1 DEF Result, fixed
  <2>2. QED
    BY <1>2, <1>9, <2>1 DEF Results
<1> HIDE DEF bytes
<1>12. Len(bytes) <= maxLen /\ [status |-> COMMAND_OK, payload |-> bytes] \in Allowed
  BY <1>3, <1>5, <1>9, <1>10 DEF Ok, Allowed
<1>13. ~ ValidWrite(request) /\ request.cmd # FINALIZE_FLASH
  BY <1>6 DEF ValidWrite, READ_FLASH, READ_BOARD_INFO, WRITE_FLASH, FINALIZE_FLASH
<1>14. QED
  BY <1>1, <1>9, <1>11, <1>12, <1>13, StatusBytes, FixedResultKeeps

-----------------------------------------------------------------------------
(***************************************************************************)
(* The reply.                                                              *)
(***************************************************************************)
\* The header is put before the payload and takes nothing of it.  It is not sent when
\* the loop has ended.
LEMMA ReplyKeeps ==
  ASSUME IInv, Reply
  PROVE  IInv'
<1>1. /\ Types /\ Loaded /\ Known /\ Kept /\ Counted /\ Exiting /\ pc = "result"
      /\ pc' = (IF bootloaderExit THEN "exited" ELSE "reply") /\ len' = result.len + Overhead
      /\ UNCHANGED <<board, flash, versions, nextWriteAddress, eraseCount, bootloaderExit, expected,
                     erased, address, count, done, result, request>>
  BY DEF IInv, Uploading, Reply, fixed, writing, local
<1>2. board \in Boards /\ data \in Buffer /\ result.status \in Byte /\ result.len \in 0 .. maxLen
  BY <1>1, TypeFacts DEF Types, CommandsTypeOK
<1>3. /\ CrcLength \in {1, 2} /\ dataout = CrcLength + 1 /\ Overhead = dataout + CrcLength
      /\ maxLen \in Nat /\ MAX_PACKET_LENGTH \in Nat
      /\ dataout + maxLen + CrcLength = MAX_PACKET_LENGTH /\ 0 .. maxLen \subseteq Byte
  BY <1>2, Layout
<1>4. data' = [i \in 0 .. MAX_PACKET_LENGTH - 1 |->
                 IF i = dataout - 1 THEN result.len
                 ELSE IF i = dataout - 2 THEN result.status
                 ELSE IF i < dataout - 2 THEN 0
                 ELSE IF i < dataout + result.len THEN data[i] ELSE Stale]
  BY <1>2 DEF Reply, Buffer
<1>5. data' \in Buffer
  <2>1. 0 \in Byte /\ result.len \in Byte
    BY <1>2, <1>3, SmallBytes
  <2>2. QED
    BY <1>2, <1>4, <2>1 DEF Buffer, Cell
<1>6. /\ dataout' = dataout /\ maxLen' = maxLen
      /\ Promised(request)' = Promised(request) /\ Allowed' = Allowed
  BY <1>1, SameLayout, SamePromise
<1>7. len' \in 0 .. MAX_PACKET_LENGTH
  <2>1. ASSUME NEW n \in 0 .. maxLen PROVE n + Overhead \in 0 .. MAX_PACKET_LENGTH
    BY <1>3
  <2>2. QED
    BY <1>1, <1>2, <2>1
<1>8. Types'
  BY <1>1, <1>2, <1>5, <1>6, <1>7 DEF Types, CommandsTypeOK, Buffer, Cell
<1>9. data'[dataout - 2] = result.status /\ data'[dataout - 1] = result.len
  <2>1. dataout - 2 \in 0 .. MAX_PACKET_LENGTH - 1 /\ dataout - 1 \in 0 .. MAX_PACKET_LENGTH - 1
        /\ dataout - 2 # dataout - 1
    BY <1>3
  <2>2. QED
    BY <1>4, <2>1
<1>10. ASSUME NEW i \in 1 .. result.len PROVE data'[dataout + i - 1] = data[dataout + i - 1]
  <2>1. ASSUME NEW n \in 0 .. maxLen, NEW j \in 1 .. n
        PROVE  /\ dataout + j - 1 \in 0 .. MAX_PACKET_LENGTH - 1 /\ dataout + j - 1 < dataout + n
               /\ dataout + j - 1 # dataout - 1 /\ dataout + j - 1 # dataout - 2
               /\ ~ (dataout + j - 1 < dataout - 2)
    BY <1>3
  <2>2. /\ dataout + i - 1 \in 0 .. MAX_PACKET_LENGTH - 1 /\ dataout + i - 1 < dataout + result.len
        /\ dataout + i - 1 # dataout - 1 /\ dataout + i - 1 # dataout - 2
        /\ ~ (dataout + i - 1 < dataout - 2)
    BY <1>2, <2>1
  <2>3. QED
    BY <1>4, <2>2
<1>11. [i \in 1 .. data'[dataout - 1] |-> data'[dataout + i - 1]] = Payload
  BY <1>9, <1>10 DEF Payload
<1>12. AnswersAsPromised'
  <2>1. CASE bootloaderExit
    <3>1. pc' = "exited" /\ Promised(request)' = {}
      BY <1>1, <1>6, <2>1 DEF Known
    <3>2. QED
      BY <3>1 DEF AnswersAsPromised
  <2>2. CASE ~ bootloaderExit
    <3>1. pc' = "reply"
      BY <1>1, <2>2
    <3>2. [status |-> data'[dataout - 2],
           payload |-> [i \in 1 .. data'[dataout - 1] |-> data'[dataout + i - 1]]] \in Allowed
      BY <1>1, <1>9, <1>11, <2>2 DEF Known
    <3>3. QED
      BY <1>6, <3>1, <3>2 DEF AnswersAsPromised, Allowed
  <2>3. QED
    BY <2>1, <2>2
<1>13. Uploading'
  <2>1. ValidWrite(request)' <=> ValidWrite(request)
    BY <1>1, SameRequest
  <2>2. Following(request)' = Following(request)
    BY <1>1, SameRequest
  <2>3. Kept'
    BY <1>1, <2>1, <2>2 DEF Kept, Handled
  <2>4. Reported' <=> Reported
    BY <1>1, <1>6, <1>9 DEF Reported, Exiting, START_APPLICATION, FINALIZE_FLASH
  <2>5. Counted'
    BY <1>1, <2>4 DEF Counted, Saturated
  <2>6. Exiting'
    BY <1>1 DEF Exiting
  <2>7. QED
    BY <2>3, <2>5, <2>6 DEF Uploading
<1>14. Loaded'
  BY <1>1 DEF Loaded
<1>15. Framed' /\ Commanded' /\ Reading' /\ Known'
  BY <1>1 DEF Framed, Commanded, Reading, Known
<1>16. QED
  BY <1>8, <1>12, <1>13, <1>14, <1>15 DEF IInv

\* Nothing happens.
LEMMA StutterKeeps ==
  ASSUME IInv, UNCHANGED commandVars
  PROVE  IInv'
<1>1. UNCHANGED <<board, flash, versions, nextWriteAddress, eraseCount, bootloaderExit, expected,
                  erased, data, len, pc, address, count, done, result, request>>
  BY DEF commandVars, fixed, writing, local
<1>2. /\ dataout' = dataout /\ CrcLength' = CrcLength /\ maxLen' = maxLen
      /\ Offset(request)' = Offset(request) /\ Following(request)' = Following(request)
      /\ (Intact' <=> Intact) /\ (ValidWrite(request)' <=> ValidWrite(request))
      /\ Promised(request)' = Promised(request) /\ Allowed' = Allowed
  BY <1>1, SameLayout, SameRequest, SamePromise
<1>3. Types' /\ Loaded'
  BY <1>1, <1>2 DEF IInv, Types, CommandsTypeOK, Loaded
<1>4. Framed' /\ Commanded' /\ Reading'
  BY <1>1, <1>2 DEF IInv, Framed, Commanded, Reading, InBuffer
<1>5. Kept'
  BY <1>1, <1>2 DEF IInv, Uploading, Kept, Handled
<1>6. Counted' /\ Exiting'
  BY <1>1, <1>2 DEF IInv, Uploading, Counted, Reported, Saturated, Exiting
<1>7. Known'
  BY <1>1, <1>2 DEF IInv, Known, Payload
<1>8. AnswersAsPromised'
  BY <1>1, <1>2 DEF IInv, AnswersAsPromised, Allowed
<1>9. QED
  BY <1>3, <1>4, <1>5, <1>6, <1>7, <1>8 DEF IInv, Uploading

\* Every step.
LEMMA NextKeeps == IInv /\ [Next]_commandVars => IInv'
<1> SUFFICES ASSUME IInv, [Next]_commandVars PROVE IInv'
  OBVIOUS
<1>1. CASE FrameArrives
  BY <1>1, FrameArrivesKeeps
<1>2. CASE ShortFrame \/ WrongCrc \/ RightCrc
  BY <1>2, FrameKeeps
<1>3. CASE GetProtocolVersion \/ GetMaxPacketLength \/ PowerUpDisplay \/ NotSupported
  BY <1>3, ConstantKeeps
<1>4. CASE SetAddress
  BY <1>4, SetAddressKeeps
<1>5. CASE SetChildSelect
  BY <1>5, SetChildSelectKeeps
<1>6. CASE \E c \in InformationCommands : GetInformation(c)
  BY <1>6, GetInformationKeeps
<1>7. CASE StartApplication
  BY <1>7, StartApplicationKeeps
<1>8. CASE RefuseArguments
  BY <1>8, RefuseArgumentsKeeps
<1>9. CASE RefuseWrite
  BY <1>9, RefuseWriteKeeps
<1>10. CASE WriteFlash
  BY <1>10, WriteFlashKeeps
<1>11. CASE FinalizeFlash
  BY <1>11, FinalizeFlashKeeps
<1>12. CASE \E c \in {READ_FLASH, READ_BOARD_INFO} : StartRead(c)
  BY <1>12, StartReadKeeps
<1>13. CASE ReadByte
  BY <1>13, ReadByteKeeps
<1>14. CASE ReadDone
  BY <1>14, ReadDoneKeeps
<1>15. CASE Reply
  BY <1>15, ReplyKeeps
<1>16. CASE Forget
  BY <1>16, ForgetKeeps
<1>17. CASE Restart
  BY <1>17, RestartKeeps
<1>18. CASE UNCHANGED commandVars
  BY <1>18, StutterKeeps
<1>19. QED
  BY <1>1, <1>2, <1>3, <1>4, <1>5, <1>6, <1>7, <1>8, <1>9, <1>10, <1>11, <1>12, <1>13, <1>14, <1>15,
     <1>16, <1>17, <1>18 DEF Next

\* The invariant holds in every state that is reached.
LEMMA IInvHolds == Spec => []IInv
<1>1. Init => IInv
  BY InitIInv
<1>2. IInv /\ [Next]_commandVars => IInv'
  BY NextKeeps
<1>3. QED
  BY <1>1, <1>2, PTL DEF Spec

\* No command and no reply leaves the buffer, the loop of readFlash does not run past
\* the payload it may send, and no reply is longer than a packet.
THEOREM TypeCorrect == Spec => []CommandsTypeOK
<1>1. IInv => CommandsTypeOK
  BY DEF IInv, Types
<1>2. QED
  BY <1>1, IInvHolds, PTL

\* A request gets a reply that PROTOCOL.md allows to it, on its bus, for its arguments
\* and at this point of an upload, and no reply where PROTOCOL.md allows none; the one
\* exception are the RS485 frames too short for a CRC, of Excepted, which get
\* INVALID_TRANSFER.  This holds although the reply takes the place of the request in the
\* buffer while the command is still being executed, and although what it depends on,
\* the expected address and the count of pages, is only in RAM and changes with commands
\* that fail.
THEOREM AnswersCorrect == Spec => []AnswersAsPromised
<1>1. IInv => AnswersAsPromised
  BY DEF IInv
<1>2. QED
  BY <1>1, IInvHolds, PTL

-----------------------------------------------------------------------------
(***************************************************************************)
(* The CRCs of Crc: how many bits of a register are 1.                     *)
(***************************************************************************)
\* The bits of the CRC register of RS485, those of the one of I2C among them.
Register == 0 .. 15

\* Registers are finite.
LEMMA RegisterFinite ==
  ASSUME NEW a \in SUBSET Register
  PROVE  IsFiniteSet(a) /\ Cardinality(a) \in Nat
<1>1. IsFiniteSet(Register)
  <2>1. 0 \in Int /\ 15 \in Int
    OBVIOUS
  <2>2. IsFiniteSet(0 .. 15)
    BY <2>1, FS_Interval, Zenon
  <2>3. QED
    BY <2>2 DEF Register
<1>2. IsFiniteSet(a)
  BY <1>1, FS_Subset
<1>3. QED
  BY <1>2, FS_CardinalityType

\* The bits of a byte are bits of the register.
LEMMA BitsFinite ==
  ASSUME NEW a \in SUBSET Bits
  PROVE  a \in SUBSET Register /\ IsFiniteSet(a) /\ Cardinality(a) \in Nat
<1>1. a \in SUBSET Register
  BY DEF Bits, Register
<1>2. QED
  BY <1>1, RegisterFinite

\* Xor has an odd number of bits if one of the two has, and the other has not.
LEMMA XorParity ==
  ASSUME NEW a, NEW b, IsFiniteSet(a), IsFiniteSet(b)
  PROVE  /\ IsFiniteSet(Xor(a, b))
         /\ Cardinality(a) \in Nat /\ Cardinality(b) \in Nat
         /\ Cardinality(Xor(a, b)) \in Nat
         /\ (Cardinality(Xor(a, b)) + Cardinality(a) + Cardinality(b)) % 2 = 0
<1>1. /\ IsFiniteSet(a \ b) /\ Cardinality(a \ b) = Cardinality(a) - Cardinality(a \cap b)
      /\ IsFiniteSet(b \ a) /\ Cardinality(b \ a) = Cardinality(b) - Cardinality(b \cap a)
  BY FS_Difference
<1>2. (a \ b) \cap (b \ a) = {} /\ a \cap b = b \cap a
  OBVIOUS
<1>3. /\ IsFiniteSet(Xor(a, b))
      /\ Cardinality(Xor(a, b)) = Cardinality(a \ b) + Cardinality(b \ a) - Cardinality({})
  BY <1>1, <1>2, FS_Union DEF Xor
<1>4. Cardinality({}) = 0
  BY FS_EmptySet
<1>5. /\ Cardinality(a) \in Nat /\ Cardinality(b) \in Nat /\ Cardinality(a \cap b) \in Nat
      /\ Cardinality(Xor(a, b)) \in Nat
  BY <1>3, FS_Intersection, FS_CardinalityType
<1>6. \A x, p, q, n \in Nat : x = (p - n) + (q - n) - 0 => (x + p + q) % 2 = 0
  OBVIOUS
<1>7. Cardinality(Xor(a, b))
        = (Cardinality(a) - Cardinality(a \cap b)) + (Cardinality(b) - Cardinality(a \cap b)) - 0
  BY <1>1, <1>2, <1>3, <1>4
<1>8. QED
  BY <1>3, <1>5, <1>6, <1>7, Zenon

\* A shift keeps how many bits there are.
LEMMA MovedSize ==
  ASSUME NEW S \in SUBSET Int, IsFiniteSet(S), NEW d \in Int, NEW T, T = { i + d : i \in S }
  PROVE  IsFiniteSet(T) /\ Cardinality(T) = Cardinality(S)
<1>1. PICK f : f = [i \in S |-> i + d]
  OBVIOUS
<1>2. f \in Bijection(S, T)
  <2>1. (\A i \in S : i + d \in T) /\ (\A t \in T : \E i \in S : t = i + d)
    BY Zenon
  <2>2. \A i \in S : f[i] = i + d
    BY <1>1, Zenon
  <2>3. f \in [S -> T]
    BY <1>1, <2>1, Zenon
  <2>4. \A i, j \in S : f[i] = f[j] => i = j
    <3>1. \A i, j \in Int : i + d = j + d => i = j
      OBVIOUS
    <3>2. QED
      BY <2>2, <3>1
  <2>5. ASSUME NEW t \in T PROVE \E i \in S : f[i] = t
    <3>1. PICK i \in S : t = i + d
      BY <2>1, Zenon
    <3>2. f[i] = t
      BY <2>2, <3>1
    <3>3. QED
      BY <3>2
  <2>6. QED
    BY <2>3, <2>4, <2>5, Zenon DEF Bijection, Injection, Surjection, IsInjective
<1>3. ExistsBijection(S, T)
  BY <1>2, Zenon DEF ExistsBijection
<1>4. QED
  BY <1>3, FS_Bijection

\* Both polynomials have three bits beside the one that is shifted out.
LEMMA PolynomialSize ==
  /\ IsFiniteSet(Polynomial8) /\ Cardinality(Polynomial8) = 3
  /\ IsFiniteSet(Polynomial16) /\ Cardinality(Polynomial16) = 3
<1>1. ASSUME NEW x \in Nat, NEW y \in Nat, NEW z \in Nat, x # y, y # z, x # z
      PROVE  IsFiniteSet({x, y, z}) /\ Cardinality({x, y, z}) = 3
  <2>1. IsFiniteSet({x}) /\ Cardinality({x}) = 1
    BY FS_Singleton
  <2>2. IsFiniteSet({x} \cup {y}) /\ Cardinality({x} \cup {y}) = 2
    BY <1>1, <2>1, FS_AddElement
  <2>3. /\ IsFiniteSet(({x} \cup {y}) \cup {z})
        /\ Cardinality(({x} \cup {y}) \cup {z}) = 3
    BY <1>1, <2>2, FS_AddElement
  <2>4. ({x} \cup {y}) \cup {z} = {x, y, z}
    OBVIOUS
  <2>5. QED
    BY <2>3, <2>4
<1>2. QED
  BY <1>1 DEF Polynomial8, Polynomial16

\* A round of either CRC keeps the parity of the register: the polynomial replaces the
\* bit that is shifted out by three.
LEMMA Round8Parity ==
  ASSUME NEW a \in SUBSET Bits
  PROVE  Round8(a) \in SUBSET Bits /\ (Cardinality(Round8(a)) + Cardinality(a)) % 2 = 0
<1> DEFINE kept == { j \in a : j + 1 < 8 }
           s == ShiftLeft(a, 1, 8)
<1>1. /\ IsFiniteSet(a) /\ Cardinality(a) \in Nat
      /\ kept \in SUBSET Int /\ IsFiniteSet(kept) /\ Cardinality(kept) \in Nat
  <2>1. kept \in SUBSET Bits
    OBVIOUS
  <2>2. QED
    BY <2>1, BitsFinite DEF Bits
<1>2. s \in SUBSET Bits /\ IsFiniteSet(s) /\ Cardinality(s) = Cardinality(kept)
  <2>1. s = { i + 1 : i \in kept }
    BY DEF ShiftLeft
  <2>2. s \in SUBSET Bits
    BY DEF ShiftLeft, Bits
  <2>3. 1 \in Int
    OBVIOUS
  <2> HIDE DEF s, kept
  <2>4. QED
    BY <1>1, <2>1, <2>2, <2>3, MovedSize
<1>3. CASE 7 \in a
  <2>1. kept = a \ {7}
    <3>1. \A j \in a : j + 1 < 8 <=> j # 7
      BY DEF Bits
    <3>2. QED
      BY <3>1, Zenon
  <2>2. Cardinality(kept) = Cardinality(a) - 1
    BY <1>1, <1>3, <2>1, FS_RemoveElement
  <2>3. Round8(a) = Xor(s, Polynomial8)
    BY <1>3 DEF Round8
  <2>4. /\ Cardinality(s) \in Nat /\ Cardinality(Xor(s, Polynomial8)) \in Nat
        /\ (Cardinality(Xor(s, Polynomial8)) + Cardinality(s) + 3) % 2 = 0
    BY <1>2, PolynomialSize, XorParity
  <2>5. Xor(s, Polynomial8) \in SUBSET Bits
    BY <1>2 DEF Xor, Polynomial8, Bits
  <2>6. \A x, y, z \in Nat : y = z - 1 /\ (x + y + 3) % 2 = 0 => (x + z) % 2 = 0
    OBVIOUS
  <2>7. QED
    BY <1>1, <1>2, <2>2, <2>3, <2>4, <2>5, <2>6, Zenon
<1>4. CASE 7 \notin a
  <2>1. kept = a
    <3>1. \A j \in a : j + 1 < 8
      BY <1>4 DEF Bits
    <3>2. QED
      BY <3>1, Zenon
  <2>2. Round8(a) = s
    BY <1>4 DEF Round8
  <2>3. \A x \in Nat : (x + x) % 2 = 0
    OBVIOUS
  <2>4. QED
    BY <1>1, <1>2, <2>1, <2>2, <2>3, Zenon
<1>5. QED
  BY <1>3, <1>4

LEMMA Round16Parity ==
  ASSUME NEW a \in SUBSET Register
  PROVE  Round16(a) \in SUBSET Register /\ (Cardinality(Round16(a)) + Cardinality(a)) % 2 = 0
<1> DEFINE kept == { j \in a : j >= 1 }
           s == ShiftRight(a, 1)
<1>1. /\ IsFiniteSet(a) /\ Cardinality(a) \in Nat
      /\ kept \in SUBSET Int /\ IsFiniteSet(kept) /\ Cardinality(kept) \in Nat
  <2>1. kept \in SUBSET Register
    OBVIOUS
  <2>2. QED
    BY <2>1, RegisterFinite DEF Register
<1>2. s \in SUBSET Register /\ IsFiniteSet(s) /\ Cardinality(s) = Cardinality(kept)
  <2>1. s = { i + (0 - 1) : i \in kept }
    BY DEF ShiftRight, Register
  <2>2. s \in SUBSET Register
    BY DEF ShiftRight, Register
  <2>3. 0 - 1 \in Int
    OBVIOUS
  <2> HIDE DEF s, kept
  <2>4. QED
    BY <1>1, <2>1, <2>2, <2>3, MovedSize
<1>3. CASE 0 \in a
  <2>1. kept = a \ {0}
    <3>1. \A j \in a : j >= 1 <=> j # 0
      BY DEF Register
    <3>2. QED
      BY <3>1, Zenon
  <2>2. Cardinality(kept) = Cardinality(a) - 1
    BY <1>1, <1>3, <2>1, FS_RemoveElement
  <2>3. Round16(a) = Xor(s, Polynomial16)
    BY <1>3 DEF Round16
  <2>4. /\ Cardinality(s) \in Nat /\ Cardinality(Xor(s, Polynomial16)) \in Nat
        /\ (Cardinality(Xor(s, Polynomial16)) + Cardinality(s) + 3) % 2 = 0
    BY <1>2, PolynomialSize, XorParity
  <2>5. Xor(s, Polynomial16) \in SUBSET Register
    BY <1>2 DEF Xor, Polynomial16, Register
  <2>6. \A x, y, z \in Nat : y = z - 1 /\ (x + y + 3) % 2 = 0 => (x + z) % 2 = 0
    OBVIOUS
  <2>7. QED
    BY <1>1, <1>2, <2>2, <2>3, <2>4, <2>5, <2>6, Zenon
<1>4. CASE 0 \notin a
  <2>1. kept = a
    <3>1. \A j \in a : j >= 1
      BY <1>4 DEF Register
    <3>2. QED
      BY <3>1, Zenon
  <2>2. Round16(a) = s
    BY <1>4 DEF Round16
  <2>3. \A x \in Nat : (x + x) % 2 = 0
    OBVIOUS
  <2>4. QED
    BY <1>1, <1>2, <2>1, <2>2, <2>3, Zenon
<1>5. QED
  BY <1>3, <1>4

\* The eight rounds of a byte, one after the other, make a function.
LEMMA Rounds8 ==
  ASSUME NEW a
  PROVE  \E f : f = [n \in 0 .. 8 |-> IF n = 0 THEN a ELSE Round8(f[n - 1])]
<1>1. PICK b : b = Round8(a)
  OBVIOUS
<1>2. PICK c : c = Round8(b)
  OBVIOUS
<1>3. PICK d : d = Round8(c)
  OBVIOUS
<1>4. PICK e : e = Round8(d)
  OBVIOUS
<1>5. PICK g : g = Round8(e)
  OBVIOUS
<1>6. PICK h : h = Round8(g)
  OBVIOUS
<1>7. PICK i : i = Round8(h)
  OBVIOUS
<1>8. PICK j : j = Round8(i)
  OBVIOUS
<1>9. PICK f : f = [n \in 0 .. 8 |-> CASE n = 0 -> a [] n = 1 -> b [] n = 2 -> c [] n = 3 -> d
                                       [] n = 4 -> e [] n = 5 -> g [] n = 6 -> h [] n = 7 -> i
                                       [] n = 8 -> j]
  OBVIOUS
<1>10. /\ f[0] = a /\ f[1] = b /\ f[2] = c /\ f[3] = d /\ f[4] = e
       /\ f[5] = g /\ f[6] = h /\ f[7] = i /\ f[8] = j
  BY <1>9
<1>11. ASSUME NEW n \in 0 .. 8 PROVE f[n] = IF n = 0 THEN a ELSE Round8(f[n - 1])
  <2>1. CASE n = 0
    BY <1>10, <2>1
  <2>2. CASE n # 0
    <3>1. n - 1 \in 0 .. 7 /\ n = (n - 1) + 1
      BY <2>2
    <3>2. \A k \in 0 .. 7 : f[k + 1] = Round8(f[k])
      BY <1>1, <1>2, <1>3, <1>4, <1>5, <1>6, <1>7, <1>8, <1>10
    <3>3. f[n] = Round8(f[n - 1])
      BY <3>1, <3>2, Zenon
    <3>4. QED
      BY <2>2, <3>3
  <2>3. QED
    BY <2>1, <2>2
<1>12. f = [n \in 0 .. 8 |-> f[n]]
  BY <1>9
<1>13. QED
  BY <1>11, <1>12

LEMMA Rounds16 ==
  ASSUME NEW a
  PROVE  \E f : f = [n \in 0 .. 8 |-> IF n = 0 THEN a ELSE Round16(f[n - 1])]
<1>1. PICK b : b = Round16(a)
  OBVIOUS
<1>2. PICK c : c = Round16(b)
  OBVIOUS
<1>3. PICK d : d = Round16(c)
  OBVIOUS
<1>4. PICK e : e = Round16(d)
  OBVIOUS
<1>5. PICK g : g = Round16(e)
  OBVIOUS
<1>6. PICK h : h = Round16(g)
  OBVIOUS
<1>7. PICK i : i = Round16(h)
  OBVIOUS
<1>8. PICK j : j = Round16(i)
  OBVIOUS
<1>9. PICK f : f = [n \in 0 .. 8 |-> CASE n = 0 -> a [] n = 1 -> b [] n = 2 -> c [] n = 3 -> d
                                       [] n = 4 -> e [] n = 5 -> g [] n = 6 -> h [] n = 7 -> i
                                       [] n = 8 -> j]
  OBVIOUS
<1>10. /\ f[0] = a /\ f[1] = b /\ f[2] = c /\ f[3] = d /\ f[4] = e
       /\ f[5] = g /\ f[6] = h /\ f[7] = i /\ f[8] = j
  BY <1>9
<1>11. ASSUME NEW n \in 0 .. 8 PROVE f[n] = IF n = 0 THEN a ELSE Round16(f[n - 1])
  <2>1. CASE n = 0
    BY <1>10, <2>1
  <2>2. CASE n # 0
    <3>1. n - 1 \in 0 .. 7 /\ n = (n - 1) + 1
      BY <2>2
    <3>2. \A k \in 0 .. 7 : f[k + 1] = Round16(f[k])
      BY <1>1, <1>2, <1>3, <1>4, <1>5, <1>6, <1>7, <1>8, <1>10
    <3>3. f[n] = Round16(f[n - 1])
      BY <3>1, <3>2, Zenon
    <3>4. QED
      BY <2>2, <3>3
  <2>3. QED
    BY <2>1, <2>2
<1>12. f = [n \in 0 .. 8 |-> f[n]]
  BY <1>9
<1>13. QED
  BY <1>11, <1>12

\* Eight rounds keep the parity of what they start from, and leave nothing of nothing.
LEMMA Crc8Parity ==
  ASSUME NEW crc \in SUBSET Bits, NEW byte \in SUBSET Bits
  PROVE  /\ crc8_ccitt_update(crc, byte) \in SUBSET Bits
         /\ (Cardinality(crc8_ccitt_update(crc, byte)) + Cardinality(crc)
             + Cardinality(byte)) % 2 = 0
         /\ crc = byte => crc8_ccitt_update(crc, byte) = {}
<1>1. PICK a : a = Xor(crc, byte)
  OBVIOUS
<1>2. PICK f : /\ f = [n \in 0 .. 8 |-> IF n = 0 THEN a ELSE Round8(f[n - 1])]
               /\ crc8_ccitt_update(crc, byte) = f[8]
  <2> DEFINE after == CHOOSE f : f = [n \in 0 .. 8 |-> IF n = 0 THEN Xor(crc, byte)
                                                    ELSE Round8(f[n - 1])]
  <2>1. \E f : f = [n \in 0 .. 8 |-> IF n = 0 THEN Xor(crc, byte) ELSE Round8(f[n - 1])]
    BY Rounds8, Zenon
  <2>2. after = [n \in 0 .. 8 |-> IF n = 0 THEN Xor(crc, byte) ELSE Round8(after[n - 1])]
    BY <2>1, Zenon
  <2>3. crc8_ccitt_update(crc, byte) = after[8]
    BY Zenon DEF crc8_ccitt_update
  <2> HIDE DEF after
  <2>4. after = [n \in 0 .. 8 |-> IF n = 0 THEN a ELSE Round8(after[n - 1])]
    BY <1>1, <2>2
  <2>5. QED
    BY <2>3, <2>4
<1>3. f[0] = a /\ \A n \in 0 .. 7 : f[n + 1] = Round8(f[n])
  <2>1. \A n \in 0 .. 8 : f[n] = IF n = 0 THEN a ELSE Round8(f[n - 1])
    BY <1>2
  <2>2. 0 \in 0 .. 8 /\ \A n \in 0 .. 7 : n + 1 \in 0 .. 8 /\ n + 1 # 0 /\ (n + 1) - 1 = n
    OBVIOUS
  <2>3. QED
    BY <2>1, <2>2
<1>4. /\ IsFiniteSet(crc) /\ IsFiniteSet(byte) /\ a \in SUBSET Bits
  BY <1>1, BitsFinite DEF Xor
<1>5. ASSUME NEW n \in 0 .. 7, f[n] \in SUBSET Bits,
             (Cardinality(f[n]) + Cardinality(a)) % 2 = 0
      PROVE  /\ f[n + 1] \in SUBSET Bits
             /\ (Cardinality(f[n + 1]) + Cardinality(a)) % 2 = 0
  <2>1. /\ f[n + 1] \in SUBSET Bits
        /\ (Cardinality(f[n + 1]) + Cardinality(f[n])) % 2 = 0
    BY <1>3, <1>5, Round8Parity
  <2>2. Cardinality(f[n + 1]) \in Nat /\ Cardinality(f[n]) \in Nat /\ Cardinality(a) \in Nat
    BY <1>4, <1>5, <2>1, BitsFinite
  <2>3. \A x, y, z \in Nat : (x + y) % 2 = 0 /\ (y + z) % 2 = 0 => (x + z) % 2 = 0
    OBVIOUS
  <2>4. QED
    BY <1>5, <2>1, <2>2, <2>3, Zenon
<1>6. f[0] \in SUBSET Bits /\ (Cardinality(f[0]) + Cardinality(a)) % 2 = 0
  <2>1. Cardinality(a) \in Nat
    BY <1>4, BitsFinite
  <2>2. QED
    BY <1>3, <1>4, <2>1
<1>7. f[8] \in SUBSET Bits /\ (Cardinality(f[8]) + Cardinality(a)) % 2 = 0
  BY <1>5, <1>6
<1>8. (Cardinality(f[8]) + Cardinality(crc) + Cardinality(byte)) % 2 = 0
  <2>1. /\ Cardinality(a) \in Nat /\ Cardinality(crc) \in Nat /\ Cardinality(byte) \in Nat
        /\ (Cardinality(a) + Cardinality(crc) + Cardinality(byte)) % 2 = 0
    BY <1>1, <1>4, XorParity
  <2>2. Cardinality(f[8]) \in Nat
    BY <1>7, BitsFinite
  <2>3. \A w, x, y, z \in Nat : (w + x) % 2 = 0 /\ (x + y + z) % 2 = 0 => (w + y + z) % 2 = 0
    OBVIOUS
  <2>4. QED
    BY <1>7, <2>1, <2>2, <2>3, Zenon
<1>9. ASSUME crc = byte PROVE f[8] = {}
  <2>1. f[0] = {}
    BY <1>1, <1>3, <1>9 DEF Xor
  <2>2. Round8({}) = {}
    BY DEF Round8, ShiftLeft
  <2>3. \A n \in 0 .. 7 : f[n] = {} => f[n + 1] = {}
    BY <1>3, <2>2
  <2>4. QED
    BY <2>1, <2>3
<1>10. QED
  BY <1>2, <1>7, <1>8, <1>9

LEMMA Crc16Parity ==
  ASSUME NEW crc \in SUBSET Register, NEW byte \in SUBSET Bits
  PROVE  /\ crc16_update(crc, byte) \in SUBSET Register
         /\ (Cardinality(crc16_update(crc, byte)) + Cardinality(crc)
             + Cardinality(byte)) % 2 = 0
<1>1. PICK a : a = Xor(crc, byte)
  OBVIOUS
<1>2. PICK f : /\ f = [n \in 0 .. 8 |-> IF n = 0 THEN a ELSE Round16(f[n - 1])]
               /\ crc16_update(crc, byte) = f[8]
  <2> DEFINE after == CHOOSE f : f = [n \in 0 .. 8 |-> IF n = 0 THEN Xor(crc, byte)
                                                    ELSE Round16(f[n - 1])]
  <2>1. \E f : f = [n \in 0 .. 8 |-> IF n = 0 THEN Xor(crc, byte) ELSE Round16(f[n - 1])]
    BY Rounds16, Zenon
  <2>2. after = [n \in 0 .. 8 |-> IF n = 0 THEN Xor(crc, byte) ELSE Round16(after[n - 1])]
    BY <2>1, Zenon
  <2>3. crc16_update(crc, byte) = after[8]
    BY Zenon DEF crc16_update
  <2> HIDE DEF after
  <2>4. after = [n \in 0 .. 8 |-> IF n = 0 THEN a ELSE Round16(after[n - 1])]
    BY <1>1, <2>2
  <2>5. QED
    BY <2>3, <2>4
<1>3. f[0] = a /\ \A n \in 0 .. 7 : f[n + 1] = Round16(f[n])
  <2>1. \A n \in 0 .. 8 : f[n] = IF n = 0 THEN a ELSE Round16(f[n - 1])
    BY <1>2
  <2>2. 0 \in 0 .. 8 /\ \A n \in 0 .. 7 : n + 1 \in 0 .. 8 /\ n + 1 # 0 /\ (n + 1) - 1 = n
    OBVIOUS
  <2>3. QED
    BY <2>1, <2>2
<1>4. /\ IsFiniteSet(crc) /\ IsFiniteSet(byte) /\ a \in SUBSET Register
  <2>1. byte \in SUBSET Register
    BY BitsFinite
  <2>2. QED
    BY <1>1, <2>1, RegisterFinite DEF Xor
<1>5. ASSUME NEW n \in 0 .. 7, f[n] \in SUBSET Register,
             (Cardinality(f[n]) + Cardinality(a)) % 2 = 0
      PROVE  /\ f[n + 1] \in SUBSET Register
             /\ (Cardinality(f[n + 1]) + Cardinality(a)) % 2 = 0
  <2>1. /\ f[n + 1] \in SUBSET Register
        /\ (Cardinality(f[n + 1]) + Cardinality(f[n])) % 2 = 0
    BY <1>3, <1>5, Round16Parity
  <2>2. Cardinality(f[n + 1]) \in Nat /\ Cardinality(f[n]) \in Nat /\ Cardinality(a) \in Nat
    BY <1>4, <1>5, <2>1, RegisterFinite
  <2>3. \A x, y, z \in Nat : (x + y) % 2 = 0 /\ (y + z) % 2 = 0 => (x + z) % 2 = 0
    OBVIOUS
  <2>4. QED
    BY <1>5, <2>1, <2>2, <2>3, Zenon
<1>6. f[0] \in SUBSET Register /\ (Cardinality(f[0]) + Cardinality(a)) % 2 = 0
  <2>1. Cardinality(a) \in Nat
    BY <1>4, RegisterFinite
  <2>2. QED
    BY <1>3, <1>4, <2>1
<1>7. f[8] \in SUBSET Register /\ (Cardinality(f[8]) + Cardinality(a)) % 2 = 0
  BY <1>5, <1>6
<1>8. (Cardinality(f[8]) + Cardinality(crc) + Cardinality(byte)) % 2 = 0
  <2>1. /\ Cardinality(a) \in Nat /\ Cardinality(crc) \in Nat /\ Cardinality(byte) \in Nat
        /\ (Cardinality(a) + Cardinality(crc) + Cardinality(byte)) % 2 = 0
    BY <1>1, <1>4, XorParity
  <2>2. Cardinality(f[8]) \in Nat
    BY <1>7, RegisterFinite
  <2>3. \A w, x, y, z \in Nat : (w + x) % 2 = 0 /\ (x + y + z) % 2 = 0 => (w + y + z) % 2 = 0
    OBVIOUS
  <2>4. QED
    BY <1>7, <2>1, <2>2, <2>3, Zenon
<1>9. QED
  BY <1>2, <1>7, <1>8

-----------------------------------------------------------------------------
(***************************************************************************)
(* What is sent and what is received.                                      *)
(***************************************************************************)
\* A byte flips the parity of the sum as often as it has bits.
LEMMA UpdateParity ==
  ASSUME bus \in Buses, NEW crc \in SUBSET Initial, NEW byte \in SUBSET Bits
  PROVE  /\ update(crc, byte) \in SUBSET Initial
         /\ (Cardinality(update(crc, byte)) + Cardinality(crc) + Cardinality(byte)) % 2 = 0
<1>1. CASE bus = "I2C"
  <2>1. Initial = Bits /\ update(crc, byte) = crc8_ccitt_update(crc, byte)
    BY <1>1 DEF Initial, update
  <2>2. QED
    BY <2>1, Crc8Parity, Zenon
<1>2. CASE bus = "RS485"
  <2>1. Initial = Register /\ update(crc, byte) = crc16_update(crc, byte)
    BY <1>2 DEF Initial, update, Register
  <2>2. QED
    BY <2>1, Crc16Parity, Zenon
<1>3. QED
  BY <1>1, <1>2 DEF Buses

\* Two bytes have together as many bits as the number they make.
LEMMA JoinedSize ==
  ASSUME NEW low \in SUBSET Bits, NEW high \in SUBSET Bits,
         NEW a, a = low \cup { i + 8 : i \in high }
  PROVE  /\ Cardinality(low) \in Nat /\ Cardinality(high) \in Nat
         /\ Cardinality(a) = Cardinality(low) + Cardinality(high)
<1>1. PICK s : s = { i + 8 : i \in high }
  OBVIOUS
<1>2. /\ IsFiniteSet(low) /\ IsFiniteSet(high)
      /\ Cardinality(low) \in Nat /\ Cardinality(high) \in Nat
  BY BitsFinite
<1>3. IsFiniteSet(s) /\ Cardinality(s) = Cardinality(high)
  <2>1. high \in SUBSET Int /\ 8 \in Int
    BY DEF Bits
  <2>2. QED
    BY <1>1, <1>2, <2>1, MovedSize
<1>4. low \cap s = {}
  <2>1. \A i \in high : i + 8 \notin low
    BY DEF Bits
  <2>2. QED
    BY <1>1, <2>1
<1>5. Cardinality(low \cup s) = Cardinality(low) + Cardinality(s) - Cardinality(low \cap s)
  BY <1>2, <1>3, FS_Union
<1>6. Cardinality({}) = 0
  BY FS_EmptySet
<1>7. QED
  BY <1>1, <1>2, <1>3, <1>4, <1>5, <1>6

\* How many CRC bytes there are, and that they hold the CRC.
CrcCount == IF bus = "I2C" THEN 1 ELSE 2

LEMMA CrcBytesHold ==
  ASSUME bus \in Buses, NEW crc \in SUBSET Initial
  PROVE  /\ Len(CrcBytes(crc)) = CrcCount
         /\ \A i \in 1 .. CrcCount : CrcBytes(crc)[i] \in SUBSET Bits
         /\ bus = "I2C" => CrcBytes(crc)[1] = crc
         /\ bus = "RS485" => crc = CrcBytes(crc)[1] \cup { i + 8 : i \in CrcBytes(crc)[2] }
<1>1. CASE bus = "I2C"
  <2>1. CrcBytes(crc) = <<crc>> /\ CrcCount = 1 /\ Initial = Bits
    BY <1>1 DEF CrcBytes, CrcCount, Initial
  <2>2. Len(<<crc>>) = 1 /\ <<crc>>[1] = crc
    OBVIOUS
  <2>3. QED
    BY <1>1, <2>1, <2>2
<1>2. CASE bus = "RS485"
  <2>1. CrcCount = 2 /\ Initial = Register
    BY <1>2 DEF CrcCount, Initial, Register
  <2>2. PICK low, high : low = LowByte(crc) /\ high = HighByte(crc)
    OBVIOUS
  <2>3. CrcBytes(crc) = <<low, high>>
    BY <1>2, <2>2 DEF CrcBytes
  <2>4. Len(<<low, high>>) = 2 /\ <<low, high>>[1] = low /\ <<low, high>>[2] = high
    OBVIOUS
  <2>5. low \in SUBSET Bits /\ high \in SUBSET Bits
    BY <2>1, <2>2 DEF LowByte, HighByte, ShiftRight, Bits, Register
  <2>6. \A n : n \in crc <=> n \in low \/ \E i \in high : n = i + 8
    <3>1. ASSUME NEW n \in crc PROVE n \in low \/ \E i \in high : n = i + 8
      <4>1. n \in 0 .. 15
        BY <2>1 DEF Register
      <4>2. CASE n <= 7
        BY <2>2, <4>1, <4>2 DEF LowByte, Bits
      <4>3. CASE n >= 8
        <5>1. n - 8 \in high /\ n = (n - 8) + 8
          BY <2>2, <4>1, <4>3 DEF HighByte, ShiftRight
        <5>2. QED
          BY <5>1
      <4>4. QED
        BY <4>1, <4>2, <4>3
    <3>2. \A n \in low : n \in crc
      BY <2>2 DEF LowByte
    <3>3. ASSUME NEW i \in high PROVE i + 8 \in crc
      <4>1. PICK j \in crc : j >= 8 /\ i = j - 8
        BY <2>2 DEF HighByte, ShiftRight
      <4>2. j \in 0 .. 15
        BY <2>1 DEF Register
      <4>3. QED
        BY <4>1, <4>2
    <3>4. QED
      BY <3>1, <3>2, <3>3, Zenon
  <2>7. crc = low \cup { i + 8 : i \in high }
    BY <2>6, Zenon
  <2>8. QED
    BY <1>2, <2>1, <2>3, <2>4, <2>5, <2>7
<1>3. QED
  BY <1>1, <1>2 DEF Buses

-----------------------------------------------------------------------------
(***************************************************************************)
(* The inductive invariant: what noise did to the parity of what arrived.  *)
(***************************************************************************)
CrcTypes ==
  /\ bus \in Buses /\ message \in Messages
  /\ position \in 0 .. Len(message) + CrcCount
  /\ sum \in SUBSET Initial /\ check \in SUBSET Initial
  /\ crcReceived \in Seq(SUBSET Bits)
  /\ Len(crcReceived) = IF position <= Len(message) THEN 0 ELSE position - Len(message)
  /\ flipped \in Nat

\* An odd number of flipped bits shows in the sums and the CRC bytes.
Parity ==
  /\ Len(crcReceived) = 0 => (Cardinality(sum) + Cardinality(check) + flipped) % 2 = 0
  /\ Len(crcReceived) = 1 =>
       (Cardinality(sum) + Cardinality(CrcBytes(sum)[1]) + Cardinality(check)
        + Cardinality(crcReceived[1]) + flipped) % 2 = 0
  /\ Len(crcReceived) = 2 =>
       (Cardinality(check) + Cardinality(crcReceived[1]) + Cardinality(crcReceived[2])
        + flipped) % 2 = 0

\* Without noise both sides have the same.
Undisturbed ==
  flipped = 0 =>
    check = sum /\ \A i \in 1 .. Len(crcReceived) : crcReceived[i] = CrcBytes(sum)[i]

CrcInv == CrcTypes /\ Parity /\ Undisturbed

LEMMA CrcInitInv == CrcInit => CrcInv
<1>1. SUFFICES ASSUME CrcInit PROVE CrcInv
  OBVIOUS
<1>2. /\ bus \in Buses /\ message \in Messages /\ position = 0 /\ flipped = 0
      /\ sum = Initial /\ check = Initial /\ crcReceived = << >>
  BY <1>1 DEF CrcInit
<1>3. Len(message) \in Nat /\ CrcCount \in Nat
  BY <1>2, CrcAssumption DEF CrcCount
<1>4. crcReceived \in Seq(SUBSET Bits) /\ Len(crcReceived) = 0
  BY <1>2
<1>5. CrcTypes
  BY <1>2, <1>3, <1>4 DEF CrcTypes
<1>6. Initial \in SUBSET Register
  BY DEF Initial, Register, Bits
<1>7. Parity
  <2>1. Cardinality(sum) \in Nat /\ Cardinality(check) = Cardinality(sum) /\ flipped = 0
    BY <1>2, <1>6, RegisterFinite
  <2>2. (Cardinality(sum) + Cardinality(check) + flipped) % 2 = 0
    BY <2>1
  <2>3. QED
    BY <1>4, <2>2 DEF Parity
<1>8. Undisturbed
  BY <1>2, <1>4 DEF Undisturbed
<1>9. QED
  BY <1>5, <1>7, <1>8 DEF CrcInv

\* Every sum is a register.
LEMMA SumsFinite ==
  ASSUME NEW a \in SUBSET Initial
  PROVE  a \in SUBSET Register /\ IsFiniteSet(a) /\ Cardinality(a) \in Nat
<1>1. a \in SUBSET Register
  BY DEF Initial, Register, Bits
<1>2. QED
  BY <1>1, RegisterFinite

\* Noise that has flipped nothing is none.
LEMMA NoiseFlips ==
  ASSUME NEW noise \in SUBSET Bits, NEW b \in SUBSET Bits
  PROVE  /\ Cardinality(noise) \in Nat
         /\ Xor(b, noise) \in SUBSET Bits
         /\ Cardinality(Xor(b, noise)) \in Nat /\ Cardinality(b) \in Nat
         /\ (Cardinality(Xor(b, noise)) + Cardinality(b) + Cardinality(noise)) % 2 = 0
         /\ Cardinality(noise) = 0 => Xor(b, noise) = b
<1>1. IsFiniteSet(noise) /\ IsFiniteSet(b) /\ Cardinality(noise) \in Nat
  BY BitsFinite
<1>2. Cardinality(noise) = 0 => noise = {}
  BY <1>1, FS_EmptySet
<1>3. Xor(b, {}) = b
  BY DEF Xor
<1>4. Xor(b, noise) \in SUBSET Bits
  BY DEF Xor
<1>5. QED
  BY <1>1, <1>2, <1>3, <1>4, XorParity

LEMMA ByteArrivesInv ==
  ASSUME CrcInv, ByteArrives
  PROVE  CrcInv'
<1>1. /\ bus \in Buses /\ message \in Messages /\ position \in Nat /\ position < Len(message)
      /\ sum \in SUBSET Initial /\ check \in SUBSET Initial
      /\ crcReceived \in Seq(SUBSET Bits) /\ Len(crcReceived) = 0 /\ flipped \in Nat
      /\ Len(message) \in Nat /\ CrcCount \in Nat
  BY CrcAssumption DEF CrcInv, CrcTypes, ByteArrives, CrcCount
<1>2. PICK b : b = message[position + 1]
  OBVIOUS
<1>3. b \in SUBSET Bits
  <2>1. message \in Seq(SUBSET Bits)
    BY <1>1, CrcAssumption
  <2>2. position + 1 \in 1 .. Len(message)
    BY <1>1
  <2>3. QED
    BY <1>2, <2>1, <2>2
<1>4. PICK noise \in SUBSET Bits :
        /\ sum' = update(sum, b) /\ check' = update(check, Xor(b, noise))
        /\ flipped' = flipped + Cardinality(noise)
  BY <1>2 DEF ByteArrives, Noise
<1>5. /\ position' = position + 1
      /\ bus' = bus /\ message' = message /\ crcReceived' = crcReceived
  BY DEF ByteArrives
<1>6. /\ Cardinality(noise) \in Nat /\ Xor(b, noise) \in SUBSET Bits
      /\ Cardinality(Xor(b, noise)) \in Nat /\ Cardinality(b) \in Nat
      /\ (Cardinality(Xor(b, noise)) + Cardinality(b) + Cardinality(noise)) % 2 = 0
      /\ Cardinality(noise) = 0 => Xor(b, noise) = b
  BY <1>3, <1>4, NoiseFlips
<1>7. /\ sum' \in SUBSET Initial
      /\ (Cardinality(sum') + Cardinality(sum) + Cardinality(b)) % 2 = 0
  BY <1>1, <1>3, <1>4, UpdateParity
<1>8. /\ check' \in SUBSET Initial
      /\ (Cardinality(check') + Cardinality(check) + Cardinality(Xor(b, noise))) % 2 = 0
  BY <1>1, <1>4, <1>6, UpdateParity
<1>9. flipped' \in Nat
  BY <1>1, <1>4, <1>6
<1>10. Initial' = Initial /\ CrcCount' = CrcCount
  BY <1>5 DEF Initial, CrcCount
<1>11. CrcTypes'
  <2>1. position' \in 0 .. Len(message) + CrcCount /\ position' <= Len(message)
    BY <1>1, <1>5
  <2>2. QED
    BY <1>1, <1>5, <1>7, <1>8, <1>9, <1>10, <2>1 DEF CrcTypes
<1>12. Parity'
  <2>1. (Cardinality(sum) + Cardinality(check) + flipped) % 2 = 0
    BY <1>1 DEF CrcInv, Parity
  <2>2. /\ Cardinality(sum) \in Nat /\ Cardinality(sum') \in Nat
        /\ Cardinality(check) \in Nat /\ Cardinality(check') \in Nat
    BY <1>1, <1>7, <1>8, SumsFinite
  <2>3. PICK s, s2, c, c2, n, x, y \in Nat :
          /\ s = Cardinality(sum) /\ s2 = Cardinality(sum')
          /\ c = Cardinality(check) /\ c2 = Cardinality(check')
          /\ n = Cardinality(noise) /\ x = Cardinality(Xor(b, noise)) /\ y = Cardinality(b)
    BY <1>6, <2>2
  <2>4. (s2 + c2 + (flipped + n)) % 2 = 0
    <3>1. /\ (s + c + flipped) % 2 = 0 /\ (s2 + s + y) % 2 = 0
          /\ (c2 + c + x) % 2 = 0 /\ (x + y + n) % 2 = 0
      BY <1>6, <1>7, <1>8, <2>1, <2>3
    <3>2. QED
      BY <1>1, <3>1
  <2>5. Len(crcReceived') = 0
    BY <1>1, <1>5
  <2>6. QED
    BY <1>4, <2>3, <2>4, <2>5 DEF Parity
<1>13. Undisturbed'
  <2>1. SUFFICES ASSUME flipped' = 0 PROVE check' = sum'
    BY <1>1, <1>5 DEF Undisturbed
  <2>2. flipped = 0 /\ Cardinality(noise) = 0
    BY <1>1, <1>4, <1>6, <2>1
  <2>3. check = sum
    BY <2>2 DEF CrcInv, Undisturbed
  <2>4. QED
    BY <1>4, <1>6, <2>2, <2>3
<1>14. QED
  BY <1>11, <1>12, <1>13 DEF CrcInv

LEMMA CrcByteArrivesInv ==
  ASSUME CrcInv, CrcByteArrives
  PROVE  CrcInv'
<1>1. /\ bus \in Buses /\ message \in Messages /\ position \in Nat
      /\ position \in Len(message) .. FrameLength - 1
      /\ sum \in SUBSET Initial /\ check \in SUBSET Initial
      /\ crcReceived \in Seq(SUBSET Bits) /\ flipped \in Nat
      /\ Len(message) \in Nat /\ CrcCount \in {1, 2}
  BY CrcAssumption DEF CrcInv, CrcTypes, CrcByteArrives, CrcCount
<1>2. /\ Len(CrcBytes(sum)) = CrcCount
      /\ \A i \in 1 .. CrcCount : CrcBytes(sum)[i] \in SUBSET Bits
      /\ bus = "I2C" => CrcBytes(sum)[1] = sum
      /\ bus = "RS485" => sum = CrcBytes(sum)[1] \cup { i + 8 : i \in CrcBytes(sum)[2] }
  BY <1>1, CrcBytesHold
<1>3. PICK n : n = position - Len(message)
  OBVIOUS
<1>4. n \in 0 .. CrcCount - 1 /\ Len(crcReceived) = n
  <2>1. FrameLength = Len(message) + CrcCount
    BY <1>2 DEF FrameLength
  <2>2. Len(crcReceived) = IF position <= Len(message) THEN 0 ELSE position - Len(message)
    BY DEF CrcInv, CrcTypes
  <2>3. QED
    BY <1>1, <1>3, <2>1, <2>2
<1>5. PICK b : b = CrcBytes(sum)[n + 1]
  OBVIOUS
<1>6. b \in SUBSET Bits
  BY <1>1, <1>2, <1>4, <1>5
<1>7. PICK noise \in SUBSET Bits :
        /\ crcReceived' = Append(crcReceived, Xor(b, noise))
        /\ flipped' = flipped + Cardinality(noise)
  BY <1>3, <1>5 DEF CrcByteArrives, Noise
<1>8. /\ position' = position + 1
      /\ bus' = bus /\ message' = message /\ sum' = sum /\ check' = check
  BY DEF CrcByteArrives
<1>9. PICK r : r = Xor(b, noise)
  OBVIOUS
<1>10. /\ Cardinality(noise) \in Nat /\ r \in SUBSET Bits
       /\ Cardinality(r) \in Nat /\ Cardinality(b) \in Nat
       /\ (Cardinality(r) + Cardinality(b) + Cardinality(noise)) % 2 = 0
       /\ Cardinality(noise) = 0 => r = b
  BY <1>6, <1>7, <1>9, NoiseFlips
<1>11. /\ crcReceived' \in Seq(SUBSET Bits) /\ Len(crcReceived') = n + 1
       /\ crcReceived'[n + 1] = r
       /\ \A i \in 1 .. n : crcReceived'[i] = crcReceived[i]
  <2>1. crcReceived' = Append(crcReceived, r)
    BY <1>7, <1>9
  <2>2. QED
    BY <1>1, <1>4, <1>10, <2>1
<1>12. flipped' \in Nat
  BY <1>1, <1>7, <1>10
<1>13. Initial' = Initial /\ CrcCount' = CrcCount /\ CrcBytes(sum)' = CrcBytes(sum)
  BY <1>8 DEF Initial, CrcCount, CrcBytes
<1>14. CrcTypes'
  <2>1. /\ position' \in 0 .. Len(message) + CrcCount
        /\ Len(crcReceived') = IF position' <= Len(message) THEN 0 ELSE position' - Len(message)
    <3>1. position' = Len(message) + (n + 1) /\ n \in Nat /\ n + 1 <= CrcCount
      BY <1>1, <1>3, <1>4, <1>8
    <3>2. QED
      BY <1>1, <1>11, <3>1
  <2>2. QED
    BY <1>1, <1>8, <1>11, <1>12, <1>13, <2>1 DEF CrcTypes
<1>15. Parity'
  <2>1. PICK s, c, x, y, e \in Nat :
          /\ s = Cardinality(sum) /\ c = Cardinality(check)
          /\ x = Cardinality(r) /\ y = Cardinality(b) /\ e = Cardinality(noise)
    BY <1>1, <1>10, SumsFinite
  <2>2. CASE n = 0
    <3>1. (s + c + flipped) % 2 = 0
      BY <1>4, <2>1, <2>2 DEF CrcInv, Parity
    <3>2. (x + y + e) % 2 = 0
      BY <1>10, <2>1
    <3>3. (s + y + c + x + (flipped + e)) % 2 = 0
      BY <1>1, <3>1, <3>2
    <3>4. Len(crcReceived') = 1 /\ crcReceived'[1] = r /\ b = CrcBytes(sum)[1]
      BY <1>5, <1>11, <2>2
    <3>5. QED
      BY <1>7, <1>8, <1>13, <2>1, <3>3, <3>4 DEF Parity
  <2>3. CASE n = 1
    <3>1. PICK b1, r1 : b1 = CrcBytes(sum)[1] /\ r1 = crcReceived[1]
      OBVIOUS
    <3>2. b1 \in SUBSET Bits /\ r1 \in SUBSET Bits /\ bus = "RS485"
      <4>1. CrcCount = 2 /\ bus = "RS485"
        BY <1>1, <1>4, <2>3 DEF CrcCount, Buses
      <4>2. b1 \in SUBSET Bits
        <5>1. 1 \in 1 .. CrcCount
          BY <4>1
        <5>2. QED
          BY <1>2, <3>1, <5>1, Zenon
      <4>3. r1 \in SUBSET Bits
        <5>1. 1 \in 1 .. Len(crcReceived) /\ crcReceived \in Seq(SUBSET Bits)
          BY <1>1, <1>4, <2>3
        <5>2. crcReceived[1] \in SUBSET Bits
          BY <5>1
        <5>3. QED
          BY <3>1, <5>2
      <4>4. QED
        BY <4>1, <4>2, <4>3
    <3>3. PICK p, q \in Nat : p = Cardinality(b1) /\ q = Cardinality(r1)
      BY <3>2, BitsFinite
    <3>4. (s + p + c + q + flipped) % 2 = 0
      BY <1>4, <2>1, <2>3, <3>1, <3>3 DEF CrcInv, Parity
    <3>5. s = p + y
      <4>1. sum = b1 \cup { i + 8 : i \in b }
        BY <1>2, <1>5, <2>3, <3>1, <3>2
      <4>2. Cardinality(sum) = Cardinality(b1) + Cardinality(b)
        BY <1>6, <3>2, <4>1, JoinedSize
      <4>3. QED
        BY <2>1, <3>3, <4>2
    <3>6. (x + y + e) % 2 = 0
      BY <1>10, <2>1
    <3>7. (c + q + x + (flipped + e)) % 2 = 0
      BY <1>1, <3>4, <3>5, <3>6
    <3>8. Len(crcReceived') = 2 /\ crcReceived'[1] = r1 /\ crcReceived'[2] = r
      BY <1>11, <2>3, <3>1
    <3>9. QED
      BY <1>7, <1>8, <2>1, <3>3, <3>7, <3>8 DEF Parity
  <2>4. QED
    BY <1>1, <1>4, <2>2, <2>3
<1>16. Undisturbed'
  <2>1. SUFFICES ASSUME flipped' = 0
                 PROVE  check' = sum'
                        /\ \A i \in 1 .. n + 1 : crcReceived'[i] = CrcBytes(sum)[i]
    BY <1>11, <1>13 DEF Undisturbed
  <2>2. flipped = 0 /\ Cardinality(noise) = 0
    BY <1>1, <1>7, <1>10, <2>1
  <2>3. check = sum /\ \A i \in 1 .. n : crcReceived[i] = CrcBytes(sum)[i]
    BY <1>4, <2>2 DEF CrcInv, Undisturbed
  <2>4. crcReceived'[n + 1] = CrcBytes(sum)[n + 1]
    BY <1>5, <1>10, <1>11, <2>2
  <2>5. \A i \in 1 .. n + 1 : i \in 1 .. n \/ i = n + 1
    BY <1>4
  <2>6. QED
    BY <1>8, <1>11, <2>3, <2>4, <2>5, Zenon
<1>17. QED
  BY <1>14, <1>15, <1>16 DEF CrcInv

LEMMA CrcInvHolds == CrcSpec => []CrcInv
<1>1. CrcInit => CrcInv
  BY CrcInitInv
<1>2. CrcInv /\ [CrcNext]_crcVars => CrcInv'
  <2>1. SUFFICES ASSUME CrcInv, [CrcNext]_crcVars PROVE CrcInv'
    OBVIOUS
  <2>2. CASE ByteArrives
    BY <2>1, <2>2, ByteArrivesInv
  <2>3. CASE CrcByteArrives
    BY <2>1, <2>3, CrcByteArrivesInv
  <2>4. CASE UNCHANGED crcVars
    <3>1. /\ bus' = bus /\ message' = message /\ position' = position /\ sum' = sum
          /\ check' = check /\ crcReceived' = crcReceived /\ flipped' = flipped
      BY <2>4 DEF crcVars
    <3>2. QED
      BY <2>1, <3>1 DEF CrcInv, CrcTypes, Parity, Undisturbed, CrcCount, Initial, CrcBytes
  <2>5. QED
    BY <2>1, <2>2, <2>3, <2>4 DEF CrcNext
<1>3. QED
  BY <1>1, <1>2, PTL DEF CrcSpec

\* A whole frame has arrived, and what is known of it.
LEMMA WholeFrame ==
  ASSUME CrcInv, Arrived
  PROVE  /\ bus \in Buses /\ sum \in SUBSET Initial /\ check \in SUBSET Initial
         /\ flipped \in Nat
         /\ Len(crcReceived) = CrcCount
         /\ \A i \in 1 .. CrcCount : crcReceived[i] \in SUBSET Bits
<1>1. /\ bus \in Buses /\ message \in Messages
      /\ sum \in SUBSET Initial /\ check \in SUBSET Initial /\ flipped \in Nat
      /\ crcReceived \in Seq(SUBSET Bits)
      /\ Len(crcReceived) = IF position <= Len(message) THEN 0 ELSE position - Len(message)
  BY DEF CrcInv, CrcTypes
<1>2. position = Len(message) + CrcCount
  BY <1>1, CrcBytesHold DEF Arrived, FrameLength
<1>3. Len(message) \in Nat /\ CrcCount \in {1, 2}
  BY <1>1, CrcAssumption DEF CrcCount
<1>4. Len(crcReceived) = CrcCount
  BY <1>1, <1>2, <1>3
<1>5. QED
  BY <1>1, <1>4

\* No frame with an odd number of flipped bits, one bit or three among them, is taken for
\* an intact one: on either bus, whatever it says and however long it is.
THEOREM RefusesOddErrors == CrcSpec => []((Arrived /\ flipped % 2 = 1) => ~ Accepts)
<1>1. ASSUME CrcInv, Arrived, Accepts PROVE flipped % 2 = 0
  <2>1. /\ bus \in Buses /\ sum \in SUBSET Initial /\ check \in SUBSET Initial
        /\ flipped \in Nat /\ Len(crcReceived) = CrcCount
        /\ \A i \in 1 .. CrcCount : crcReceived[i] \in SUBSET Bits
    BY <1>1, WholeFrame
  <2>2. PICK s, c \in Nat : s = Cardinality(sum) /\ c = Cardinality(check)
    BY <2>1, SumsFinite
  <2>3. CASE bus = "I2C"
    <3>1. CrcCount = 1 /\ 1 \in 1 .. CrcCount
      BY <2>3 DEF CrcCount
    <3>2. PICK r \in SUBSET Bits : r = crcReceived[1]
      BY <2>1, <3>1, Zenon
    <3>3. PICK x \in Nat : x = Cardinality(r)
      BY <3>2, BitsFinite
    <3>4. CrcBytes(sum)[1] = sum
      BY <2>1, <2>3, CrcBytesHold
    <3>5. (s + s + c + x + flipped) % 2 = 0
      BY <1>1, <2>1, <2>2, <3>1, <3>2, <3>3, <3>4 DEF CrcInv, Parity
    <3>6. update(check, r) = {}
      BY <1>1, <2>3, <3>2 DEF Accepts
    <3>7. (0 + c + x) % 2 = 0
      <4>1. (Cardinality(update(check, r)) + Cardinality(check) + Cardinality(r)) % 2 = 0
        BY <2>1, <3>2, UpdateParity
      <4>2. Cardinality({}) = 0
        BY FS_EmptySet
      <4>3. QED
        BY <2>2, <3>3, <3>6, <4>1, <4>2
    <3>8. QED
      BY <2>1, <3>5, <3>7
  <2>4. CASE bus = "RS485"
    <3>1. CrcCount = 2 /\ 1 \in 1 .. CrcCount /\ 2 \in 1 .. CrcCount
      <4>1. CrcCount = 2
        BY <2>4 DEF CrcCount
      <4>2. QED
        BY <4>1
    <3>2. PICK q, r \in SUBSET Bits : q = crcReceived[1] /\ r = crcReceived[2]
      BY <2>1, <3>1, Zenon
    <3>3. PICK x, y \in Nat : x = Cardinality(q) /\ y = Cardinality(r)
      BY <3>2, BitsFinite
    <3>4. (c + x + y + flipped) % 2 = 0
      BY <1>1, <2>1, <2>2, <3>1, <3>2, <3>3 DEF CrcInv, Parity
    <3>5. check = q \cup { i + 8 : i \in r }
      BY <1>1, <2>4, <3>2 DEF Accepts
    <3>6. c = x + y
      <4>1. Cardinality(check) = Cardinality(q) + Cardinality(r)
        BY <3>2, <3>5, JoinedSize
      <4>2. QED
        BY <2>2, <3>3, <4>1
    <3>7. (c + c + flipped) % 2 = 0
      BY <3>4, <3>6
    <3>8. QED
      BY <2>1, <3>7
  <2>5. QED
    BY <2>1, <2>3, <2>4 DEF Buses
<1>2. CrcInv => ((Arrived /\ flipped % 2 = 1) => ~ Accepts)
  BY <1>1
<1>3. QED
  BY <1>2, CrcInvHolds, PTL

\* The noise in question flips an odd number of bits, if any.
OddFlips == \A b \in Buses, m \in Messages : \A n \in Flips(b, m) : n = 0 \/ n % 2 = 1

\* PROTOCOL.md: the CRC protects against all 1-bit and 3-bit errors. It does in messages
\* of every length: where noise flips an odd number of bits, no damaged frame is accepted.
THEOREM RefusesDamagedCorrect ==
  ASSUME OddFlips
  PROVE  CrcSpec => []RefusesDamaged
<1>1. CrcInv /\ ((Arrived /\ flipped % 2 = 1) => ~ Accepts) => RefusesDamaged
  BY DEF RefusesDamaged, OddFlips, CrcInv, CrcTypes
<1>2. QED
  BY <1>1, CrcInvHolds, RefusesOddErrors, PTL

\* Sender and receiver compute the same CRC and put its bytes where the other looks for
\* them: every frame without an error is accepted, on either bus and however long it is.
THEOREM AcceptsIntactCorrect == CrcSpec => []AcceptsIntact
<1>1. ASSUME CrcInv, Arrived, flipped = 0 PROVE Accepts
  <2>1. /\ bus \in Buses /\ sum \in SUBSET Initial /\ check \in SUBSET Initial
        /\ Len(crcReceived) = CrcCount
    BY <1>1, WholeFrame
  <2>2. check = sum /\ \A i \in 1 .. CrcCount : crcReceived[i] = CrcBytes(sum)[i]
    BY <1>1, <2>1 DEF CrcInv, Undisturbed
  <2>3. CASE bus = "I2C"
    <3>1. 1 \in 1 .. CrcCount /\ Initial = Bits
      BY <2>3 DEF CrcCount, Initial
    <3>2. CrcBytes(sum)[1] = sum
      BY <2>1, <2>3, CrcBytesHold
    <3>3. crcReceived[1] = sum
      BY <2>2, <3>1, <3>2
    <3>4. update(check, crcReceived[1]) = crc8_ccitt_update(sum, sum)
      BY <2>2, <2>3, <3>3 DEF update
    <3>5. crc8_ccitt_update(sum, sum) = {}
      BY <2>1, <3>1, Crc8Parity
    <3>6. QED
      BY <2>3, <3>4, <3>5 DEF Accepts
  <2>4. CASE bus = "RS485"
    <3>1. CrcCount = 2
      BY <2>4 DEF CrcCount
    <3>2. crcReceived[1] = CrcBytes(sum)[1] /\ crcReceived[2] = CrcBytes(sum)[2]
      BY <2>2, <3>1
    <3>3. sum = CrcBytes(sum)[1] \cup { i + 8 : i \in CrcBytes(sum)[2] }
      BY <2>1, <2>4, CrcBytesHold
    <3>4. bus # "I2C"
      BY <2>4
    <3>5. QED
      BY <2>2, <3>2, <3>3, <3>4, Zenon DEF Accepts
  <2>5. QED
    BY <2>1, <2>3, <2>4 DEF Buses
<1>2. CrcInv => AcceptsIntact
  BY <1>1 DEF AcceptsIntact
<1>3. QED
  BY <1>2, CrcInvHolds, PTL
=============================================================================
