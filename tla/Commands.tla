-------------------------------- MODULE Commands --------------------------------
(***************************************************************************)
(* How a command becomes a reply: BusCallback, handleCommand and           *)
(* processCommand work in the one buffer of the driver, in which the reply *)
(* takes the place of the request while it is still being read.            *)
(*                                                                         *)
(* This is about the reply.  Of commitToFlash only the outcome is here,    *)
(* its steps are in WriteFlash; what SET_ADDRESS and SET_CHILD_SELECT do   *)
(* besides is in ChildBus.                                                 *)
(***************************************************************************)
EXTENDS Integers, Sequences

CONSTANTS
  Boards,              \* of Config.h, for each of which the bootloader is built
  MAX_PACKET_LENGTH,
  BYTE,                \* the number of values of a byte
  Arguments,           \* the arguments that are tried: sequences of bytes
  Flashes,             \* what readByte may return, by address
  FLASH_APP_OFFSET(_), ApplicationSize(_),   \* of a board
  BOARD_INFO, BOARD_INFO_SIZE,     \* where the board info is, and its size
  FLASH_ERASE_SIZE,    \* the size of writeBuffer
  WriteErrors,         \* what writePage may return besides 0
  MaxErase,            \* where eraseCount saturates (0xff)
  MaxErased,           \* bound: how many pages are erased before a FINALIZE_FLASH
  SerialNumber         \* the bytes of it in the order the MCU has them

ADDR == BYTE * BYTE    \* addresses have two bytes
Byte == 0 .. BYTE - 1

GET_PROTOCOL_VERSION == 0
SET_ADDRESS == 1
POWER_UP_DISPLAY == 2
GET_HARDWARE_INFO == 3
GET_SERIAL_NUMBER == 4
START_APPLICATION == 5
WRITE_FLASH == 6
FINALIZE_FLASH == 7
READ_FLASH == 8
GET_HARDWARE_REVISION == 9
GET_NUM_CHILDREN == 10
SET_CHILD_SELECT == 11
GET_MAX_PACKET_LENGTH == 12
GET_EXTRA_INFO == 13
READ_BOARD_INFO == 14

COMMAND_OK == 0
COMMAND_FAILED == 1
COMMAND_NOT_SUPPORTED == 2
INVALID_TRANSFER == 3
INVALID_CRC == 4
INVALID_ARGUMENTS == 5

ASSUME CommandsAssumption ==
  /\ Boards \subseteq {"interfaceboard", "gphopper"}
  /\ BYTE \in Nat /\ BYTE > READ_BOARD_INFO
  /\ MAX_PACKET_LENGTH \in Byte /\ MAX_PACKET_LENGTH >= 10
  /\ SerialNumber \in Seq(Byte) /\ Len(SerialNumber) <= MAX_PACKET_LENGTH - 5
  /\ \A b \in Boards : FLASH_APP_OFFSET(b) \in Nat /\ ApplicationSize(b) \in 0 .. ADDR - 1
  /\ \A args \in Arguments : args \in Seq(Byte) /\ Len(args) + 3 <= MAX_PACKET_LENGTH
  /\ Flashes \subseteq [0 .. ADDR - 1 -> Byte]
  /\ BOARD_INFO \in Nat /\ BOARD_INFO_SIZE \in Nat
  /\ BOARD_INFO_SIZE >= 5 /\ BOARD_INFO + BOARD_INFO_SIZE <= ADDR
  /\ BYTE > 16                  \* GET_EXTRA_INFO has four bits
  /\ FLASH_ERASE_SIZE \in Nat \ {0}
  /\ WriteErrors \subseteq Byte \ {0}
  /\ MaxErase \in Byte /\ MaxErased \in Nat

VARIABLES
  board,       \* never changes
  flash,       \* what readByte returns
  versions,    \* current and compatible board version, and extra_info
  nextWriteAddress, eraseCount, bootloaderExit,
  data, len,   \* the buffer of the driver
  pc,          \* "idle", "frame" to be checked, "command" to be executed,
               \* "read" in readFlash, "result" known, "reply" ready, "silent",
               \* or "exited" from the loop of runBootloader
  address, count, done,   \* arguments and loop counter of readFlash
  result,      \* the cmd_result
  request,     \* history: the request being served
  expected,    \* history: one past the last byte of the last valid WRITE_FLASH
               \* that has been served, as an address; 0 before
  erased       \* history: pages erased since the reset, or since the last
               \* FINALIZE_FLASH that was answered OK

local == <<address, count, done, result>>
writing == <<flash, nextWriteAddress, eraseCount, erased>>
fixed == <<board, versions, bootloaderExit, expected, writing>>
commandVars == <<fixed, data, len, pc, local, request>>

\* A byte of the buffer that belongs to an earlier request or reply, or to a
\* CRC: nothing of the reply may depend on it.
Stale == -1

Bus == IF board = "interfaceboard" THEN "I2C" ELSE "RS485"

\* datain and dataout of handleCommand within the buffer, and its maxLen.
datain == 1
dataout == IF Bus = "I2C" THEN 2 ELSE 3
CrcLength == IF Bus = "I2C" THEN 1 ELSE 2
Overhead == dataout + CrcLength
maxLen == MAX_PACKET_LENGTH - Overhead

HwType == IF board = "interfaceboard" THEN 1 ELSE 2
PROTOCOL_VERSION == <<2, 2>>
BL_VERSION == 4
DISPLAY_CONTROLLER_TYPE == 1
NUM_CHILDREN == 1

-----------------------------------------------------------------------------
(***************************************************************************)
(* runBootloader, before its loop: the versions come from the board info,  *)
(* which has a signature, a version of its own, the current and compatible *)
(* board version and the component variations.                             *)
(***************************************************************************)
BOARD_INFO_SIGNATURE == 9
BOARD_INFO_MAJOR_VERSION == 2

BoardInfoByte(f, i) == f[BOARD_INFO + i]

LoadVersions(f) ==
  IF BoardInfoByte(f, 0) = BOARD_INFO_SIGNATURE /\ BoardInfoByte(f, 1) = BOARD_INFO_MAJOR_VERSION
    THEN [current |-> BoardInfoByte(f, 2), compatible |-> BoardInfoByte(f, 3),
          extra |-> BoardInfoByte(f, 4) % 16]
    ELSE [current |-> BYTE - 1, compatible |-> BYTE - 1, extra |-> 0]

NoRequest == [cmd |-> GET_PROTOCOL_VERSION, args |-> << >>, bytes |-> 0, crcOk |-> FALSE]
NoResult == [status |-> COMMAND_OK, len |-> 0]
AllStale == [i \in 0 .. MAX_PACKET_LENGTH - 1 |-> Stale]

Init ==
  /\ board \in Boards
  /\ flash \in Flashes
  /\ versions = LoadVersions(flash)
  /\ nextWriteAddress = 0 /\ eraseCount = 0 /\ bootloaderExit = FALSE
  /\ data = AllStale /\ len = 0
  /\ pc = "idle"
  /\ address = 0 /\ count = 0 /\ done = 0
  /\ result = NoResult
  /\ request = NoRequest
  /\ expected = 0 /\ erased = 0

\* No request is being served any more.
Served ==
  /\ data' = AllStale /\ len' = 0
  /\ pc' = "idle"
  /\ address' = 0 /\ count' = 0 /\ done' = 0
  /\ result' = NoResult
  /\ request' = NoRequest

\* The MCU is reset: in the application that START_APPLICATION has started, or
\* at any moment.
Restart ==
  /\ versions' = LoadVersions(flash)
  /\ nextWriteAddress' = 0 /\ eraseCount' = 0 /\ bootloaderExit' = FALSE
  /\ expected' = 0 /\ erased' = 0
  /\ Served
  /\ UNCHANGED <<board, flash>>

-----------------------------------------------------------------------------
(***************************************************************************)
(* BusCallback for a request to the own address.                           *)
(***************************************************************************)
Result(status, n) == result' = [status |-> status, len |-> n] /\ pc' = "result"
Fails(status) == Result(status, 0) /\ UNCHANGED data

\* The driver has a frame of n bytes, command and arguments first.
Receive(cmd, args, n, crcOk) ==
  /\ request' = [cmd |-> cmd, args |-> args, bytes |-> n, crcOk |-> crcOk]
  /\ data' = [i \in DOMAIN data |->
                IF i = 0 /\ n > CrcLength THEN cmd
                ELSE IF i \in 1 .. Len(args) THEN args[i] ELSE Stale]
  /\ len' = n
  /\ pc' = "frame"
  /\ UNCHANGED <<fixed, local>>

ShortFrame ==
  /\ pc = "frame" /\ len < 1 + CrcLength
  /\ Fails(INVALID_TRANSFER)
  /\ UNCHANGED <<fixed, len, address, count, done, request>>

\* On RS485, nothing is answered.
WrongCrc ==
  /\ pc = "frame" /\ len >= 1 + CrcLength /\ ~ request.crcOk
  /\ IF Bus = "I2C" THEN Fails(INVALID_CRC) /\ UNCHANGED len
     ELSE pc' = "silent" /\ UNCHANGED <<data, len, result>>
  /\ UNCHANGED <<fixed, address, count, done, request>>

RightCrc ==
  /\ pc = "frame" /\ len >= 1 + CrcLength /\ request.crcOk
  /\ pc' = "command"
  /\ len' = len - 1 - CrcLength
  /\ UNCHANGED <<fixed, data, local, request>>

\* The header of the reply, and the CRC behind it; 0 stands for the address.  The
\* driver is to send it, unless runBootloader leaves its loop and shuts down the bus.
Reply ==
  /\ pc = "result"
  /\ data' = [i \in DOMAIN data |->
                IF i = dataout - 1 THEN result.len
                ELSE IF i = dataout - 2 THEN result.status
                ELSE IF i < dataout - 2 THEN 0
                ELSE IF i < dataout + result.len THEN data[i] ELSE Stale]
  /\ len' = result.len + Overhead
  /\ pc' = IF bootloaderExit THEN "exited" ELSE "reply"
  /\ UNCHANGED <<fixed, local, request>>

\* For the history: the request is a WRITE_FLASH whose address PROTOCOL.md allows.
Whole(q) == q.bytes > CrcLength /\ q.crcOk
Offset(q) == q.args[1] * BYTE + q.args[2]
ValidWrite(q) ==
  Whole(q) /\ q.cmd = WRITE_FLASH /\ Len(q.args) >= 2 /\ Offset(q) \in {0, expected}
Following(q) == (Offset(q) + Len(q.args) - 2) % ADDR

\* The driver has sent the reply, or there is none.
Forget ==
  /\ pc \in {"reply", "silent"}
  /\ expected' = IF ValidWrite(request) THEN Following(request) ELSE expected
  /\ erased' = IF pc = "reply" /\ request.cmd = FINALIZE_FLASH /\ data[dataout - 2] = COMMAND_OK
                 THEN 0 ELSE erased
  /\ Served
  /\ UNCHANGED <<board, flash, versions, nextWriteAddress, eraseCount, bootloaderExit>>

-----------------------------------------------------------------------------
(***************************************************************************)
(* handleCommand and processCommand, with len bytes of arguments.          *)
(***************************************************************************)
Answer(bytes) ==
  /\ data' = [i \in DOMAIN data |->
                IF i - dataout \in 0 .. Len(bytes) - 1 THEN bytes[i - dataout + 1] ELSE data[i]]
  /\ Result(COMMAND_OK, Len(bytes))

Executes(c) ==
  /\ pc = "command" /\ data[0] = c
  /\ UNCHANGED <<board, versions, expected, len, request>>

Command(c) == Executes(c) /\ UNCHANGED fixed

GetProtocolVersion ==
  Command(GET_PROTOCOL_VERSION) /\ Answer(PROTOCOL_VERSION) /\ UNCHANGED <<address, count, done>>

GetMaxPacketLength ==
  /\ Command(GET_MAX_PACKET_LENGTH)
  /\ Answer(<<0, MAX_PACKET_LENGTH>>)
  /\ UNCHANGED <<address, count, done>>

SetAddress ==
  /\ Command(SET_ADDRESS)
  /\ \/ len # 2 /\ Fails(INVALID_ARGUMENTS)
     \/ len = 2 /\ data[datain + 1] \in {0, HwType} /\ Answer(<< >>)
     \/ len = 2 /\ data[datain + 1] \notin {0, HwType} /\ pc' = "silent" /\ UNCHANGED <<data, result>>
  /\ UNCHANGED <<address, count, done>>

PowerUpDisplay ==
  /\ board = "interfaceboard"
  /\ Command(POWER_UP_DISPLAY)
  /\ Answer(<<DISPLAY_CONTROLLER_TYPE>>)
  /\ UNCHANGED <<address, count, done>>

\* What a command without arguments answers.
Stm32Serial == [i \in DOMAIN SerialNumber |-> SerialNumber[Len(SerialNumber) + 1 - i]]

Information(c) ==
  CASE c = GET_HARDWARE_INFO     -> <<HwType, versions.compatible, BL_VERSION,
                                      ApplicationSize(board) \div BYTE, ApplicationSize(board) % BYTE>>
    [] c = GET_HARDWARE_REVISION -> <<versions.current>>
    [] c = GET_SERIAL_NUMBER     -> IF board = "gphopper" THEN Stm32Serial ELSE SerialNumber
    [] c = GET_NUM_CHILDREN      -> <<NUM_CHILDREN>>
    [] c = GET_EXTRA_INFO        -> <<versions.extra>>

InformationCommands ==
  {GET_HARDWARE_INFO, GET_HARDWARE_REVISION, GET_SERIAL_NUMBER} \cup
  (IF board = "gphopper" THEN {GET_NUM_CHILDREN} ELSE {GET_EXTRA_INFO})

GetInformation(c) ==
  /\ Command(c) /\ len = 0
  /\ Answer(Information(c))
  /\ UNCHANGED <<address, count, done>>

\* The reply goes into the buffer, but see Reply.
StartApplication ==
  /\ Executes(START_APPLICATION) /\ len = 0
  /\ bootloaderExit' = TRUE
  /\ Answer(<< >>)
  /\ UNCHANGED <<writing, address, count, done>>

RefuseArguments ==
  /\ \E c \in InformationCommands \cup {START_APPLICATION, FINALIZE_FLASH} : Command(c)
  /\ len # 0
  /\ Fails(INVALID_ARGUMENTS)
  /\ UNCHANGED <<address, count, done>>

SetChildSelect ==
  /\ board = "gphopper"
  /\ Command(SET_CHILD_SELECT)
  /\ IF len # 2 \/ data[datain] >= NUM_CHILDREN \/ data[datain + 1] > 1
       THEN Fails(INVALID_ARGUMENTS) ELSE Answer(<< >>)
  /\ UNCHANGED <<address, count, done>>

-----------------------------------------------------------------------------
(***************************************************************************)
(* WRITE_FLASH and FINALIZE_FLASH, with the outcome of commitToFlash: an   *)
(* error or none, and the pages that were erased on the way, both of which *)
(* the module WriteFlash accounts for.  Board info is not in the           *)
(* application.                                                            *)
(***************************************************************************)
Failed(err) == data' = [data EXCEPT ![dataout] = err] /\ Result(COMMAND_FAILED, 1)

SameBoardInfo(f) ==
  \A i \in 0 .. BOARD_INFO_SIZE - 1 : BoardInfoByte(f, i) = BoardInfoByte(flash, i)

Commit(pages) ==
  /\ flash' \in { f \in Flashes : SameBoardInfo(f) }
  /\ erased' = erased + pages

Saturated(n) == IF n < MaxErase THEN n ELSE MaxErase

WriteAddress == data[datain] * BYTE + data[datain + 1]

\* Variant with a bug: any address is taken.
AnyAddress(a) == a \in 0 .. ADDR - 1

Consecutive(a) == a = 0 \/ a = nextWriteAddress

RefuseWrite ==
  /\ Command(WRITE_FLASH)
  /\ len >= 2 => ~ Consecutive(WriteAddress)
  /\ Fails(INVALID_ARGUMENTS)
  /\ UNCHANGED <<address, count, done>>

\* The loop stores n bytes from address a on, and none when the sum wraps.
FillsPage(a, n) == a + n < ADDR /\ \E i \in a + 1 .. a + n : i % FLASH_ERASE_SIZE = 0

WriteFlash ==
  /\ Executes(WRITE_FLASH)
  /\ len >= 2 /\ Consecutive(WriteAddress)
  /\ nextWriteAddress' = (WriteAddress + len - 2) % ADDR
  /\ \/ /\ ~ FillsPage(WriteAddress, len - 2)
        /\ Answer(<< >>)
        /\ UNCHANGED <<flash, eraseCount, erased>>
     \/ /\ FillsPage(WriteAddress, len - 2)
        /\ \E pages \in 0 .. MaxErased - erased :
             Commit(pages) /\ eraseCount' = Saturated(eraseCount + pages)
        /\ Answer(<< >>) \/ \E err \in WriteErrors : Failed(err)
  /\ UNCHANGED <<bootloaderExit, address, count, done>>

\* With nothing in writeBuffer there is nothing to commit.
FinalizeFlash ==
  /\ Executes(FINALIZE_FLASH) /\ len = 0
  /\ \/ /\ nextWriteAddress % FLASH_ERASE_SIZE = 0
        /\ Answer(<<eraseCount>>) /\ eraseCount' = 0
        /\ UNCHANGED <<flash, erased>>
     \/ /\ nextWriteAddress % FLASH_ERASE_SIZE # 0
        /\ \E pages \in 0 .. MaxErased - erased :
             /\ Commit(pages)
             /\ \/ Answer(<<Saturated(eraseCount + pages)>>) /\ eraseCount' = 0
                \/ /\ \E err \in WriteErrors : Failed(err)
                   /\ eraseCount' = Saturated(eraseCount + pages)
  /\ UNCHANGED <<nextWriteAddress, bootloaderExit, address, count, done>>

-----------------------------------------------------------------------------
\* Variant with a bug: header and CRC are not counted.
TooLongForPacket(n) == n > MAX_PACKET_LENGTH

TooLong(n) == n > maxLen

BoardInfoCount(offset, n) ==
  IF offset >= BOARD_INFO_SIZE THEN 0
  ELSE IF n > BOARD_INFO_SIZE - offset THEN BOARD_INFO_SIZE - offset
  ELSE n

\* The address and length are taken from the buffer before it is written to.
StartRead(c) ==
  /\ Command(c)
  /\ IF len # 3 \/ TooLong(data[datain + 2])
       THEN Fails(INVALID_ARGUMENTS) /\ UNCHANGED <<address, count, done>>
       ELSE LET a == data[datain] * BYTE + data[datain + 1]
            IN  /\ count' = IF c = READ_FLASH THEN data[datain + 2]
                            ELSE BoardInfoCount(a, data[datain + 2])
                /\ address' = (a + (IF c = READ_FLASH THEN FLASH_APP_OFFSET(board) ELSE BOARD_INFO)) % ADDR
                /\ done' = 0
                /\ pc' = "read"
                /\ UNCHANGED <<data, result>>

ReadByte ==
  /\ pc = "read" /\ done < count
  /\ data' = [data EXCEPT ![dataout + done] = flash[(address + done) % ADDR]]
  /\ done' = done + 1
  /\ UNCHANGED <<fixed, len, pc, address, count, result, request>>

ReadDone ==
  /\ pc = "read" /\ done = count
  /\ Result(COMMAND_OK, count)
  /\ UNCHANGED <<fixed, data, len, address, count, done, request>>

Supported ==
  InformationCommands \cup
  {GET_PROTOCOL_VERSION, SET_ADDRESS, GET_MAX_PACKET_LENGTH,
   START_APPLICATION, WRITE_FLASH, FINALIZE_FLASH, READ_FLASH, READ_BOARD_INFO} \cup
  (IF board = "gphopper" THEN {SET_CHILD_SELECT} ELSE {POWER_UP_DISPLAY})

NotSupported ==
  /\ \E c \in Byte \ Supported : Command(c)
  /\ Fails(COMMAND_NOT_SUPPORTED)
  /\ UNCHANGED <<address, count, done>>

-----------------------------------------------------------------------------
\* What a frame with a wrong CRC carries besides is not looked at.
FrameArrives ==
  /\ pc = "idle"
  /\ \/ \E c \in Byte, args \in Arguments : Receive(c, args, Len(args) + 1 + CrcLength, TRUE)
     \/ \E c \in Byte : Receive(c, << >>, 1 + CrcLength, FALSE)
     \/ \E n \in 1 .. CrcLength : Receive(0, << >>, n, FALSE)

Next ==
  \/ FrameArrives
  \/ ShortFrame \/ WrongCrc \/ RightCrc
  \/ GetProtocolVersion \/ GetMaxPacketLength \/ SetAddress \/ PowerUpDisplay \/ SetChildSelect
  \/ \E c \in InformationCommands : GetInformation(c)
  \/ StartApplication \/ RefuseArguments
  \/ RefuseWrite \/ WriteFlash \/ FinalizeFlash
  \/ \E c \in {READ_FLASH, READ_BOARD_INFO} : StartRead(c)
  \/ ReadByte \/ ReadDone \/ NotSupported
  \/ Reply \/ Forget \/ Restart

Spec == Init /\ [][Next]_commandVars

-----------------------------------------------------------------------------
\* The type invariant: no index leaves the buffer, and no reply is longer.
CommandsTypeOK ==
  /\ board \in Boards /\ flash \in Flashes
  /\ data \in [0 .. MAX_PACKET_LENGTH - 1 -> Byte \cup {Stale}]
  /\ len \in 0 .. MAX_PACKET_LENGTH
  /\ pc \in {"idle", "frame", "command", "read", "result", "reply", "silent", "exited"}
  /\ nextWriteAddress \in 0 .. ADDR - 1 /\ eraseCount \in 0 .. MaxErase
  /\ bootloaderExit \in BOOLEAN
  /\ address \in 0 .. ADDR - 1
  /\ count \in 0 .. maxLen /\ done \in 0 .. count
  /\ result.status \in Byte /\ result.len \in 0 .. maxLen

-----------------------------------------------------------------------------
(***************************************************************************)
(* What PROTOCOL.md promises, from what it says of requests and replies,   *)
(* the content of the board info and the history alone: the set of the     *)
(* replies it allows to a request, which is empty where it wants none.     *)
(* Where it leaves the answer to arguments open, the promise is            *)
(* INVALID_ARGUMENTS, but for the three commands of which it says nothing  *)
(* else can be returned.                                                   *)
(***************************************************************************)
Ok(bytes) == [status |-> COMMAND_OK, payload |-> bytes]
Error(status) == [status |-> status, payload |-> << >>]
Wrong == {Error(INVALID_ARGUMENTS)}
Failures == { [status |-> COMMAND_FAILED, payload |-> <<reason>>] : reason \in Byte }

\* The commands of the protocol, short of those a board need not have.
Offered == (0 .. 14) \ (IF board = "interfaceboard" THEN {10, 11} ELSE {2, 13})
HardwareType == IF board = "interfaceboard" THEN 1 ELSE 2

\* Numbers of two bytes are sent with the most significant byte first.
BigEndian(n) == { b \in Byte \X Byte : b[1] * BYTE + b[2] = n }

BoardInfo == [i \in 1 .. BOARD_INFO_SIZE |-> flash[BOARD_INFO + i - 1]]

\* A field of the board info, if there is one.
Field(i, otherwise) ==
  IF SubSeq(BoardInfo, 1, 2) = <<BOARD_INFO_SIGNATURE, BOARD_INFO_MAJOR_VERSION>>
    THEN BoardInfo[i] ELSE otherwise

\* A value that makes the mainboard refuse operation.
NoVersion == BYTE - 1

\* Type, compatible revision, any bootloader version, and the size of the application.
HardwareInfos ==
  { Ok(<<HardwareType, Field(4, NoVersion), v, size[1], size[2]>>) :
      v \in Byte, size \in BigEndian(ApplicationSize(board)) }

\* The STM32 has the least significant byte of its number first.
Serial ==
  IF board = "interfaceboard" THEN SerialNumber
  ELSE [i \in 1 .. Len(SerialNumber) |-> SerialNumber[Len(SerialNumber) + 1 - i]]

\* One byte has room for so many pages.
EraseCounts == {Ok(<<IF erased > MaxErase THEN MaxErase ELSE erased>>)}

FlashFrom(offset, n) ==
  {Ok([i \in 1 .. n |-> flash[(offset + FLASH_APP_OFFSET(board) + i - 1) % ADDR]])}

BoardInfoFrom(offset, n) ==
  {Ok(SubSeq(BoardInfo, offset + 1,
             IF offset + n < BOARD_INFO_SIZE THEN offset + n ELSE BOARD_INFO_SIZE))}

WithoutArguments(q, replies) == IF q.args = << >> THEN replies ELSE Wrong

PromisedTo(q) ==
  CASE q.cmd = GET_PROTOCOL_VERSION  -> {Ok(<<2, 2>>)}
    [] q.cmd = GET_MAX_PACKET_LENGTH -> { Ok(size) : size \in BigEndian(MAX_PACKET_LENGTH) }
    [] q.cmd = POWER_UP_DISPLAY      -> {Ok(<<1>>)}
    [] q.cmd = SET_ADDRESS           -> IF Len(q.args) # 2 THEN Wrong
                                        ELSE IF q.args[2] \in {0, HardwareType} THEN {Ok(<< >>)}
                                        ELSE {}
    [] q.cmd = START_APPLICATION     -> WithoutArguments(q, {})
    [] q.cmd = GET_HARDWARE_INFO     -> WithoutArguments(q, HardwareInfos)
    [] q.cmd = GET_HARDWARE_REVISION -> WithoutArguments(q, {Ok(<<Field(3, NoVersion)>>)})
    [] q.cmd = GET_SERIAL_NUMBER     -> WithoutArguments(q, {Ok(Serial)})
    [] q.cmd = GET_NUM_CHILDREN      -> WithoutArguments(q, {Ok(<<1>>)})
    [] q.cmd = GET_EXTRA_INFO        -> WithoutArguments(q, {Ok(<<Field(5, 0) % 16>>)})
    [] q.cmd = SET_CHILD_SELECT      -> IF Len(q.args) = 2 /\ q.args[1] = 0 /\ q.args[2] \in {0, 1}
                                        THEN {Ok(<< >>)} ELSE Wrong
    [] q.cmd = WRITE_FLASH           -> IF ValidWrite(q) THEN {Ok(<< >>)} \cup Failures ELSE Wrong
    [] q.cmd = FINALIZE_FLASH        -> WithoutArguments(q, EraseCounts \cup Failures)
    [] q.cmd = READ_FLASH            -> IF Len(q.args) = 3 /\ q.args[3] <= maxLen
                                        THEN FlashFrom(Offset(q), q.args[3]) ELSE Wrong
    [] q.cmd = READ_BOARD_INFO       -> IF Len(q.args) = 3 /\ q.args[3] <= maxLen
                                        THEN BoardInfoFrom(Offset(q), q.args[3]) ELSE Wrong

Promised(q) ==
  IF Bus = "RS485" /\ ~ Whole(q) THEN {}
  ELSE IF q.bytes <= CrcLength THEN {Error(INVALID_TRANSFER)}
  ELSE IF ~ q.crcOk THEN {Error(INVALID_CRC)}
  ELSE IF q.cmd \notin Offered THEN {Error(COMMAND_NOT_SUPPORTED)}
  ELSE PromisedTo(q)

\* The known exception: on RS485 a frame too short to have a CRC is answered
\* INVALID_TRANSFER (BaseProtocol.cpp:126-127), although PROTOCOL.md:232-239 allows
\* no reply without a correct CRC.
Excepted(q) == IF Bus = "RS485" /\ q.bytes <= CrcLength THEN {Error(INVALID_TRANSFER)} ELSE {}

\* A request gets a reply that PROTOCOL.md allows to this request, on this bus and
\* at this point of an upload, and none if it allows none, with one exception, named
\* above.  This holds although the reply is written over the request in the same
\* buffer: no byte of it is left over from the request or an earlier one.
AnswersAsPromised ==
  /\ pc = "reply" =>
       [status |-> data[dataout - 2],
        payload |-> [i \in 1 .. data[dataout - 1] |-> data[dataout + i - 1]]]
         \in Promised(request) \cup Excepted(request)
  /\ pc \in {"silent", "exited"} => Promised(request) = {}
=============================================================================
