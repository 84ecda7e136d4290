----------------------------- MODULE AttinyTwoWire -----------------------------
(***************************************************************************)
(* The I2C driver of the ATtiny build, attiny/TwoWire.cpp: BusUpdate reads *)
(* the status register once and works on what it saw, while the TWI        *)
(* hardware and the master go on.  The hardware holds the clock while an   *)
(* address or a byte waits for the driver, but not after a stop condition. *)
(*                                                                         *)
(* Master and hardware are no part of the repository: they are modelled    *)
(* from how BusUpdate uses the registers.                                  *)
(***************************************************************************)
EXTENDS I2CCallback

CONSTANTS
  MAX_PACKET_LENGTH, Bytes,
  Addresses,   \* what the master tries
  MaxRead      \* most bytes the master reads at once

ASSUME TwoWireAssumption ==
  /\ MAX_PACKET_LENGTH \in Nat \ {0}
  /\ Addresses \subseteq 0 .. 127
  /\ Bytes \subseteq 0 .. 255
  /\ \A reply \in Replies : Len(reply) <= MAX_PACKET_LENGTH
  /\ MaxRead \in Nat

VARIABLES
  twiState, twiBuffer, twiReadPos, twiAddress,
  twsa,       \* the address registers, from bit 1 on: an address, and TWSAM,
              \* the bits of it that are ignored
  twssra,     \* TWDIF, TWASIF, TWAS (an address, not a stop) and TWDIR (a read)
  twsd,       \* the byte received, or the address with its lowest bit cut off
  status,     \* what BusUpdate read of twssra, << >> outside of it
  bus,        \* the transaction the hardware takes part in: "free" for none, an
              \* "address" waits, "write", "read", "refused" until the next start
  sent, sentTo, got,
  executed    \* history: as in I2CExchange

driver == <<twiState, twiBuffer, twiReadPos, twiAddress>>
wireHistory == <<sent, sentTo, got>>
twoWireVars == <<driver, twsa, twssra, twsd, status, bus, wireHistory, executed>>

Filler == 0

NoFlags == [dif |-> FALSE, asif |-> FALSE, as |-> FALSE, dir |-> FALSE]

\* BusSetDeviceAddress shifts the address, so its highest bit is lost.
SetDeviceAddress(a) == [address |-> a % 128, mask |-> 0]

ResetDeviceAddress == [address |-> INITIAL_ADDRESS, mask |-> 127 \div Pow2(INITIAL_BITS)]

\* The mask ends in ones only; TWSA0 is set, so general calls match, too.
Listens(a) ==
  a = 0 \/ a \div (twsa.mask + 1) = twsa.address \div (twsa.mask + 1)

Init ==
  /\ twiState = "Idle" /\ twiBuffer = << >> /\ twiReadPos = 0 /\ twiAddress = 0
  /\ twsa = ResetDeviceAddress
  /\ twssra = NoFlags
  /\ twsd = 0
  /\ status = << >>
  /\ bus = "free"
  /\ sent = << >> /\ sentTo = 0 /\ got = << >>
  /\ executed = <<0, 0, << >> >>

-----------------------------------------------------------------------------
(***************************************************************************)
(* BusUpdate.                                                              *)
(***************************************************************************)
Poll ==
  /\ status = << >>
  /\ twssra.dif \/ twssra.asif
  /\ status' = <<twssra>>
  /\ UNCHANGED <<driver, twsa, twssra, twsd, bus, wireHistory, executed>>

\* Writing TWCMD clears both flags, even of an address that came meanwhile.
CommandWritten == twssra' = [twssra EXCEPT !.dif = FALSE, !.asif = FALSE]

\* Whether an address gets an ACK, and the transaction goes on.
Acked(s, buffer) == s.as /\ (buffer # << >> \/ ~ s.dir)

\* BusCallback is called when a write with at least one byte has ended.
CallbackDue == twiState = "Write" /\ twiBuffer # << >>

\* Variant with a bug: a read goes on where the last one stopped.
ReadPosKept(pos, s) == IF s.dir THEN pos ELSE 0

ReadPosAfter(pos, s) == IF s.as /\ s.dir THEN 0 ELSE pos

\* What the call returns and does, or what is there without a call.
Effects == IF CallbackDue THEN BusCallback(twiAddress, twiBuffer) ELSE {Nothing(twiBuffer)}

ExecutedNow ==
  executed' = IF CallbackDue THEN <<1 - executed[1], twiAddress, twiBuffer>> ELSE executed

AddressAfter(e) ==
  CASE e.call = "BusSetDeviceAddress"   -> SetDeviceAddress(e.address)
    [] e.call = "BusResetDeviceAddress" -> ResetDeviceAddress
    [] OTHER                            -> twsa

AddressOrStop ==
  /\ status # << >> /\ status[1].asif
  /\ \E e \in Effects :
       LET s == status[1]
           buffer == e.reply
       IN  /\ e.call # "resetSystem"
           /\ twsa' = AddressAfter(e)
           /\ bus' = IF bus # "address" THEN bus
                     ELSE IF ~ Acked(s, buffer) THEN "refused"
                     ELSE IF s.dir THEN "read" ELSE "write"
           /\ twiState' = IF ~ s.as THEN "Idle" ELSE IF s.dir THEN "Read" ELSE "Write"
           /\ twiReadPos' = ReadPosAfter(twiReadPos, s)
           /\ twiBuffer' = IF s.as /\ ~ s.dir THEN << >> ELSE buffer
           /\ got' = IF bus' = "read" THEN << >> ELSE got
           /\ IF bus' = "write"
                THEN sent' = << >> /\ sentTo' = twsd
                ELSE UNCHANGED <<sent, sentTo>>
  /\ ExecutedNow
  /\ CommandWritten
  /\ twiAddress' = IF bus = "address" THEN twsd ELSE twsd \div 2
  /\ status' = << >>
  /\ UNCHANGED twsd

\* resetSystem waits for the watchdog, which lets go of the bus.
SystemReset ==
  /\ status # << >> /\ status[1].asif
  /\ \E e \in Effects : e.call = "resetSystem"
  /\ twiState' = "Idle" /\ twiBuffer' = << >> /\ twiReadPos' = 0 /\ twiAddress' = 0
  /\ twsa' = ResetDeviceAddress
  /\ twssra' = NoFlags
  /\ status' = << >>
  /\ bus' = IF bus = "address" THEN "refused" ELSE bus
  /\ ExecutedNow
  /\ UNCHANGED <<twsd, wireHistory>>

DataRead ==
  /\ status # << >> /\ ~ status[1].asif /\ status[1].dir
  /\ IF twiReadPos < Len(twiBuffer)
       THEN /\ twsd' = twiBuffer[twiReadPos + 1]
            /\ twiReadPos' = twiReadPos + 1
            /\ UNCHANGED bus
       ELSE /\ twsd' = Filler
            /\ bus' = "refused"
            /\ UNCHANGED twiReadPos
  /\ got' = Append(got, twsd')
  /\ CommandWritten
  /\ status' = << >>
  /\ UNCHANGED <<twiState, twiBuffer, twiAddress, twsa, sent, sentTo, executed>>

\* Variant with a bug: one byte more than fits is stored.
HasRoomForOneMore(buffer) == Len(buffer) <= MAX_PACKET_LENGTH

HasRoom(buffer) == Len(buffer) < MAX_PACKET_LENGTH

DataWrite ==
  /\ status # << >> /\ ~ status[1].asif /\ ~ status[1].dir
  /\ twiBuffer' = IF HasRoom(twiBuffer) THEN Append(twiBuffer, twsd) ELSE twiBuffer
  /\ CommandWritten
  /\ status' = << >>
  /\ UNCHANGED <<twiState, twiReadPos, twiAddress, twsa, twsd, bus, wireHistory, executed>>

BusUpdate == AddressOrStop \/ SystemReset \/ DataRead \/ DataWrite

-----------------------------------------------------------------------------
(***************************************************************************)
(* The master, and the hardware.                                           *)
(***************************************************************************)
Stretching == twssra.dif \/ (twssra.asif /\ twssra.as)

\* A start or repeated start, and an address the child listens to; nobody
\* reads from the general call address.
MasterStarts(a, read) ==
  /\ ~ Stretching
  /\ Listens(a)
  /\ read => a # 0
  /\ bus' = "address"
  /\ twssra' = [dif |-> FALSE, asif |-> TRUE, as |-> TRUE, dir |-> read]
  /\ twsd' = a
  /\ UNCHANGED <<driver, twsa, status, wireHistory, executed>>

MasterWrites(b) ==
  /\ bus = "write" /\ ~ Stretching
  /\ Len(sent) <= MAX_PACKET_LENGTH
  /\ sent' = Append(sent, b)
  /\ twssra' = [twssra EXCEPT !.dif = TRUE]
  /\ twsd' = b
  /\ UNCHANGED <<driver, twsa, status, bus, sentTo, got, executed>>

MasterReads ==
  /\ bus = "read" /\ ~ Stretching
  /\ Len(got) < MaxRead
  /\ twssra' = [twssra EXCEPT !.dif = TRUE]
  /\ UNCHANGED <<driver, twsa, twsd, status, bus, wireHistory, executed>>

\* The stop of a refused transaction may go unnoticed.
MasterStops ==
  /\ bus \in {"write", "read", "refused"} /\ ~ Stretching
  /\ \E noticed \in IF bus = "refused" THEN BOOLEAN ELSE {TRUE} :
       twssra' = IF noticed THEN [twssra EXCEPT !.asif = TRUE, !.as = FALSE] ELSE twssra
  /\ bus' = "free"
  /\ UNCHANGED <<driver, twsa, twsd, status, wireHistory, executed>>

Next ==
  \/ Poll \/ BusUpdate
  \/ \E a \in Addresses, read \in BOOLEAN : MasterStarts(a, read)
  \/ \E b \in Bytes : MasterWrites(b)
  \/ MasterReads \/ MasterStops

\* The main loop polls the bus.
Spec == Init /\ [][Next]_twoWireVars /\ WF_twoWireVars(Poll) /\ WF_twoWireVars(BusUpdate)

-----------------------------------------------------------------------------
\* The type invariant: no index leaves twiBuffer.
TwoWireTypeOK ==
  /\ twiState \in {"Idle", "Read", "Write"}
  /\ Len(twiBuffer) <= MAX_PACKET_LENGTH
  /\ twiReadPos \in 0 .. MAX_PACKET_LENGTH
  /\ twiAddress \in 0 .. 127
  /\ twsa \in [address : 0 .. 127, mask : 0 .. 127]
  /\ DOMAIN twssra = {"dif", "asif", "as", "dir"}
  /\ bus \in {"free", "address", "write", "read", "refused"}
  /\ Len(got) <= MaxRead

Cut(s) == IF Len(s) <= MAX_PACKET_LENGTH THEN s ELSE SubSeq(s, 1, MAX_PACKET_LENGTH)

\* To the master, request and reply share twiBuffer, and a request whose end
\* has not been looked at is due.
Exchange == INSTANCE I2CExchange WITH
  MayMiss <- TRUE, MayHang <- FALSE,
  listen <- { a \in Addresses \ {0} : Listens(a) },
  phase <- CASE bus = "free" -> "idle" [] bus = "address" -> "addressed" [] OTHER -> bus,
  at <- IF bus = "address" THEN <<twsd, twssra.dir>> ELSE <<0, FALSE>>,
  to <- sentTo,
  request <- Cut(sent),
  due <- twiState = "Write" /\ bus # "write" /\ sent # << >>,
  reply <- IF twiState = "Write" THEN << >> ELSE twiBuffer

\* The driver keeps the promise of I2CExchange, whenever the master goes on
\* while BusUpdate works: requests are executed once and as sent, reads return
\* the whole reply to the last request however often they are repeated, at the
\* old address or at the one SET_ADDRESS has given, and never another one.
ImplementsExchange == Exchange!Spec
=============================================================================
