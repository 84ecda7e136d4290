----------------------------- MODULE Stm32TwoWire -----------------------------
(***************************************************************************)
(* The I2C driver of the STM32 build, stm32/TwoWire.cpp: BusUpdate reads   *)
(* the status register once and then handles everything it saw there: a    *)
(* byte received, a byte to send, a stop and an address.  The hardware     *)
(* holds the clock while an address or a byte waits, but a stop and the    *)
(* start after it may both have come before BusUpdate looks.               *)
(*                                                                         *)
(* Master and hardware are no part of the repository: they are modelled    *)
(* from how BusUpdate uses the registers.                                  *)
(***************************************************************************)
EXTENDS I2CCallback

CONSTANTS
  MAX_PACKET_LENGTH, Bytes,
  Addresses,   \* what the master tries
  MaxRead      \* most bytes the master reads at once

ASSUME TwoWireAssumption ==
  /\ MAX_PACKET_LENGTH \in Nat \ {0}
  /\ Addresses \subseteq 0 .. 127
  /\ Bytes \subseteq 0 .. 255
  /\ \A reply \in Replies : Len(reply) <= MAX_PACKET_LENGTH
  /\ MaxRead \in Nat

VARIABLES
  twiState, twiBuffer, twiReadPos, twiAddress,
  oar2,       \* the own address, and OA2MSK, how many bits of it are ignored
  isr,        \* RXNE, TXIS, STOPF, ADDR and the direction
  addcode,    \* the address matched
  rxdr,       \* the byte received
  txdr,       \* the byte to send next, if any: a sequence
  status,     \* what BusUpdate read of isr, << >> outside of it
  bus,        \* the transaction the hardware takes part in: "free" for none, an
              \* "address" waits, "write", "read", "refused" until the next start,
              \* "hung" when the child keeps the data line low
  sent, sentTo, got,
  executed    \* history: as in I2CExchange

driver == <<twiState, twiBuffer, twiReadPos, twiAddress>>
registers == <<oar2, isr, addcode, rxdr, txdr>>
wireHistory == <<sent, sentTo, got>>
twoWireVars == <<driver, registers, status, bus, wireHistory, executed>>

Filler == 0
NoFlags == [rxne |-> FALSE, txis |-> FALSE, stopf |-> FALSE, addr |-> FALSE, read |-> FALSE]

\* BusResetDeviceAddress and BusSetDeviceAddress, for an address of 7 bits.
ResetDeviceAddress == [address |-> INITIAL_ADDRESS, msk |-> 7 - INITIAL_BITS]
SetDeviceAddress(a) == [address |-> a, msk |-> 0]

Listens(a) == a = 0 \/ a \div Pow2(oar2.msk) = oar2.address \div Pow2(oar2.msk)

Init ==
  /\ twiState = "Idle" /\ twiBuffer = << >> /\ twiReadPos = 0 /\ twiAddress = 0
  /\ oar2 = ResetDeviceAddress
  /\ isr = NoFlags
  /\ addcode = 0 /\ rxdr = 0 /\ txdr = << >>
  /\ status = << >>
  /\ bus = "free"
  /\ sent = << >> /\ sentTo = 0 /\ got = << >>
  /\ executed = <<0, 0, << >> >>

-----------------------------------------------------------------------------
(***************************************************************************)
(* BusUpdate, for the status s it has read.                                *)
(***************************************************************************)
Poll ==
  /\ status = << >>
  /\ isr.rxne \/ isr.txis \/ isr.stopf \/ isr.addr
  /\ status' = <<isr>>
  /\ UNCHANGED <<driver, registers, bus, wireHistory, executed>>

\* Variant with a bug: one byte more than fits is stored.
ReceivedOverfull(s) ==
  IF s.rxne /\ Len(twiBuffer) <= MAX_PACKET_LENGTH THEN Append(twiBuffer, rxdr) ELSE twiBuffer

\* The buffer once the byte received is in it.
Received(s) ==
  IF s.rxne /\ Len(twiBuffer) < MAX_PACKET_LENGTH THEN Append(twiBuffer, rxdr) ELSE twiBuffer

Sends(s) == s.txis /\ twiReadPos < Len(Received(s))

WriteEnds(s) == (s.stopf \/ s.addr) /\ twiState = "Write"
CallbackDue(s) == WriteEnds(s) /\ Received(s) # << >>

\* What the call returns and does, or what is there without a call.
Effects(s) ==
  IF CallbackDue(s) THEN BusCallback(twiAddress, Received(s)) ELSE {Nothing(Received(s))}

ExecutedNow(s) ==
  executed' = IF CallbackDue(s) THEN <<1 - executed[1], twiAddress, Received(s)>> ELSE executed

AddressAfter(e) ==
  CASE e.call = "BusSetDeviceAddress"   -> SetDeviceAddress(e.address)
    [] e.call = "BusResetDeviceAddress" -> ResetDeviceAddress
    [] OTHER                            -> oar2

\* Variant with a bug: what is left to send stays.
Unflushed(next) == next

\* Forcing TXE drops what the last read has left.
Flushed(next) == SubSeq(next, 1, 0)

\* ADDR, when buffer holds the reply to the last request.  To refuse it, the
\* whole I2C hardware is switched off and on again.
AddressMatched(s, buffer, next) ==
  LET ack == buffer # << >> \/ ~ s.read
  IN  /\ bus' = IF ~ ack THEN "refused" ELSE IF s.read THEN "read" ELSE "write"
      /\ isr' = IF ~ ack THEN NoFlags ELSE [NoFlags EXCEPT !.txis = s.read, !.read = s.read]
      /\ twiState' = IF s.read THEN "Read" ELSE "Write"
      /\ twiBuffer' = IF s.read THEN buffer ELSE << >>
      /\ twiReadPos' = IF s.read THEN 0 ELSE twiReadPos + (IF Sends(s) THEN 1 ELSE 0)
      /\ twiAddress' = addcode
      /\ txdr' = Flushed(next)
      /\ got' = IF bus' = "read" THEN << >> ELSE got
      /\ IF bus' = "write"
           THEN sent' = << >> /\ sentTo' = addcode
           ELSE UNCHANGED <<sent, sentTo>>

NoAddress(s, buffer, next) ==
  /\ isr' = [isr EXCEPT !.rxne = @ /\ ~ s.rxne, !.txis = @ /\ ~ s.txis,
                        !.stopf = @ /\ ~ s.stopf]
  /\ twiState' = IF WriteEnds(s) THEN "Idle" ELSE twiState
  /\ twiBuffer' = buffer
  /\ twiReadPos' = twiReadPos + (IF Sends(s) THEN 1 ELSE 0)
  /\ txdr' = next
  /\ UNCHANGED <<twiAddress, bus, wireHistory>>

Handle ==
  /\ status # << >>
  /\ LET s == status[1]
         next == IF ~ s.txis THEN txdr
                 ELSE IF Sends(s) THEN <<Received(s)[twiReadPos + 1]>> ELSE <<Filler>>
     IN  /\ \E e \in Effects(s) :
              /\ e.call # "resetSystem"
              /\ oar2' = AddressAfter(e)
              /\ IF s.addr THEN AddressMatched(s, e.reply, next)
                           ELSE NoAddress(s, e.reply, next)
         /\ ExecutedNow(s)
  /\ status' = << >>
  /\ UNCHANGED <<addcode, rxdr>>

Restarted ==
  /\ twiState' = "Idle" /\ twiBuffer' = << >> /\ twiReadPos' = 0 /\ twiAddress' = 0
  /\ oar2' = ResetDeviceAddress
  /\ isr' = NoFlags
  /\ txdr' = << >>
  /\ UNCHANGED <<addcode, rxdr, wireHistory>>

SystemReset ==
  /\ status # << >>
  /\ \E e \in Effects(status[1]) : e.call = "resetSystem"
  /\ Restarted
  /\ status' = << >>
  /\ bus' = IF bus = "address" THEN "refused" ELSE bus
  /\ ExecutedNow(status[1])

\* The TODO in BusSetDeviceAddress: when an address has been matched already,
\* the hardware may keep the data line low.  Nothing that BusUpdate does after
\* it has any effect then.
Confused ==
  /\ status # << >> /\ isr.addr
  /\ \E e \in Effects(status[1]) :
       /\ e.call = "BusSetDeviceAddress"
       /\ twiBuffer' = e.reply
       /\ oar2' = AddressAfter(e)
  /\ twiState' = "Idle"
  /\ isr' = NoFlags
  /\ bus' = "hung"
  /\ status' = << >>
  /\ ExecutedNow(status[1])
  /\ UNCHANGED <<twiReadPos, twiAddress, addcode, rxdr, txdr, wireHistory>>

BusUpdate == Handle \/ SystemReset \/ Confused

PowerCycle ==
  /\ bus = "hung"
  /\ Restarted
  /\ bus' = "free"
  /\ UNCHANGED <<status, executed>>

-----------------------------------------------------------------------------
(***************************************************************************)
(* The master, and the hardware.                                           *)
(***************************************************************************)
\* A start or repeated start, and an address the child listens to.  The byte
\* before it may not have been looked at yet.
MasterStarts(a, read) ==
  /\ ~ isr.addr /\ bus # "hung"
  /\ Listens(a)
  /\ read => a # 0
  /\ bus' = "address"
  /\ isr' = [isr EXCEPT !.addr = TRUE, !.read = read, !.txis = FALSE]
  /\ addcode' = a
  /\ UNCHANGED <<driver, oar2, rxdr, txdr, status, wireHistory, executed>>

MasterWrites(b) ==
  /\ bus = "write" /\ ~ isr.rxne
  /\ Len(sent) <= MAX_PACKET_LENGTH
  /\ sent' = Append(sent, b)
  /\ isr' = [isr EXCEPT !.rxne = TRUE]
  /\ rxdr' = b
  /\ UNCHANGED <<driver, oar2, addcode, txdr, status, bus, sentTo, got, executed>>

\* The byte goes out, and the next one is asked for at once.
MasterReads ==
  /\ bus = "read" /\ txdr # << >>
  /\ Len(got) < MaxRead
  /\ got' = Append(got, txdr[1])
  /\ txdr' = << >>
  /\ isr' = [isr EXCEPT !.txis = TRUE]
  /\ UNCHANGED <<driver, oar2, addcode, rxdr, status, bus, sent, sentTo, executed>>

MasterStops ==
  /\ bus \in {"write", "read", "refused"}
  /\ bus' = "free"
  /\ isr' = [isr EXCEPT !.stopf = @ \/ bus # "refused", !.txis = FALSE]
  /\ UNCHANGED <<driver, oar2, addcode, rxdr, txdr, status, wireHistory, executed>>

Next ==
  \/ Poll \/ BusUpdate \/ PowerCycle
  \/ \E a \in Addresses, read \in BOOLEAN : MasterStarts(a, read)
  \/ \E b \in Bytes : MasterWrites(b)
  \/ MasterReads \/ MasterStops

\* The main loop polls the bus.
Spec == Init /\ [][Next]_twoWireVars /\ WF_twoWireVars(Poll) /\ WF_twoWireVars(BusUpdate)

-----------------------------------------------------------------------------
\* The type invariant: no index leaves twiBuffer.
TwoWireTypeOK ==
  /\ twiState \in {"Idle", "Read", "Write"}
  /\ Len(twiBuffer) <= MAX_PACKET_LENGTH
  /\ twiReadPos \in 0 .. MAX_PACKET_LENGTH
  /\ twiAddress \in 0 .. 127
  /\ oar2 \in [address : 0 .. 127, msk : 0 .. 7]
  /\ DOMAIN isr = DOMAIN NoFlags
  /\ bus \in {"free", "address", "write", "read", "refused", "hung"}
  /\ Len(txdr) <= 1
  /\ Len(got) <= MaxRead

Cut(s) == IF Len(s) <= MAX_PACKET_LENGTH THEN s ELSE SubSeq(s, 1, MAX_PACKET_LENGTH)

\* To the master, request and reply share twiBuffer, and a request whose end
\* has not been looked at is due.
Exchange == INSTANCE I2CExchange WITH
  MayMiss <- FALSE, MayHang <- TRUE,
  listen <- { a \in Addresses \ {0} : Listens(a) },
  phase <- CASE bus = "free" -> "idle" [] bus = "address" -> "addressed" [] OTHER -> bus,
  at <- IF bus = "address" THEN <<addcode, isr.read>> ELSE <<0, FALSE>>,
  to <- sentTo,
  request <- Cut(sent),
  due <- twiState = "Write" /\ bus # "write" /\ sent # << >>,
  reply <- IF twiState = "Write" THEN << >> ELSE twiBuffer

\* The driver keeps the promise of I2CExchange, and answers every address,
\* although stop and start are often looked at together: requests are executed
\* once and as sent, and reads return the whole reply to the last one, with
\* nothing left over from the read before.  It hangs only when SET_ADDRESS is
\* executed after the next address was matched.
ImplementsExchange == Exchange!Spec
=============================================================================
