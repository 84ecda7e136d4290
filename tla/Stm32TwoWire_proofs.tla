-------------------------- MODULE Stm32TwoWire_proofs --------------------------
(***************************************************************************)
(* Proofs about Stm32TwoWire: every step of the I2C driver of the STM32 is *)
(* a step that I2CExchange allows, for every buffer size, every reply and  *)
(* every address, whatever comes together in one look at the status.       *)
(***************************************************************************)
EXTENDS Stm32TwoWire, SequenceTheorems, TLAPS

-----------------------------------------------------------------------------
(***************************************************************************)
(* The inductive invariant.                                                *)
(***************************************************************************)
Byte == 0 .. 255

Flags == [rxne : BOOLEAN, txis : BOOLEAN, stopf : BOOLEAN, addr : BOOLEAN, read : BOOLEAN]

Types ==
  /\ TwoWireTypeOK
  /\ {twiBuffer, sent, got, txdr} \subseteq Seq(Byte)
  /\ rxdr \in Byte /\ addcode \in 0 .. 127
  /\ isr \in Flags
  /\ status = << >> \/ \E s \in Flags : status = <<s>>

\* What the flags say of the transaction.
Wire ==
  /\ bus = "address" <=> isr.addr
  /\ isr.stopf => bus \in {"free", "address"}
  /\ isr.txis => bus = "read"
  /\ isr.rxne => twiState = "Write"
  /\ bus \in {"refused", "hung"} => status = << >>

\* What BusUpdate has seen is still so.  After an address nothing more comes, and
\* after a stop no byte does.
Seen ==
  status # << >> =>
    /\ status[1].rxne => isr.rxne
    /\ status[1].stopf => isr.stopf /\ (isr.rxne => status[1].rxne)
    /\ status[1].addr => isr = status[1]
    /\ status[1].txis /\ bus = "read" => isr.txis

\* The bytes of the current write, or of the last one as long as its end is not
\* looked at, are in twiBuffer, the last one of them possibly still in rxdr.
Written ==
  /\ bus = "write" => twiState = "Write"
  /\ twiState = "Write" =>
       /\ twiAddress = sentTo
       /\ bus \notin {"read", "refused", "hung"}
       /\ IF isr.rxne
            THEN \E before \in Seq(Byte) : sent = Append(before, rxdr) /\ twiBuffer = Cut(before)
            ELSE twiBuffer = Cut(sent)

\* The n-th byte a reader gets.
Expected(n) == IF n <= Len(twiBuffer) THEN twiBuffer[n] ELSE Filler

\* How many of the first n bytes a reader gets are of the reply.
OfReply(n) == IF n <= Len(twiBuffer) THEN n ELSE Len(twiBuffer)

\* The next byte to send is in txdr, or is asked for.
BeingRead ==
  bus = "read" =>
    /\ twiState = "Read"
    /\ IF txdr = << >>
         THEN isr.txis /\ twiReadPos = OfReply(Len(got))
         ELSE ~ isr.txis /\ txdr = <<Expected(Len(got) + 1)>> /\ twiReadPos = OfReply(Len(got) + 1)

IInv == Types /\ Wire /\ Seen /\ Written /\ BeingRead

-----------------------------------------------------------------------------
(***************************************************************************)
(* What the operators of the model return.                                 *)
(***************************************************************************)
\* An effect of BusCallback: a reply that fits the buffer, and perhaps a call.
LEMMA CallbackEffects ==
  ASSUME NEW a, NEW r, NEW e \in BusCallback(a, r)
  PROVE  /\ e.reply \in Seq(Byte) /\ Len(e.reply) <= MAX_PACKET_LENGTH
         /\ e.call \in {"none", "BusSetDeviceAddress", "BusResetDeviceAddress", "resetSystem"}
         /\ e.call = "BusSetDeviceAddress" => e.address \in 1 .. 127
         /\ e.call = "resetSystem" => e.reply = << >>
<1>1. \A x \in Replies : x \in Seq(Byte) /\ Len(x) <= MAX_PACKET_LENGTH
  BY CallbackAssumption, TwoWireAssumption DEF Byte
<1>2. << >> \in Replies /\ \A x \in NewAddresses : x \in 1 .. 127
  BY CallbackAssumption
<1>3. CASE e = handleGeneralCall(r)
  BY <1>1, <1>2, <1>3 DEF handleGeneralCall, Effect, Nothing
<1>4. CASE \E reply \in Replies : e = Nothing(reply)
  BY <1>1, <1>4 DEF Effect, Nothing
<1>5. CASE \E reply \in Replies \ {<< >>}, x \in NewAddresses : e = Effect(reply, "BusSetDeviceAddress", x)
  BY <1>1, <1>2, <1>5 DEF Effect
<1>6. QED
  BY <1>3, <1>4, <1>5 DEF BusCallback

\* The lengths the proofs compare.
LEMMA Lengths ==
  ASSUME Types
  PROVE  /\ MAX_PACKET_LENGTH \in Nat \ {0} /\ Len(twiBuffer) \in 0 .. MAX_PACKET_LENGTH
         /\ Len(sent) \in Nat /\ Len(got) \in Nat /\ MaxRead \in Nat
<1>1. twiBuffer \in Seq(Byte) /\ sent \in Seq(Byte) /\ got \in Seq(Byte)
  BY DEF Types
<1>2. Len(twiBuffer) \in Nat /\ Len(sent) \in Nat /\ Len(got) \in Nat
  BY <1>1, LenProperties
<1>3. MAX_PACKET_LENGTH \in Nat \ {0} /\ MaxRead \in Nat /\ Len(twiBuffer) <= MAX_PACKET_LENGTH
  BY TwoWireAssumption DEF Types, TwoWireTypeOK
<1>4. Len(twiBuffer) \in 0 .. MAX_PACKET_LENGTH
  BY <1>2, <1>3
<1>5. QED
  BY <1>2, <1>3, <1>4

\* A request that is cut takes a byte more only when it has room for it.
LEMMA CutAppend ==
  ASSUME NEW s \in Seq(Byte), NEW b \in Byte
  PROVE  Cut(Append(s, b)) = IF Len(Cut(s)) < MAX_PACKET_LENGTH THEN Append(Cut(s), b) ELSE Cut(s)
<1> DEFINE m == MAX_PACKET_LENGTH
<1> DEFINE t == Append(s, b)
<1>1. m \in Nat \ {0} /\ Len(s) \in Nat /\ \A i \in 1 .. Len(s) : s[i] \in Byte
  BY TwoWireAssumption, LenProperties, ElementOfSeq
<1>2. t \in Seq(Byte) /\ Len(t) = Len(s) + 1 /\ \A i \in 1 .. Len(s) : t[i] = s[i]
  BY AppendProperties
<1> HIDE DEF t
<1>3. CASE Len(s) < m
  <2>1. Cut(s) = s /\ Cut(t) = t
    BY <1>1, <1>2, <1>3 DEF Cut
  <2>2. QED
    BY <1>3, <2>1 DEF t
<1>4. CASE ~ (Len(s) < m)
  <2> DEFINE u == SubSeq(s, 1, m)
  <2> DEFINE v == SubSeq(t, 1, m)
  <2>1. \A i \in 1 .. m : i \in 1 .. Len(s)
    BY <1>1, <1>4
  <2>2. (\A i \in 1 .. m : s[i] \in Byte) /\ (\A i \in 1 .. m : t[i] \in Byte)
    BY <1>1, <1>2, <2>1
  <2>3. m \in Int /\ 1 \in Int /\ 1 <= m /\ m - 1 + 1 = m
    BY <1>1
  <2>4. u \in Seq(Byte) /\ Len(u) = m /\ \A i \in 1 .. m : u[i] = s[i]
    <3>1. /\ u \in Seq(Byte) /\ Len(u) = IF 1 <= m THEN m - 1 + 1 ELSE 0
          /\ \A i \in 1 .. m - 1 + 1 : u[i] = s[1 + i - 1]
      BY <2>2, <2>3, SubSeqProperties
    <3>2. \A i \in 1 .. m : 1 + i - 1 = i
      BY <1>1
    <3>3. QED
      BY <2>3, <3>1, <3>2
  <2>5. v \in Seq(Byte) /\ Len(v) = m /\ \A i \in 1 .. m : v[i] = t[i]
    <3>1. /\ v \in Seq(Byte) /\ Len(v) = IF 1 <= m THEN m - 1 + 1 ELSE 0
          /\ \A i \in 1 .. m - 1 + 1 : v[i] = t[1 + i - 1]
      BY <2>2, <2>3, SubSeqProperties
    <3>2. \A i \in 1 .. m : 1 + i - 1 = i
      BY <1>1
    <3>3. QED
      BY <2>3, <3>1, <3>2
  <2>6. u = v
    <3>1. Len(u) = Len(v) /\ \A i \in 1 .. Len(u) : u[i] = v[i]
      BY <1>2, <2>1, <2>4, <2>5
    <3>2. QED
      BY <2>4, <2>5, <3>1, SeqEqual
  <2>7. Cut(s) = u
    <3>1. CASE Len(s) <= m
      <4>1. Len(s) = m
        BY <1>1, <1>4, <3>1
      <4>2. u = s
        BY <4>1, SubSeqFull
      <4>3. QED
        BY <3>1, <4>2 DEF Cut
    <3>2. CASE ~ (Len(s) <= m)
      BY <3>2 DEF Cut
    <3>3. QED
      BY <3>1, <3>2
  <2>8. Cut(t) = v
    <3>1. ~ (Len(t) <= m)
      BY <1>1, <1>2, <1>4
    <3>2. QED
      BY <3>1 DEF Cut
  <2>9. ~ (Len(Cut(s)) < m)
    BY <1>1, <2>4, <2>7
  <2>10. QED
    BY <2>6, <2>7, <2>8, <2>9 DEF t
<1>5. QED
  BY <1>3, <1>4

\* Only the empty request is cut to an empty one.
LEMMA CutEmpty ==
  ASSUME NEW s \in Seq(Byte)
  PROVE  Cut(<< >>) = << >> /\ (Cut(s) = << >> <=> s = << >>)
<1>1. MAX_PACKET_LENGTH \in Nat \ {0} /\ Len(s) \in Nat /\ Len(<< >>) = 0
      /\ \A i \in 1 .. Len(s) : s[i] \in Byte
  BY TwoWireAssumption, LenProperties, EmptySeq, ElementOfSeq
<1>2. Cut(<< >>) = << >>
  BY <1>1 DEF Cut
<1>3. CASE Len(s) <= MAX_PACKET_LENGTH
  BY <1>2, <1>3 DEF Cut
<1>4. CASE ~ (Len(s) <= MAX_PACKET_LENGTH)
  <2> DEFINE m == MAX_PACKET_LENGTH
  <2>1. m \in Int /\ 1 \in Int /\ 1 <= m /\ m - 1 + 1 = m /\ m # 0
    BY <1>1
  <2>2. \A i \in 1 .. m : s[i] \in Byte
    BY <1>1, <1>4
  <2>3. Len(SubSeq(s, 1, m)) = IF 1 <= m THEN m - 1 + 1 ELSE 0
    BY <2>1, <2>2, SubSeqProperties
  <2>4. Len(Cut(s)) = m
    BY <1>4, <2>1, <2>3 DEF Cut
  <2>5. Cut(s) # << >> /\ s # << >>
    BY <1>1, <1>4, <2>1, <2>4
  <2>6. QED
    BY <1>2, <2>5
<1>5. QED
  BY <1>3, <1>4

\* The byte received is added only when there is room for it.
LEMMA ReceivedTypes ==
  ASSUME Types, NEW s
  PROVE  Received(s) \in Seq(Byte) /\ Len(Received(s)) \in 0 .. MAX_PACKET_LENGTH
<1>1. twiBuffer \in Seq(Byte) /\ rxdr \in Byte
      /\ MAX_PACKET_LENGTH \in Nat /\ Len(twiBuffer) \in 0 .. MAX_PACKET_LENGTH
  BY Lengths DEF Types
<1>2. /\ Append(twiBuffer, rxdr) \in Seq(Byte)
      /\ Len(Append(twiBuffer, rxdr)) = Len(twiBuffer) + 1
  BY <1>1, AppendProperties
<1>3. CASE s.rxne /\ Len(twiBuffer) < MAX_PACKET_LENGTH
  <2>1. Received(s) = Append(twiBuffer, rxdr)
    BY <1>3 DEF Received
  <2>2. Len(twiBuffer) + 1 \in 0 .. MAX_PACKET_LENGTH
    BY <1>1, <1>3
  <2>3. QED
    BY <1>2, <2>1, <2>2
<1>4. CASE ~ (s.rxne /\ Len(twiBuffer) < MAX_PACKET_LENGTH)
  <2>1. Received(s) = twiBuffer
    BY <1>4 DEF Received
  <2>2. QED
    BY <1>1, <2>1
<1>5. QED
  BY <1>3, <1>4

\* What is there without a call fits the buffer too.
LEMMA EffectTypes ==
  ASSUME Types, NEW s, NEW e \in Effects(s)
  PROVE  /\ e.reply \in Seq(Byte) /\ Len(e.reply) <= MAX_PACKET_LENGTH
         /\ e.call \in {"none", "BusSetDeviceAddress", "BusResetDeviceAddress", "resetSystem"}
         /\ e.call = "BusSetDeviceAddress" => e.address \in 1 .. 127
         /\ e.call = "resetSystem" => e.reply = << >>
         /\ ~ CallbackDue(s) => e.reply = Received(s) /\ e.call = "none"
<1>1. CASE CallbackDue(s)
  BY <1>1, CallbackEffects DEF Effects
<1>2. CASE ~ CallbackDue(s)
  <2>1. e.reply = Received(s) /\ e.call = "none"
    BY <1>2 DEF Effects, Nothing, Effect
  <2>2. Received(s) \in Seq(Byte) /\ Len(Received(s)) <= MAX_PACKET_LENGTH
    BY ReceivedTypes
  <2>3. QED
    BY <2>1, <2>2
<1>3. QED
  BY <1>1, <1>2

-----------------------------------------------------------------------------
(***************************************************************************)
(* What the steps of the driver do.                                        *)
(***************************************************************************)
\* What BusUpdate has seen are flags.
LEMMA SeenFlags ==
  ASSUME Types, status # << >>
  PROVE  status[1] \in Flags
BY DEF Types

\* When BusUpdate has seen the end of a transaction, no byte of it is left to come.
LEMMA SeenEnd ==
  ASSUME IInv, status # << >>, status[1].stopf \/ status[1].addr
  PROVE  /\ bus \in {"free", "address"}
         /\ isr.rxne <=> status[1].rxne
         /\ twiState = "Write" => Received(status[1]) = Cut(sent) /\ twiAddress = sentTo
         /\ twiState # "Write" => Received(status[1]) = twiBuffer
<1> DEFINE s == status[1]
<1>1. s \in Flags /\ isr \in Flags /\ rxdr \in Byte
  BY SeenFlags DEF IInv, Types
<1>2. bus \in {"free", "address"} /\ (isr.rxne <=> s.rxne)
  BY <1>1 DEF IInv, Seen, Wire
<1>3. ASSUME twiState # "Write" PROVE Received(s) = twiBuffer
  BY <1>2, <1>3 DEF IInv, Wire, Received
<1>4. ASSUME twiState = "Write" PROVE Received(s) = Cut(sent) /\ twiAddress = sentTo
  <2>1. CASE isr.rxne
    <3>1. PICK before \in Seq(Byte) : sent = Append(before, rxdr) /\ twiBuffer = Cut(before)
      BY <1>4, <2>1 DEF IInv, Written
    <3>2. Cut(Append(before, rxdr)) =
            IF Len(Cut(before)) < MAX_PACKET_LENGTH THEN Append(Cut(before), rxdr) ELSE Cut(before)
      BY <1>1, CutAppend
    <3>3. QED
      BY <1>2, <1>4, <2>1, <3>1, <3>2 DEF Received, IInv, Written
  <2>2. CASE ~ isr.rxne
    BY <1>2, <1>4, <2>2 DEF Received, IInv, Written
  <2>3. QED
    BY <2>1, <2>2
<1>5. QED
  BY <1>2, <1>3, <1>4

\* The byte to send next.
NextByte(s) ==
  IF ~ s.txis THEN txdr
  ELSE IF Sends(s) THEN <<Received(s)[twiReadPos + 1]>> ELSE <<Filler>>

\* What an address leads to.
AnswersWrite ==
  /\ bus = "address" /\ ~ isr.read
  /\ bus' = "write" /\ twiState' = "Write" /\ twiBuffer' = << >> /\ twiReadPos' = twiReadPos
  /\ isr' = [NoFlags EXCEPT !.txis = isr.read, !.read = isr.read] /\ txdr' = << >>
  /\ sent' = << >> /\ sentTo' = addcode /\ twiAddress' = addcode
  /\ got' = got

AnswersRead(e) ==
  /\ bus = "address" /\ isr.read /\ e.reply # << >>
  /\ bus' = "read" /\ twiState' = "Read" /\ twiBuffer' = e.reply /\ twiReadPos' = 0
  /\ isr' = [NoFlags EXCEPT !.txis = isr.read, !.read = isr.read] /\ txdr' = << >>
  /\ twiAddress' = addcode
  /\ got' = << >>
  /\ UNCHANGED <<sent, sentTo>>

Refuses(e) ==
  /\ bus = "address" /\ isr.read /\ e.reply = << >>
  /\ bus' = "refused" /\ twiState' = "Read" /\ twiBuffer' = e.reply /\ twiReadPos' = 0
  /\ isr' = NoFlags /\ txdr' = << >>
  /\ twiAddress' = addcode
  /\ UNCHANGED <<sent, sentTo, got>>

\* What BusUpdate does without an address.
Looks(e) ==
  /\ ~ status[1].addr
  /\ NoAddress(status[1], e.reply, NextByte(status[1]))

\* Forcing TXE leaves nothing to send.
LEMMA FlushedEmpty ==
  ASSUME NEW next \in Seq(Byte)
  PROVE  Flushed(next) = << >>
BY SubSeqEmpty DEF Flushed

\* The byte to send next is at most one.
LEMMA NextByteTypes ==
  ASSUME IInv, status # << >>
  PROVE  /\ NextByte(status[1]) \in Seq(Byte) /\ Len(NextByte(status[1])) <= 1
         /\ Sends(status[1]) => twiReadPos + 1 \in 0 .. MAX_PACKET_LENGTH
<1> DEFINE s == status[1]
<1>1. txdr \in Seq(Byte) /\ Len(txdr) <= 1 /\ twiReadPos \in 0 .. MAX_PACKET_LENGTH
      /\ MAX_PACKET_LENGTH \in Nat
  BY TwoWireAssumption DEF IInv, Types, TwoWireTypeOK
<1>2. Received(s) \in Seq(Byte) /\ Len(Received(s)) \in 0 .. MAX_PACKET_LENGTH
  BY ReceivedTypes DEF IInv
<1>3. ASSUME Sends(s)
      PROVE  twiReadPos + 1 \in 0 .. MAX_PACKET_LENGTH /\ Received(s)[twiReadPos + 1] \in Byte
  <2>1. twiReadPos < Len(Received(s))
    BY <1>3 DEF Sends
  <2>2. twiReadPos + 1 \in 1 .. Len(Received(s)) /\ twiReadPos + 1 \in 0 .. MAX_PACKET_LENGTH
    BY <1>1, <1>2, <2>1
  <2>3. QED
    BY <1>2, <2>2, ElementOfSeq
<1>4. \A b \in Byte : <<b>> \in Seq(Byte) /\ Len(<<b>>) <= 1
  OBVIOUS
<1>5. Filler \in Byte
  BY DEF Filler, Byte
<1>6. QED
  BY <1>1, <1>3, <1>4, <1>5 DEF NextByte

\* What Handle does, by what it has seen.
LEMMA HandleEffect ==
  ASSUME IInv, Handle
  PROVE  /\ status # << >> /\ status' = << >> /\ ExecutedNow(status[1])
         /\ UNCHANGED <<addcode, rxdr>>
         /\ \E e \in Effects(status[1]) :
              /\ e.call # "resetSystem" /\ oar2' = AddressAfter(e)
              /\ \/ /\ status[1].addr
                    /\ AnswersWrite \/ AnswersRead(e) \/ Refuses(e)
                 \/ Looks(e)
<1> DEFINE s == status[1]
<1>1. /\ status # << >> /\ status' = << >> /\ ExecutedNow(s)
      /\ UNCHANGED <<addcode, rxdr>>
  BY DEF Handle
<1>2. PICK e \in Effects(s) :
        /\ e.call # "resetSystem" /\ oar2' = AddressAfter(e)
        /\ IF s.addr THEN AddressMatched(s, e.reply, NextByte(s)) ELSE NoAddress(s, e.reply, NextByte(s))
  BY DEF Handle, NextByte
<1>3. CASE ~ s.addr
  BY <1>1, <1>2, <1>3 DEF Looks
<1>4. CASE s.addr
  <2>1. isr = s /\ bus = "address" /\ ~ s.txis
    BY <1>1, <1>4 DEF IInv, Seen, Wire
  <2>2. s \in Flags /\ txdr \in Seq(Byte) /\ twiReadPos \in Nat
    BY <1>1, SeenFlags DEF IInv, Types, TwoWireTypeOK
  <2>3. NextByte(s) = txdr /\ ~ Sends(s) /\ Flushed(txdr) = << >>
    BY <2>1, <2>2, FlushedEmpty DEF NextByte, Sends
  <2>4. AddressMatched(s, e.reply, txdr)
    BY <1>2, <1>4, <2>3
  <2>5. AnswersWrite \/ AnswersRead(e) \/ Refuses(e)
    <3>1. CASE ~ s.read
      <4>1. twiReadPos + 0 = twiReadPos
        BY <2>2
      <4>2. QED
        BY <2>1, <2>3, <2>4, <3>1, <4>1 DEF AddressMatched, AnswersWrite
    <3>2. CASE s.read /\ e.reply # << >>
      BY <2>1, <2>3, <2>4, <3>2 DEF AddressMatched, AnswersRead
    <3>3. CASE s.read /\ e.reply = << >>
      BY <2>1, <2>3, <2>4, <3>3 DEF AddressMatched, Refuses
    <3>4. QED
      BY <3>1, <3>2, <3>3
  <2>6. QED
    BY <1>1, <1>2, <1>4, <2>5
<1>5. QED
  BY <1>3, <1>4

\* The flags that are left when there was no address.
LEMMA LooksFlags ==
  ASSUME IInv, status # << >>, NEW e, Looks(e)
  PROVE  /\ isr' \in Flags
         /\ isr'.rxne <=> isr.rxne /\ ~ status[1].rxne
         /\ isr'.txis <=> isr.txis /\ ~ status[1].txis
         /\ isr'.stopf <=> isr.stopf /\ ~ status[1].stopf
         /\ isr'.addr = isr.addr /\ isr'.read = isr.read
         /\ twiState' = IF WriteEnds(status[1]) THEN "Idle" ELSE twiState
         /\ twiBuffer' = e.reply
         /\ twiReadPos' = IF Sends(status[1]) THEN twiReadPos + 1 ELSE twiReadPos
         /\ txdr' = NextByte(status[1])
         /\ UNCHANGED <<twiAddress, bus, sent, sentTo, got>>
<1> DEFINE s == status[1]
<1>1. s \in Flags /\ isr \in Flags /\ twiReadPos \in Nat
  BY SeenFlags DEF IInv, Types, TwoWireTypeOK
<1>2. NoAddress(s, e.reply, NextByte(s))
  BY DEF Looks
<1>3. isr' = [isr EXCEPT !.rxne = isr.rxne /\ ~ s.rxne, !.txis = isr.txis /\ ~ s.txis,
                         !.stopf = isr.stopf /\ ~ s.stopf]
  BY <1>2 DEF NoAddress
<1>4. /\ isr' \in Flags
      /\ isr'.rxne <=> isr.rxne /\ ~ s.rxne
      /\ isr'.txis <=> isr.txis /\ ~ s.txis
      /\ isr'.stopf <=> isr.stopf /\ ~ s.stopf
      /\ isr'.addr = isr.addr /\ isr'.read = isr.read
  BY <1>1, <1>3 DEF Flags
<1>5. twiReadPos' = IF Sends(s) THEN twiReadPos + 1 ELSE twiReadPos
  BY <1>1, <1>2 DEF NoAddress
<1>6. QED
  BY <1>2, <1>4, <1>5 DEF NoAddress, wireHistory

\* A reset, and a change of address that comes too late, end a transaction.
LEMMA CalledEffect ==
  ASSUME IInv, status # << >>, NEW e \in Effects(status[1]), e.call # "none"
  PROVE  CallbackDue(status[1]) /\ (status[1].stopf \/ status[1].addr)
         /\ bus \in {"free", "address"}
<1>1. CallbackDue(status[1])
  BY EffectTypes DEF IInv
<1>2. status[1].stopf \/ status[1].addr
  BY <1>1 DEF CallbackDue, WriteEnds
<1>3. QED
  BY <1>1, <1>2, SeenEnd

\* What a reset leaves.
LEMMA ResetEffect ==
  ASSUME IInv, SystemReset
  PROVE  /\ status # << >> /\ status' = << >> /\ ExecutedNow(status[1])
         /\ isr' = NoFlags /\ txdr' = << >>
         /\ bus \in {"address", "free"}
         /\ status[1].stopf \/ status[1].addr
         /\ bus' = IF bus = "address" THEN "refused" ELSE bus
         /\ twiState' = "Idle" /\ twiBuffer' = << >> /\ twiReadPos' = 0 /\ twiAddress' = 0
         /\ oar2' = ResetDeviceAddress
         /\ UNCHANGED <<addcode, rxdr, sent, sentTo, got>>
         /\ \E e \in Effects(status[1]) : e.call = "resetSystem"
<1>1. PICK e \in Effects(status[1]) : e.call = "resetSystem"
  BY DEF SystemReset
<1>2. status # << >>
  BY DEF SystemReset
<1>3. bus \in {"address", "free"} /\ (status[1].stopf \/ status[1].addr)
  BY <1>1, <1>2, CalledEffect
<1>4. QED
  BY <1>1, <1>2, <1>3 DEF SystemReset, Restarted, wireHistory

\* What blocks the bus.
LEMMA ConfusedEffect ==
  ASSUME IInv, Confused
  PROVE  /\ status # << >> /\ status' = << >> /\ ExecutedNow(status[1])
         /\ isr' = NoFlags /\ bus = "address" /\ bus' = "hung" /\ twiState' = "Idle"
         /\ status[1].stopf \/ status[1].addr
         /\ UNCHANGED <<twiReadPos, twiAddress, addcode, rxdr, txdr, sent, sentTo, got>>
         /\ \E e \in Effects(status[1]) :
              e.call = "BusSetDeviceAddress" /\ twiBuffer' = e.reply /\ oar2' = AddressAfter(e)
<1>1. PICK e \in Effects(status[1]) :
        e.call = "BusSetDeviceAddress" /\ twiBuffer' = e.reply /\ oar2' = AddressAfter(e)
  BY DEF Confused
<1>2. status # << >> /\ isr.addr
  BY DEF Confused
<1>3. status[1].stopf \/ status[1].addr
  BY <1>1, <1>2, CalledEffect
<1>4. bus = "address"
  BY <1>2 DEF IInv, Wire
<1>5. QED
  BY <1>1, <1>2, <1>3, <1>4 DEF Confused, wireHistory

-----------------------------------------------------------------------------
(***************************************************************************)
(* The invariant.                                                          *)
(***************************************************************************)
\* Addresses the driver is given.
LEMMA AddressTypes ==
  ASSUME Types, NEW s, NEW e \in Effects(s)
  PROVE  AddressAfter(e) \in [address : 0 .. 127, msk : 0 .. 7]
<1>1. oar2 \in [address : 0 .. 127, msk : 0 .. 7]
  BY DEF Types, TwoWireTypeOK
<1>2. ResetDeviceAddress \in [address : 0 .. 127, msk : 0 .. 7]
  BY DEF ResetDeviceAddress, INITIAL_ADDRESS, INITIAL_BITS
<1>3. CASE e.call = "BusSetDeviceAddress"
  <2>1. e.address \in 1 .. 127
    BY <1>3, EffectTypes
  <2>2. QED
    BY <1>3, <2>1 DEF AddressAfter, SetDeviceAddress
<1>4. CASE e.call # "BusSetDeviceAddress"
  BY <1>1, <1>2, <1>4 DEF AddressAfter
<1>5. QED
  BY <1>3, <1>4

\* The types and the flags at first.
LEMMA InitIInv == Init => IInv
<1> SUFFICES ASSUME Init PROVE IInv
  OBVIOUS
<1>1. << >> \in Seq(Byte) /\ Len(<< >>) = 0 /\ MAX_PACKET_LENGTH \in Nat /\ MaxRead \in Nat
  BY EmptySeq, TwoWireAssumption
<1>2. Len(<< >>) <= MAX_PACKET_LENGTH /\ Len(<< >>) <= MaxRead /\ Len(<< >>) <= 1
      /\ 0 \in 0 .. MAX_PACKET_LENGTH /\ 0 \in 0 .. 127 /\ 0 \in Byte
  BY <1>1 DEF Byte
<1>3. ResetDeviceAddress \in [address : 0 .. 127, msk : 0 .. 7]
  BY DEF ResetDeviceAddress, INITIAL_ADDRESS, INITIAL_BITS
<1>4. TwoWireTypeOK
  BY <1>2, <1>3 DEF Init, TwoWireTypeOK, NoFlags
<1>5. Types
  BY <1>1, <1>2, <1>4 DEF Init, Types, NoFlags, Flags
<1>6. Wire /\ Seen /\ Written /\ BeingRead
  BY DEF Init, Wire, Seen, Written, BeingRead, NoFlags
<1>7. QED
  BY <1>5, <1>6 DEF IInv

\* The flags are flags whatever is set or cleared.
LEMMA FlagTypes ==
  ASSUME isr \in Flags, NEW read \in BOOLEAN, NEW stopf \in BOOLEAN
  PROVE  /\ [NoFlags EXCEPT !.txis = isr.read, !.read = isr.read] \in Flags
         /\ [isr EXCEPT !.addr = TRUE, !.read = read, !.txis = FALSE] \in Flags
         /\ [isr EXCEPT !.rxne = TRUE] \in Flags
         /\ [isr EXCEPT !.txis = TRUE] \in Flags
         /\ [isr EXCEPT !.stopf = stopf, !.txis = FALSE] \in Flags
         /\ NoFlags \in Flags
         /\ \A f \in Flags : DOMAIN f = DOMAIN NoFlags
BY DEF Flags, NoFlags

\* No step disturbs the types.
LEMMA StepTypes == IInv /\ [Next]_twoWireVars => Types'
<1> SUFFICES ASSUME IInv, [Next]_twoWireVars PROVE Types'
  OBVIOUS
<1> USE DEF driver, wireHistory
<1>1. Types /\ Wire /\ Seen /\ Written /\ BeingRead
  BY DEF IInv
<1>2. /\ << >> \in Seq(Byte) /\ Len(<< >>) = 0 /\ MAX_PACKET_LENGTH \in Nat \ {0} /\ MaxRead \in Nat
      /\ Addresses \subseteq 0 .. 127 /\ Bytes \subseteq Byte
  BY EmptySeq, TwoWireAssumption DEF Byte
<1>3. /\ Len(<< >>) <= MAX_PACKET_LENGTH /\ Len(<< >>) <= MaxRead /\ Len(<< >>) <= 1
      /\ 0 \in 0 .. MAX_PACKET_LENGTH /\ 0 \in 0 .. 127
  BY <1>2
<1>4. ASSUME isr' \in Flags PROVE DOMAIN isr' = DOMAIN NoFlags'
  BY <1>1, <1>4, FlagTypes DEF Types, NoFlags
<1>5. CASE Poll
  <2>1. status' = <<isr>> /\ UNCHANGED <<twiState, twiBuffer, twiReadPos, twiAddress>>
        /\ UNCHANGED <<oar2, isr, addcode, rxdr, txdr, bus, sent, sentTo, got>>
    BY <1>5 DEF Poll, registers
  <2>2. QED
    BY <1>1, <2>1 DEF Types, TwoWireTypeOK
<1>6. CASE Handle
  <2>1. status # << >> /\ status' = << >> /\ UNCHANGED <<addcode, rxdr>>
    BY <1>6, HandleEffect
  <2>2. PICK e \in Effects(status[1]) :
          /\ oar2' = AddressAfter(e)
          /\ AnswersWrite \/ AnswersRead(e) \/ Refuses(e) \/ Looks(e)
    BY <1>6, HandleEffect
  <2>3. oar2' \in [address : 0 .. 127, msk : 0 .. 7]
    BY <1>1, <2>2, AddressTypes
  <2>4. e.reply \in Seq(Byte) /\ Len(e.reply) <= MAX_PACKET_LENGTH
    BY <1>1, EffectTypes
  <2>5. CASE AnswersWrite \/ AnswersRead(e) \/ Refuses(e)
    <3>1. isr' = [NoFlags EXCEPT !.txis = isr.read, !.read = isr.read] \/ isr' = NoFlags
      BY <2>5 DEF AnswersWrite, AnswersRead, Refuses
    <3>2. isr' \in Flags
      BY <1>1, <3>1, FlagTypes DEF Types
    <3>3. twiBuffer' \in Seq(Byte) /\ Len(twiBuffer') <= MAX_PACKET_LENGTH
      <4>1. twiBuffer' = << >> \/ twiBuffer' = e.reply
        BY <2>5 DEF AnswersWrite, AnswersRead, Refuses
      <4>2. QED
        BY <1>2, <1>3, <2>4, <4>1, Zenon
    <3>4. sent' \in Seq(Byte) /\ got' \in Seq(Byte) /\ Len(got') <= MaxRead
      <4>1. (sent' = << >> \/ sent' = sent) /\ (got' = << >> \/ got' = got)
        BY <2>5 DEF AnswersWrite, AnswersRead, Refuses
      <4>2. sent \in Seq(Byte) /\ got \in Seq(Byte) /\ Len(got) <= MaxRead
        BY <1>1 DEF Types, TwoWireTypeOK
      <4>3. QED
        BY <1>2, <1>3, <4>1, <4>2, Zenon
    <3>5. /\ twiState' \in {"Idle", "Read", "Write"} /\ txdr' = << >> /\ twiAddress' = addcode
          /\ bus' \in {"free", "address", "write", "read", "refused", "hung"}
          /\ twiReadPos' = 0 \/ twiReadPos' = twiReadPos
      BY <2>5 DEF AnswersWrite, AnswersRead, Refuses
    <3>6. txdr' \in Seq(Byte) /\ Len(txdr') <= 1
      BY <1>2, <1>3, <3>5, Zenon
    <3>7. twiReadPos' \in 0 .. MAX_PACKET_LENGTH /\ twiAddress' \in 0 .. 127
      BY <1>1, <1>3, <3>5 DEF Types, TwoWireTypeOK
    <3>8. QED
      BY <1>1, <1>4, <2>1, <2>3, <3>2, <3>3, <3>4, <3>5, <3>6, <3>7 DEF Types, TwoWireTypeOK
  <2>6. CASE Looks(e)
    <3>1. /\ isr' \in Flags
          /\ twiState' \in {"Idle", twiState} /\ twiBuffer' = e.reply
          /\ twiReadPos' = IF Sends(status[1]) THEN twiReadPos + 1 ELSE twiReadPos
          /\ txdr' = NextByte(status[1])
          /\ UNCHANGED <<twiAddress, bus, sent, sentTo, got>>
      BY <2>1, <2>6, LooksFlags
    <3>2. txdr' \in Seq(Byte) /\ Len(txdr') <= 1
      BY <2>1, <3>1, NextByteTypes
    <3>3. twiReadPos' \in 0 .. MAX_PACKET_LENGTH
      BY <1>1, <2>1, <3>1, NextByteTypes DEF Types, TwoWireTypeOK
    <3>4. QED
      BY <1>1, <1>4, <2>1, <2>3, <2>4, <3>1, <3>2, <3>3 DEF Types, TwoWireTypeOK
  <2>7. QED
    BY <2>2, <2>5, <2>6
<1>7. CASE SystemReset
  <2>1. /\ isr' = NoFlags /\ status' = << >> /\ txdr' = << >>
        /\ bus' \in {"refused", "free"}
        /\ twiState' = "Idle" /\ twiBuffer' = << >> /\ twiReadPos' = 0 /\ twiAddress' = 0
        /\ oar2' = ResetDeviceAddress
        /\ UNCHANGED <<addcode, rxdr, sent, sentTo, got>>
    BY <1>7, ResetEffect
  <2>2. ResetDeviceAddress \in [address : 0 .. 127, msk : 0 .. 7]
    BY DEF ResetDeviceAddress, INITIAL_ADDRESS, INITIAL_BITS
  <2>3. isr' \in Flags
    BY <2>1 DEF NoFlags, Flags
  <2>4. QED
    BY <1>1, <1>2, <1>3, <1>4, <2>1, <2>2, <2>3 DEF Types, TwoWireTypeOK
<1>8. CASE Confused
  <2>1. /\ isr' = NoFlags /\ status' = << >> /\ bus' = "hung" /\ twiState' = "Idle"
        /\ UNCHANGED <<twiReadPos, twiAddress, addcode, rxdr, txdr, sent, sentTo, got>>
    BY <1>8, ConfusedEffect
  <2>2. PICK e \in Effects(status[1]) : twiBuffer' = e.reply /\ oar2' = AddressAfter(e)
    BY <1>8, ConfusedEffect
  <2>3. oar2' \in [address : 0 .. 127, msk : 0 .. 7]
    BY <1>1, <2>2, AddressTypes
  <2>4. twiBuffer' \in Seq(Byte) /\ Len(twiBuffer') <= MAX_PACKET_LENGTH
    BY <1>1, <2>2, EffectTypes
  <2>5. isr' \in Flags
    BY <2>1 DEF NoFlags, Flags
  <2>6. QED
    BY <1>1, <1>4, <2>1, <2>3, <2>4, <2>5 DEF Types, TwoWireTypeOK
<1>9. CASE PowerCycle
  <2>1. /\ isr' = NoFlags /\ txdr' = << >> /\ bus' = "free" /\ status' = status
        /\ twiState' = "Idle" /\ twiBuffer' = << >> /\ twiReadPos' = 0 /\ twiAddress' = 0
        /\ oar2' = ResetDeviceAddress
        /\ UNCHANGED <<addcode, rxdr, sent, sentTo, got>>
    BY <1>9 DEF PowerCycle, Restarted
  <2>2. ResetDeviceAddress \in [address : 0 .. 127, msk : 0 .. 7]
    BY DEF ResetDeviceAddress, INITIAL_ADDRESS, INITIAL_BITS
  <2>3. isr' \in Flags
    BY <2>1 DEF NoFlags, Flags
  <2>4. QED
    BY <1>1, <1>2, <1>3, <1>4, <2>1, <2>2, <2>3 DEF Types, TwoWireTypeOK
<1>10. ASSUME NEW a \in Addresses, NEW read \in BOOLEAN, MasterStarts(a, read) PROVE Types'
  <2>1. /\ bus' = "address" /\ addcode' = a
        /\ isr' = [isr EXCEPT !.addr = TRUE, !.read = read, !.txis = FALSE]
        /\ UNCHANGED <<twiState, twiBuffer, twiReadPos, twiAddress>>
        /\ UNCHANGED <<oar2, rxdr, txdr, status, sent, sentTo, got>>
    BY <1>10 DEF MasterStarts
  <2>2. isr' \in Flags
    BY <1>1, <2>1, FlagTypes DEF Types
  <2>3. addcode' \in 0 .. 127
    BY <1>2, <2>1
  <2>4. QED
    BY <1>1, <1>4, <2>1, <2>2, <2>3 DEF Types, TwoWireTypeOK
<1>11. ASSUME NEW b \in Bytes, MasterWrites(b) PROVE Types'
  <2>1. /\ sent' = Append(sent, b) /\ rxdr' = b
        /\ isr' = [isr EXCEPT !.rxne = TRUE]
        /\ UNCHANGED <<twiState, twiBuffer, twiReadPos, twiAddress>>
        /\ UNCHANGED <<oar2, addcode, txdr, status, bus, sentTo, got>>
    BY <1>11 DEF MasterWrites
  <2>2. b \in Byte
    BY <1>2
  <2>3. sent' \in Seq(Byte)
    BY <1>1, <2>1, <2>2, AppendProperties DEF Types
  <2>4. isr' \in Flags
    BY <1>1, <2>1, FlagTypes DEF Types
  <2>5. QED
    BY <1>1, <1>4, <2>1, <2>2, <2>3, <2>4 DEF Types, TwoWireTypeOK
<1>12. CASE MasterReads
  <2>1. /\ isr' = [isr EXCEPT !.txis = TRUE] /\ txdr' = << >>
        /\ got' = Append(got, txdr[1]) /\ txdr # << >> /\ Len(got) < MaxRead
        /\ UNCHANGED <<twiState, twiBuffer, twiReadPos, twiAddress>>
        /\ UNCHANGED <<oar2, addcode, rxdr, status, bus, sent, sentTo>>
    BY <1>12 DEF MasterReads
  <2>2. txdr[1] \in Byte
    <3>1. txdr \in Seq(Byte)
      BY <1>1 DEF Types
    <3>2. Len(txdr) \in Nat /\ Len(txdr) # 0
      BY <2>1, <3>1, EmptySeq, LenProperties
    <3>3. 1 \in 1 .. Len(txdr)
      BY <3>2
    <3>4. QED
      BY <3>1, <3>3, ElementOfSeq
  <2>3. got' \in Seq(Byte) /\ Len(got') <= MaxRead
    <3>1. got \in Seq(Byte) /\ Len(got) \in Nat
      BY <1>1, Lengths DEF Types
    <3>2. got' \in Seq(Byte) /\ Len(got') = Len(got) + 1
      BY <2>1, <2>2, <3>1, AppendProperties
    <3>3. QED
      BY <1>2, <2>1, <3>1, <3>2
  <2>4. isr' \in Flags
    BY <1>1, <2>1, FlagTypes DEF Types
  <2>5. QED
    BY <1>1, <1>2, <1>3, <1>4, <2>1, <2>3, <2>4 DEF Types, TwoWireTypeOK
<1>13. CASE MasterStops
  <2>1. /\ isr' = [isr EXCEPT !.stopf = isr.stopf \/ bus # "refused", !.txis = FALSE]
        /\ bus' = "free"
        /\ UNCHANGED <<twiState, twiBuffer, twiReadPos, twiAddress>>
        /\ UNCHANGED <<oar2, addcode, rxdr, txdr, status, sent, sentTo, got>>
    BY <1>13 DEF MasterStops
  <2>2. isr' \in Flags
    <3>1. (isr.stopf \/ bus # "refused") \in BOOLEAN
      OBVIOUS
    <3>2. QED
      BY <1>1, <2>1, <3>1, FlagTypes DEF Types
  <2>3. QED
    BY <1>1, <1>4, <2>1, <2>2 DEF Types, TwoWireTypeOK
<1>14. CASE UNCHANGED twoWireVars
  BY <1>1, <1>14 DEF twoWireVars, registers, Types, TwoWireTypeOK
<1>15. QED
  BY <1>5, <1>6, <1>7, <1>8, <1>9, <1>10, <1>11, <1>12, <1>13, <1>14 DEF Next, BusUpdate

\* What the flags are after a step of the master.
LEMMA MasterFlags ==
  ASSUME isr \in Flags
  PROVE  /\ \A a \in Addresses, read \in BOOLEAN : MasterStarts(a, read) =>
              /\ isr'.addr /\ isr'.read = read /\ ~ isr'.txis
              /\ isr'.rxne = isr.rxne /\ isr'.stopf = isr.stopf
         /\ \A b \in Bytes : MasterWrites(b) =>
              /\ isr'.rxne /\ isr'.addr = isr.addr /\ isr'.stopf = isr.stopf
              /\ isr'.txis = isr.txis /\ isr'.read = isr.read
         /\ MasterReads =>
              /\ isr'.txis /\ isr'.addr = isr.addr /\ isr'.stopf = isr.stopf
              /\ isr'.rxne = isr.rxne /\ isr'.read = isr.read
         /\ MasterStops =>
              /\ ~ isr'.txis /\ isr'.addr = isr.addr /\ isr'.rxne = isr.rxne
              /\ isr.stopf => isr'.stopf
              /\ isr'.read = isr.read
<1>1. ASSUME NEW a \in Addresses, NEW read \in BOOLEAN, MasterStarts(a, read)
      PROVE  /\ isr'.addr /\ isr'.read = read /\ ~ isr'.txis
             /\ isr'.rxne = isr.rxne /\ isr'.stopf = isr.stopf
  BY <1>1 DEF MasterStarts, Flags
<1>2. ASSUME NEW b \in Bytes, MasterWrites(b)
      PROVE  /\ isr'.rxne /\ isr'.addr = isr.addr /\ isr'.stopf = isr.stopf
             /\ isr'.txis = isr.txis /\ isr'.read = isr.read
  BY <1>2 DEF MasterWrites, Flags
<1>3. ASSUME MasterReads
      PROVE  /\ isr'.txis /\ isr'.addr = isr.addr /\ isr'.stopf = isr.stopf
             /\ isr'.rxne = isr.rxne /\ isr'.read = isr.read
  BY <1>3 DEF MasterReads, Flags
<1>4. ASSUME MasterStops
      PROVE  /\ ~ isr'.txis /\ isr'.addr = isr.addr /\ isr'.rxne = isr.rxne
             /\ isr.stopf => isr'.stopf
             /\ isr'.read = isr.read
  <2>1. isr' = [isr EXCEPT !.stopf = isr.stopf \/ bus # "refused", !.txis = FALSE]
    BY <1>4 DEF MasterStops
  <2>2. QED
    BY <2>1 DEF Flags
<1>5. QED
  BY <1>1, <1>2, <1>3, <1>4

\* The flags go on telling where the transaction is.
LEMMA StepWire == IInv /\ [Next]_twoWireVars => Wire'
<1> SUFFICES ASSUME IInv, [Next]_twoWireVars PROVE Wire'
  OBVIOUS
<1> USE DEF driver, registers, wireHistory
<1>1. Wire /\ Written /\ isr \in Flags
  BY DEF IInv, Types
<1>2. CASE Poll
  <2>1. bus \notin {"refused", "hung"}
    BY <1>1, <1>2 DEF Poll, Wire, Written
  <2>2. QED
    BY <1>1, <1>2, <2>1 DEF Poll, Wire
<1>3. CASE UNCHANGED twoWireVars
  BY <1>1, <1>3 DEF twoWireVars, Wire
<1>4. CASE Handle
  <2>1. status # << >> /\ status' = << >>
    BY <1>4, HandleEffect
  <2>2. PICK e \in Effects(status[1]) : AnswersWrite \/ AnswersRead(e) \/ Refuses(e) \/ Looks(e)
    BY <1>4, HandleEffect
  <2>3. CASE AnswersWrite \/ AnswersRead(e) \/ Refuses(e)
    <3>1. bus' \in {"write", "read", "refused"} /\ (bus' # "read" => isr' = NoFlags \/ ~ isr.read)
          /\ (isr' = [NoFlags EXCEPT !.txis = isr.read, !.read = isr.read] \/ isr' = NoFlags)
      BY <2>3 DEF AnswersWrite, AnswersRead, Refuses
    <3>2. ~ isr'.rxne /\ ~ isr'.stopf /\ ~ isr'.addr /\ (isr'.txis => isr.read)
      <4>1. NoFlags \in Flags /\ isr.read \in BOOLEAN
        BY <1>1 DEF NoFlags, Flags
      <4>2. ~ NoFlags.rxne /\ ~ NoFlags.stopf /\ ~ NoFlags.addr /\ ~ NoFlags.txis
        BY DEF NoFlags
      <4>3. QED
        BY <3>1, <4>1, <4>2 DEF Flags
    <3>3. isr' = NoFlags => ~ isr'.txis
      BY DEF NoFlags
    <3>4. QED
      BY <2>1, <3>1, <3>2, <3>3 DEF Wire
  <2>4. CASE Looks(e)
    <3>1. /\ isr'.rxne <=> isr.rxne /\ ~ status[1].rxne
          /\ isr'.txis => isr.txis
          /\ isr'.stopf => isr.stopf
          /\ isr'.addr = isr.addr
          /\ twiState' = IF WriteEnds(status[1]) THEN "Idle" ELSE twiState
          /\ bus' = bus
      BY <2>1, <2>4, LooksFlags
    <3>2. WriteEnds(status[1]) => (isr.rxne <=> status[1].rxne)
      BY <2>1, SeenEnd DEF WriteEnds
    <3>3. QED
      BY <1>1, <2>1, <3>1, <3>2 DEF Wire
  <2>5. QED
    BY <2>2, <2>3, <2>4
<1>5. CASE SystemReset
  <2>1. isr' = NoFlags /\ status' = << >> /\ bus' \in {"refused", "free"}
    BY <1>5, ResetEffect
  <2>2. QED
    BY <2>1 DEF Wire, NoFlags
<1>6. CASE Confused
  <2>1. isr' = NoFlags /\ status' = << >> /\ bus' = "hung"
    BY <1>6, ConfusedEffect
  <2>2. QED
    BY <2>1 DEF Wire, NoFlags
<1>7. CASE PowerCycle
  BY <1>7 DEF PowerCycle, Restarted, Wire, NoFlags
<1>8. ASSUME NEW a \in Addresses, NEW read \in BOOLEAN, MasterStarts(a, read) PROVE Wire'
  <2>1. bus' = "address" /\ isr'.addr /\ ~ isr'.txis /\ isr'.rxne = isr.rxne /\ twiState' = twiState
    BY <1>1, <1>8, MasterFlags DEF MasterStarts
  <2>2. QED
    BY <1>1, <2>1 DEF Wire
<1>9. ASSUME NEW b \in Bytes, MasterWrites(b) PROVE Wire'
  <2>1. /\ bus = "write" /\ bus' = bus /\ twiState' = twiState
        /\ isr'.addr = isr.addr /\ isr'.stopf = isr.stopf /\ isr'.txis = isr.txis
    BY <1>1, <1>9, MasterFlags DEF MasterWrites
  <2>2. QED
    BY <1>1, <2>1 DEF Wire, Written
<1>10. CASE MasterReads
  <2>1. /\ bus = "read" /\ bus' = bus /\ twiState' = twiState
        /\ isr'.addr = isr.addr /\ isr'.stopf = isr.stopf /\ isr'.rxne = isr.rxne
    BY <1>1, <1>10, MasterFlags DEF MasterReads
  <2>2. QED
    BY <1>1, <2>1 DEF Wire
<1>11. CASE MasterStops
  <2>1. /\ bus \in {"write", "read", "refused"} /\ bus' = "free" /\ twiState' = twiState
        /\ ~ isr'.txis /\ isr'.addr = isr.addr /\ isr'.rxne = isr.rxne
    BY <1>1, <1>11, MasterFlags DEF MasterStops
  <2>2. QED
    BY <1>1, <2>1 DEF Wire
<1>12. QED
  BY <1>2, <1>3, <1>4, <1>5, <1>6, <1>7, <1>8, <1>9, <1>10, <1>11 DEF Next, BusUpdate

\* What BusUpdate has seen stays so.
LEMMA StepSeen == IInv /\ [Next]_twoWireVars => Seen'
<1> SUFFICES ASSUME IInv, [Next]_twoWireVars PROVE Seen'
  OBVIOUS
<1> USE DEF driver, registers, wireHistory
<1>1. Wire /\ Seen /\ isr \in Flags
  BY DEF IInv, Types
<1>2. CASE Poll
  BY <1>2 DEF Poll, Seen
<1>3. CASE UNCHANGED twoWireVars
  BY <1>1, <1>3 DEF twoWireVars, Seen
<1>4. CASE BusUpdate
  <2>1. status' = << >>
    BY <1>4 DEF BusUpdate, Handle, SystemReset, Confused
  <2>2. QED
    BY <2>1 DEF Seen
<1>5. CASE PowerCycle
  <2>1. status' = << >>
    BY <1>1, <1>5 DEF PowerCycle, Wire
  <2>2. QED
    BY <2>1 DEF Seen
<1>6. ASSUME NEW a \in Addresses, NEW read \in BOOLEAN, MasterStarts(a, read) PROVE Seen'
  <2>1. ~ isr.addr /\ bus' = "address" /\ status' = status
        /\ isr'.rxne = isr.rxne /\ isr'.stopf = isr.stopf
    BY <1>1, <1>6, MasterFlags DEF MasterStarts
  <2>2. QED
    BY <1>1, <2>1 DEF Seen
<1>7. ASSUME NEW b \in Bytes, MasterWrites(b) PROVE Seen'
  <2>1. /\ bus = "write" /\ bus' = bus /\ status' = status
        /\ isr'.rxne /\ isr'.addr = isr.addr /\ isr'.stopf = isr.stopf
    BY <1>1, <1>7, MasterFlags DEF MasterWrites
  <2>2. QED
    BY <1>1, <2>1 DEF Seen, Wire
<1>8. CASE MasterReads
  <2>1. /\ bus = "read" /\ bus' = bus /\ status' = status
        /\ isr'.txis /\ isr'.addr = isr.addr /\ isr'.stopf = isr.stopf /\ isr'.rxne = isr.rxne
    BY <1>1, <1>8, MasterFlags DEF MasterReads
  <2>2. QED
    BY <1>1, <2>1 DEF Seen, Wire
<1>9. CASE MasterStops
  <2>1. /\ bus \in {"write", "read", "refused"} /\ bus' = "free" /\ status' = status
        /\ isr'.addr = isr.addr /\ isr'.rxne = isr.rxne /\ (isr.stopf => isr'.stopf)
    BY <1>1, <1>9, MasterFlags DEF MasterStops
  <2>2. QED
    BY <1>1, <2>1 DEF Seen, Wire
<1>10. QED
  BY <1>2, <1>3, <1>4, <1>5, <1>6, <1>7, <1>8, <1>9 DEF Next

\* The buffer goes on holding what was written.
LEMMA StepWritten == IInv /\ [Next]_twoWireVars => Written'
<1> SUFFICES ASSUME IInv, [Next]_twoWireVars PROVE Written'
  OBVIOUS
<1> USE DEF driver, registers, wireHistory
<1>1. Types /\ Wire /\ Seen /\ Written /\ isr \in Flags /\ rxdr \in Byte
  BY DEF IInv, Types
<1>2. CASE Poll \/ UNCHANGED twoWireVars
  <2>1. UNCHANGED <<bus, twiState, twiAddress, twiBuffer, isr, rxdr, sent, sentTo>>
    BY <1>2 DEF Poll, twoWireVars
  <2>2. QED
    BY <1>1, <2>1 DEF Written, Cut
<1>3. CASE Handle
  <2>1. status # << >> /\ rxdr' = rxdr
    BY <1>3, HandleEffect
  <2>2. PICK e \in Effects(status[1]) : AnswersWrite \/ AnswersRead(e) \/ Refuses(e) \/ Looks(e)
    BY <1>3, HandleEffect
  <2>3. CASE AnswersWrite
    <3>1. sent' = << >> /\ twiBuffer' = Cut(<< >>)
      BY <2>3, CutEmpty, EmptySeq DEF AnswersWrite
    <3>2. twiBuffer' = Cut(sent') /\ ~ isr'.rxne
      BY <2>3, <3>1 DEF AnswersWrite, NoFlags
    <3>3. QED
      BY <2>3, <3>2 DEF AnswersWrite, Written, Cut
  <2>4. CASE AnswersRead(e) \/ Refuses(e)
    BY <2>4 DEF AnswersRead, Refuses, Written
  <2>5. CASE Looks(e)
    <3>1. /\ isr'.rxne <=> isr.rxne /\ ~ status[1].rxne
          /\ twiState' = IF WriteEnds(status[1]) THEN "Idle" ELSE twiState
          /\ twiBuffer' = e.reply
          /\ UNCHANGED <<twiAddress, bus, sent, sentTo>>
      BY <2>1, <2>5, LooksFlags
    <3>2. CASE WriteEnds(status[1])
      <4>1. bus \in {"free", "address"}
        BY <2>1, <3>2, SeenEnd DEF WriteEnds
      <4>2. QED
        BY <3>1, <3>2, <4>1 DEF Written
    <3>3. CASE ~ WriteEnds(status[1]) /\ twiState # "Write"
      BY <1>1, <3>1, <3>3 DEF Written
    <3>4. CASE ~ WriteEnds(status[1]) /\ twiState = "Write"
      <4>1. twiBuffer' = Received(status[1])
        <5>1. ~ CallbackDue(status[1])
          BY <3>4 DEF CallbackDue
        <5>2. QED
          BY <1>1, <3>1, <5>1, EffectTypes
      <4>2. CASE status[1].rxne
        <5>1. isr.rxne
          BY <1>1, <2>1, <4>2 DEF Seen
        <5>2. PICK before \in Seq(Byte) : sent = Append(before, rxdr) /\ twiBuffer = Cut(before)
          BY <1>1, <3>4, <5>1 DEF Written
        <5>3. Received(status[1]) = Cut(sent)
          <6>1. Cut(Append(before, rxdr)) =
                  IF Len(Cut(before)) < MAX_PACKET_LENGTH THEN Append(Cut(before), rxdr) ELSE Cut(before)
            BY <1>1, CutAppend
          <6>2. QED
            BY <4>2, <5>2, <6>1 DEF Received
        <5>4. twiBuffer' = Cut(sent) /\ ~ isr'.rxne
          BY <3>1, <4>1, <4>2, <5>3
        <5>5. QED
          BY <1>1, <3>1, <3>4, <5>4 DEF Written, Cut
      <4>3. CASE ~ status[1].rxne
        <5>1. twiBuffer' = twiBuffer /\ (isr'.rxne <=> isr.rxne)
          BY <3>1, <4>1, <4>3 DEF Received
        <5>2. QED
          BY <1>1, <2>1, <3>1, <3>4, <5>1 DEF Written, Cut
      <4>4. QED
        BY <4>2, <4>3
    <3>5. QED
      BY <3>2, <3>3, <3>4
  <2>6. QED
    BY <2>2, <2>3, <2>4, <2>5
<1>4. CASE SystemReset
  BY <1>4, ResetEffect DEF Written
<1>5. CASE Confused
  BY <1>5, ConfusedEffect DEF Written
<1>6. CASE PowerCycle
  BY <1>6 DEF PowerCycle, Restarted, Written
<1>7. ASSUME NEW a \in Addresses, NEW read \in BOOLEAN, MasterStarts(a, read) PROVE Written'
  <2>1. isr'.rxne = isr.rxne /\ bus' = "address"
        /\ UNCHANGED <<twiState, twiAddress, twiBuffer, rxdr, sent, sentTo>>
    BY <1>1, <1>7, MasterFlags DEF MasterStarts
  <2>2. QED
    BY <1>1, <2>1 DEF Written, Cut
<1>8. ASSUME NEW b \in Bytes, MasterWrites(b) PROVE Written'
  <2>1. ~ isr.rxne /\ bus = "write" /\ isr'.rxne /\ sent' = Append(sent, b) /\ rxdr' = b
        /\ UNCHANGED <<twiState, twiAddress, twiBuffer, sentTo, bus>>
    BY <1>1, <1>8, MasterFlags DEF MasterWrites
  <2>2. sent \in Seq(Byte) /\ sent' = Append(sent, rxdr') /\ twiBuffer' = Cut(sent)
    BY <1>1, <2>1 DEF Written, Types
  <2>3. \E before \in Seq(Byte) : sent' = Append(before, rxdr') /\ twiBuffer' = Cut(before)
    BY <2>2
  <2>4. QED
    BY <1>1, <2>1, <2>3 DEF Written, Cut
<1>9. CASE MasterReads
  BY <1>1, <1>9 DEF MasterReads, Written
<1>10. CASE MasterStops
  <2>1. /\ isr'.rxne = isr.rxne /\ bus' = "free"
        /\ UNCHANGED <<twiState, twiAddress, twiBuffer, rxdr, sent, sentTo>>
    BY <1>1, <1>10, MasterFlags DEF MasterStops
  <2>2. QED
    BY <1>1, <2>1 DEF Written, Cut
<1>11. QED
  BY <1>2, <1>3, <1>4, <1>5, <1>6, <1>7, <1>8, <1>9, <1>10 DEF Next, BusUpdate

\* The lengths of a reply and of what has been read of it.
LEMMA OfReplyNext ==
  ASSUME NEW n \in Nat, NEW pos, pos = OfReply(n), Types
  PROVE  /\ pos < Len(twiBuffer) => pos = n /\ n + 1 <= Len(twiBuffer) /\ OfReply(n + 1) = pos + 1
         /\ ~ (pos < Len(twiBuffer)) => ~ (n + 1 <= Len(twiBuffer)) /\ OfReply(n + 1) = pos
<1>1. Len(twiBuffer) \in Nat
  BY Lengths
<1>2. QED
  BY <1>1 DEF OfReply

\* The reader goes on getting the bytes in order.
LEMMA StepBeingRead == IInv /\ [Next]_twoWireVars => BeingRead'
<1> SUFFICES ASSUME IInv, [Next]_twoWireVars PROVE BeingRead'
  OBVIOUS
<1> USE DEF driver, registers, wireHistory
<1>1. Types /\ Wire /\ Seen /\ BeingRead /\ isr \in Flags
  BY DEF IInv, Types
<1>2. Len(got) \in Nat /\ Len(twiBuffer) \in Nat
  BY <1>1, Lengths
<1>3. CASE Poll \/ UNCHANGED twoWireVars
  <2>1. UNCHANGED <<bus, twiState, twiBuffer, twiReadPos, isr, txdr, got>>
    BY <1>3 DEF Poll, twoWireVars
  <2>2. QED
    BY <1>1, <2>1 DEF BeingRead, OfReply, Expected
<1>4. CASE Handle
  <2>1. status # << >>
    BY <1>4, HandleEffect
  <2>2. PICK e \in Effects(status[1]) : AnswersWrite \/ AnswersRead(e) \/ Refuses(e) \/ Looks(e)
    BY <1>4, HandleEffect
  <2>3. CASE AnswersWrite \/ Refuses(e)
    BY <2>3 DEF AnswersWrite, Refuses, BeingRead
  <2>4. CASE AnswersRead(e)
    <3>1. /\ twiState' = "Read" /\ twiReadPos' = 0 /\ got' = << >> /\ txdr' = << >>
          /\ isr'.txis
      BY <2>4 DEF AnswersRead, NoFlags
    <3>2. Len(got') = 0 /\ Len(twiBuffer)' \in Nat
      BY <3>1, EmptySeq, StepTypes, LenProperties DEF Types
    <3>3. OfReply(Len(got))' = 0
      BY <3>2 DEF OfReply
    <3>4. QED
      BY <3>1, <3>3 DEF BeingRead
  <2>5. CASE Looks(e)
    <3>1. /\ isr'.txis <=> isr.txis /\ ~ status[1].txis
          /\ twiState' = IF WriteEnds(status[1]) THEN "Idle" ELSE twiState
          /\ twiBuffer' = e.reply
          /\ twiReadPos' = IF Sends(status[1]) THEN twiReadPos + 1 ELSE twiReadPos
          /\ txdr' = NextByte(status[1])
          /\ UNCHANGED <<bus, got>>
      BY <2>1, <2>5, LooksFlags
    <3>2. SUFFICES ASSUME bus = "read" PROVE BeingRead'
      BY <3>1 DEF BeingRead
    <3>3. twiState = "Read" /\ ~ WriteEnds(status[1]) /\ ~ CallbackDue(status[1])
      BY <1>1, <3>2 DEF BeingRead, WriteEnds, CallbackDue
    <3>4. Received(status[1]) = twiBuffer
      BY <1>1, <2>1, <3>3 DEF Seen, Wire, Received
    <3>5. twiBuffer' = twiBuffer /\ twiState' = "Read"
      BY <1>1, <3>1, <3>3, <3>4, EffectTypes
    <3>6. CASE ~ status[1].txis
      <4>1. txdr' = txdr /\ twiReadPos' = twiReadPos /\ (isr'.txis <=> isr.txis)
        BY <3>1, <3>6 DEF NextByte, Sends
      <4>2. QED
        BY <1>1, <3>1, <3>2, <3>5, <4>1 DEF BeingRead, OfReply, Expected
    <3>7. CASE status[1].txis
      <4>1. twiReadPos = OfReply(Len(got)) /\ ~ isr'.txis
        BY <1>1, <2>1, <3>1, <3>2, <3>7 DEF Seen, BeingRead
      <4>2. Sends(status[1]) <=> twiReadPos < Len(twiBuffer)
        BY <3>4, <3>7 DEF Sends
      <4>3. txdr' = <<Expected(Len(got) + 1)>> /\ twiReadPos' = OfReply(Len(got) + 1)
        <5>1. CASE twiReadPos < Len(twiBuffer)
          BY <1>1, <1>2, <3>1, <3>4, <3>7, <4>1, <4>2, <5>1, OfReplyNext DEF NextByte, Expected
        <5>2. CASE ~ (twiReadPos < Len(twiBuffer))
          BY <1>1, <1>2, <3>1, <3>4, <3>7, <4>1, <4>2, <5>2, OfReplyNext DEF NextByte, Expected
        <5>3. QED
          BY <5>1, <5>2
      <4>4. txdr' # << >>
        BY <4>3
      <4>5. QED
        BY <3>1, <3>5, <4>1, <4>3, <4>4 DEF BeingRead, OfReply, Expected
    <3>8. QED
      BY <3>6, <3>7
  <2>6. QED
    BY <2>2, <2>3, <2>4, <2>5
<1>5. CASE SystemReset
  BY <1>5, ResetEffect DEF BeingRead
<1>6. CASE Confused
  BY <1>6, ConfusedEffect DEF BeingRead
<1>7. CASE PowerCycle
  BY <1>7 DEF PowerCycle, BeingRead
<1>8. ASSUME NEW a \in Addresses, NEW read \in BOOLEAN, MasterStarts(a, read) PROVE BeingRead'
  BY <1>8 DEF MasterStarts, BeingRead
<1>9. CASE MasterStops \/ \E b \in Bytes : MasterWrites(b)
  BY <1>9 DEF MasterStops, MasterWrites, BeingRead
<1>10. CASE MasterReads
  <2>1. /\ bus = "read" /\ txdr # << >> /\ got' = Append(got, txdr[1]) /\ txdr' = << >>
        /\ isr'.txis /\ UNCHANGED <<twiState, twiBuffer, twiReadPos, bus>>
    BY <1>1, <1>10, MasterFlags DEF MasterReads
  <2>2. twiState = "Read" /\ twiReadPos = OfReply(Len(got) + 1)
    BY <1>1, <2>1 DEF BeingRead
  <2>3. Len(got') = Len(got) + 1
    <3>1. got \in Seq(Byte) /\ txdr \in Seq(Byte)
      BY <1>1 DEF Types
    <3>2. Len(Append(got, txdr[1])) = Len(got) + 1
      BY <3>1
    <3>3. QED
      BY <2>1, <3>2
  <2>4. QED
    BY <2>1, <2>2, <2>3 DEF BeingRead, OfReply
<1>11. QED
  BY <1>3, <1>4, <1>5, <1>6, <1>7, <1>8, <1>9, <1>10 DEF Next, BusUpdate

\* IInv is an invariant.
LEMMA IInvHolds == Spec => []IInv
<1>1. IInv /\ [Next]_twoWireVars => IInv'
  BY StepTypes, StepWire, StepSeen, StepWritten, StepBeingRead DEF IInv
<1>2. QED
  BY InitIInv, <1>1, PTL DEF Spec

\* The types are kept, and no index of BusUpdate leaves twiBuffer, whatever the
\* master writes and reads.
THEOREM TypeCorrect == Spec => []TwoWireTypeOK
<1>1. IInv => TwoWireTypeOK
  BY DEF IInv, Types
<1>2. QED
  BY <1>1, IInvHolds, PTL

-----------------------------------------------------------------------------
(***************************************************************************)
(* The refinement: what the steps of the driver are to the master.         *)
(***************************************************************************)
\* A request whose end has not been looked at.
Due == twiState = "Write" /\ bus # "write" /\ sent # << >>

Listened == { a \in Addresses \ {0} : Listens(a) }

\* Both modules mean the same by BusCallback.
LEMMA SameCallback ==
  ASSUME NEW a, NEW r
  PROVE  Exchange!BusCallback(a, r) = BusCallback(a, r)
BY DEF BusCallback, handleGeneralCall, Effect, Nothing, RESET, RESET_ADDRESS,
       Exchange!BusCallback, Exchange!handleGeneralCall, Exchange!Effect, Exchange!Nothing,
       Exchange!RESET, Exchange!RESET_ADDRESS

\* At the end of a transaction, BusCallback is called just when a request is due,
\* and with that request.
LEMMA SameEffects ==
  ASSUME IInv, status # << >>, status[1].stopf \/ status[1].addr
  PROVE  /\ Exchange!Effects = Effects(status[1])
         /\ CallbackDue(status[1]) <=> Due
         /\ ExecutedNow(status[1]) =>
              executed' = IF Due THEN <<1 - executed[1], sentTo, Cut(sent)>> ELSE executed
<1> DEFINE s == status[1]
<1>1. sent \in Seq(Byte)
  BY DEF IInv, Types
<1>2. /\ bus \in {"free", "address"}
      /\ twiState = "Write" => Received(s) = Cut(sent) /\ twiAddress = sentTo
      /\ twiState # "Write" => Received(s) = twiBuffer
  BY SeenEnd
<1>3. CallbackDue(s) <=> Due
  BY <1>1, <1>2, CutEmpty DEF CallbackDue, WriteEnds, Due
<1>4. CASE Due
  <2>1. Effects(s) = BusCallback(sentTo, Cut(sent))
    BY <1>2, <1>3, <1>4 DEF Effects, Due
  <2>2. Exchange!Effects = Exchange!BusCallback(sentTo, Cut(sent))
    BY <1>4 DEF Exchange!Effects, Due
  <2>3. Exchange!Effects = Effects(s)
    BY <2>1, <2>2, SameCallback
  <2>4. QED
    BY <1>2, <1>3, <1>4, <2>3 DEF ExecutedNow, Due
<1>5. CASE ~ Due
  <2>1. Received(s) = IF twiState = "Write" THEN << >> ELSE twiBuffer
    BY <1>2, <1>3, <1>5 DEF CallbackDue, WriteEnds
  <2>2. Exchange!Effects = {Exchange!Nothing(IF twiState = "Write" THEN << >> ELSE twiBuffer)}
    BY <1>5 DEF Exchange!Effects, Due
  <2>3. Effects(s) = {Nothing(Received(s))}
    BY <1>3, <1>5 DEF Effects
  <2>4. Exchange!Effects = Effects(s)
    BY <2>1, <2>2, <2>3 DEF Nothing, Effect, Exchange!Nothing, Exchange!Effect
  <2>5. QED
    BY <1>3, <1>5, <2>4 DEF ExecutedNow
<1>6. QED
  BY <1>4, <1>5

\* The initial addresses are those that OA2MSK lets pass.
LEMMA InitialAddress ==
  ASSUME NEW r, r = ResetDeviceAddress, NEW a \in Addresses
  PROVE  (a # 0 /\ (a = 0 \/ a \div Pow2(r.msk) = r.address \div Pow2(r.msk))) <=> a \in 8 .. 15
<1>1. r.address = 8 /\ Pow2(r.msk) = 8
  <2>1. r = [address |-> 8, msk |-> 3]
    BY DEF ResetDeviceAddress, INITIAL_ADDRESS, INITIAL_BITS
  <2>2. Pow2(3) = 8
    BY DEF Pow2
  <2>3. QED
    BY <2>1, <2>2
<1>2. a \in 0 .. 127
  BY TwoWireAssumption
<1>3. a \div 8 = 1 <=> a \in 8 .. 15
  BY <1>2
<1>4. QED
  BY <1>1, <1>2, <1>3

\* The addresses listened to change as BusCallback says.
LEMMA ListenAfter ==
  ASSUME Types, NEW s, NEW e \in Effects(s), oar2' = AddressAfter(e), e.call # "resetSystem"
  PROVE  Listened' = Exchange!ListenAfter(e)
<1>1. e.call \in {"none", "BusSetDeviceAddress", "BusResetDeviceAddress", "resetSystem"}
  BY EffectTypes
<1>2. CASE e.call = "none"
  BY <1>2 DEF AddressAfter, Listened, Listens, Exchange!ListenAfter
<1>3. CASE e.call = "BusSetDeviceAddress"
  <2>1. e.address \in 1 .. 127
    BY <1>3, EffectTypes
  <2>2. oar2' = [address |-> e.address, msk |-> 0]
    BY <1>3 DEF AddressAfter, SetDeviceAddress
  <2>3. ASSUME NEW a \in Addresses PROVE (a # 0 /\ Listens(a)') <=> a = e.address
    <3>1. a \in 0 .. 127
      BY TwoWireAssumption
    <3>2. Pow2(0) = 1
      BY DEF Pow2
    <3>3. a \div 1 = a /\ e.address \div 1 = e.address
      BY <2>1, <3>1
    <3>4. oar2'.msk = 0 /\ oar2'.address = e.address
      BY <2>2
    <3>5. Listens(a)' <=> a = 0 \/ a = e.address
      BY <3>2, <3>3, <3>4 DEF Listens
    <3>6. QED
      BY <2>1, <3>5
  <2>4. Exchange!ListenAfter(e) = {e.address} \cap Addresses
    BY <1>3 DEF Exchange!ListenAfter
  <2>5. QED
    BY <2>3, <2>4 DEF Listened
<1>4. CASE e.call = "BusResetDeviceAddress"
  <2>1. oar2' = ResetDeviceAddress
    BY <1>4 DEF AddressAfter
  <2>2. Listened' = Exchange!InitialAddresses
    <3>1. ASSUME NEW a \in Addresses PROVE (a # 0 /\ Listens(a)') <=> a \in 8 .. 15
      BY <2>1, InitialAddress DEF Listens
    <3>2. QED
      BY <3>1 DEF Listened, Exchange!InitialAddresses
  <2>3. QED
    BY <1>4, <2>1, <2>2 DEF Exchange!ListenAfter
<1>5. QED
  BY <1>1, <1>2, <1>3, <1>4

\* What was due is settled once BusUpdate has looked at the end of a transaction.
LEMMA SettleStep ==
  ASSUME IInv, NEW e, status # << >>, status[1].stopf \/ status[1].addr,
         Listened' = Exchange!ListenAfter(e), ~ Due', ExecutedNow(status[1])
  PROVE  Exchange!Settle(e)
<1>1. executed' = IF Due THEN <<1 - executed[1], sentTo, Cut(sent)>> ELSE executed
  BY SameEffects
<1>2. QED
  BY <1>1 DEF Exchange!Settle, Due, Listened

\* An address is answered, after the request before it was executed.
LEMMA AddressRefines ==
  ASSUME IInv, Handle, status[1].addr
  PROVE  Exchange!Next
<1>1. status # << >> /\ ExecutedNow(status[1]) /\ UNCHANGED addcode
  BY HandleEffect
<1>2. PICK e \in Effects(status[1]) :
        /\ e.call # "resetSystem" /\ oar2' = AddressAfter(e)
        /\ AnswersWrite \/ AnswersRead(e) \/ Refuses(e)
  BY HandleEffect DEF Looks
<1>3. Types /\ sent \in Seq(Byte) /\ Exchange!Effects = Effects(status[1])
  BY <1>1, SameEffects DEF IInv, Types
<1>4. Listened' = Exchange!ListenAfter(e)
  BY <1>2, <1>3, ListenAfter
<1>5. ~ Due'
  BY <1>2 DEF AnswersWrite, AnswersRead, Refuses, Due
<1>6. Exchange!Settle(e)
  BY <1>1, <1>4, <1>5, SettleStep
<1>7. CASE AnswersWrite
  <2>1. Cut(sent)' = << >>
    BY <1>3, <1>7, CutEmpty DEF AnswersWrite, Cut
  <2>2. Exchange!StartWrite(e)
    BY <1>2, <1>6, <1>7, <2>1 DEF AnswersWrite, Exchange!StartWrite, Exchange!Addressed, Exchange!Nowhere
  <2>3. QED
    BY <1>3, <2>2 DEF Exchange!Next
<1>8. CASE AnswersRead(e)
  <2>1. Exchange!StartRead(e)
    BY <1>2, <1>6, <1>8 DEF AnswersRead, Exchange!StartRead, Exchange!Addressed, Exchange!Nowhere, Cut
  <2>2. QED
    BY <1>3, <2>1 DEF Exchange!Next
<1>9. CASE Refuses(e)
  <2>1. Exchange!Refuse(e)
    BY <1>2, <1>6, <1>9 DEF Refuses, Exchange!Refuse, Exchange!Addressed, Exchange!Nowhere, Cut
  <2>2. QED
    BY <1>3, <2>1 DEF Exchange!Next
<1>10. QED
  BY <1>2, <1>7, <1>8, <1>9

\* Without an address, a stop executes the request, if there is one, and all else
\* is nothing new to the master.
LEMMA LooksRefines ==
  ASSUME IInv, Handle, ~ status[1].addr
  PROVE  Exchange!Next \/ UNCHANGED Exchange!exchangeVars
<1> DEFINE s == status[1]
<1>1. status # << >> /\ ExecutedNow(s) /\ UNCHANGED addcode
  BY HandleEffect
<1>2. PICK e \in Effects(s) :
        e.call # "resetSystem" /\ oar2' = AddressAfter(e) /\ Looks(e)
  BY HandleEffect
<1>3. /\ isr'.read = isr.read
      /\ twiState' = IF WriteEnds(s) THEN "Idle" ELSE twiState
      /\ twiBuffer' = e.reply
      /\ UNCHANGED <<bus, sent, sentTo, got>>
  BY <1>1, <1>2, LooksFlags
<1>4. CASE ~ CallbackDue(s)
  <2>1. e.reply = Received(s) /\ e.call = "none"
    BY <1>2, <1>4, EffectTypes DEF IInv
  <2>2. Listened' = Listened /\ executed' = executed
    BY <1>1, <1>2, <1>4, <2>1 DEF AddressAfter, Listened, Listens, ExecutedNow
  <2>3. CASE WriteEnds(s)
    <3>1. s.stopf /\ twiState = "Write" /\ Received(s) = << >> /\ ~ Due
      BY <1>1, <1>4, <2>3, SameEffects DEF WriteEnds, CallbackDue
    <3>2. QED
      BY <1>1, <1>3, <2>1, <2>2, <2>3, <3>1 DEF Exchange!exchangeVars, Due, Listened, Cut
  <2>4. CASE ~ WriteEnds(s)
    <3>1. twiState # "Write" => Received(s) = twiBuffer
      BY <1>1 DEF IInv, Seen, Wire, Received
    <3>2. QED
      BY <1>1, <1>3, <2>1, <2>2, <2>4, <3>1 DEF Exchange!exchangeVars, Due, Listened, Cut
  <2>5. QED
    BY <2>3, <2>4
<1>5. CASE CallbackDue(s)
  <2>1. s.stopf /\ WriteEnds(s)
    BY <1>5 DEF CallbackDue, WriteEnds
  <2>2. Due /\ Exchange!Effects = Effects(s)
    BY <1>1, <1>5, <2>1, SameEffects
  <2>3. Listened' = Exchange!ListenAfter(e)
    BY <1>2, ListenAfter DEF IInv
  <2>4. ~ Due'
    BY <1>3, <2>1 DEF Due
  <2>5. Exchange!Settle(e)
    BY <1>1, <2>1, <2>3, <2>4, SettleStep
  <2>6. Exchange!Execute
    BY <1>1, <1>3, <2>1, <2>2, <2>5 DEF Exchange!Execute, Due, Cut
  <2>7. QED
    BY <2>6 DEF Exchange!Next
<1>6. QED
  BY <1>4, <1>5

\* The reset that RESET asks for executes that request.
LEMMA ResetRefines ==
  ASSUME IInv, SystemReset
  PROVE  Exchange!Next
<1>1. /\ status # << >> /\ ExecutedNow(status[1]) /\ bus \in {"address", "free"}
      /\ status[1].stopf \/ status[1].addr
      /\ bus' = IF bus = "address" THEN "refused" ELSE bus
      /\ twiState' = "Idle" /\ twiBuffer' = << >> /\ oar2' = ResetDeviceAddress
      /\ UNCHANGED <<addcode, sent, sentTo, got>>
  BY ResetEffect
<1>2. PICK e \in Effects(status[1]) : e.call = "resetSystem"
  BY ResetEffect
<1>3. Types /\ Exchange!Effects = Effects(status[1])
  BY <1>1, SameEffects DEF IInv
<1>4. e.reply = << >> /\ CallbackDue(status[1])
  BY <1>2, <1>3, EffectTypes
<1>5. Listened' = Exchange!ListenAfter(e)
  <2>1. ASSUME NEW a \in Addresses PROVE (a # 0 /\ Listens(a)') <=> a \in 8 .. 15
    BY <1>1, InitialAddress DEF Listens
  <2>2. QED
    BY <1>2, <2>1 DEF Listened, Exchange!ListenAfter, Exchange!InitialAddresses
<1>6. Exchange!Settle(e)
  BY <1>1, <1>5, SettleStep DEF Due
<1>7. Due
  BY <1>1, <1>4, SameEffects
<1>8. CASE bus = "address"
  <2>1. Exchange!Refuse(e)
    BY <1>1, <1>2, <1>4, <1>6, <1>8 DEF Exchange!Refuse, Exchange!Addressed, Exchange!Nowhere, Cut
  <2>2. QED
    BY <1>3, <2>1 DEF Exchange!Next
<1>9. CASE bus = "free"
  <2>1. Exchange!Execute
    BY <1>1, <1>3, <1>4, <1>6, <1>7, <1>9 DEF Exchange!Execute, Due, Cut
  <2>2. QED
    BY <2>1 DEF Exchange!Next
<1>10. QED
  BY <1>1, <1>8, <1>9

\* When the address changes too late, the child blocks the bus, and the request
\* has been executed all the same.
LEMMA HangRefines ==
  ASSUME IInv, Confused
  PROVE  Exchange!Next
<1>1. /\ status # << >> /\ ExecutedNow(status[1])
      /\ status[1].stopf \/ status[1].addr
      /\ bus = "address" /\ bus' = "hung" /\ twiState' = "Idle"
      /\ UNCHANGED <<addcode, sent, sentTo, got>>
  BY ConfusedEffect
<1>2. PICK e \in Effects(status[1]) :
        e.call = "BusSetDeviceAddress" /\ twiBuffer' = e.reply /\ oar2' = AddressAfter(e)
  BY ConfusedEffect
<1>3. Types /\ Exchange!Effects = Effects(status[1])
  BY <1>1, SameEffects DEF IInv
<1>4. Listened' = Exchange!ListenAfter(e)
  BY <1>2, <1>3, ListenAfter
<1>5. Exchange!Settle(e)
  BY <1>1, <1>4, SettleStep DEF Due
<1>6. Exchange!Hang(e)
  BY <1>1, <1>2, <1>5 DEF Exchange!Hang, Exchange!Addressed, Exchange!Nowhere, Cut
<1>7. QED
  BY <1>3, <1>6 DEF Exchange!Next

\* Power is switched off and on.
LEMMA PowerRefines ==
  ASSUME IInv, PowerCycle
  PROVE  Exchange!Next
<1>1. /\ bus = "hung" /\ bus' = "free"
      /\ twiState' = "Idle" /\ twiBuffer' = << >> /\ oar2' = ResetDeviceAddress
      /\ UNCHANGED <<addcode, sent, sentTo, got, executed>>
  BY DEF PowerCycle, Restarted, wireHistory
<1>2. twiState # "Write"
  BY <1>1 DEF IInv, Written
<1>3. Listened' = Exchange!InitialAddresses
  <2>1. ASSUME NEW a \in Addresses PROVE (a # 0 /\ Listens(a)') <=> a \in 8 .. 15
    BY <1>1, InitialAddress DEF Listens
  <2>2. QED
    BY <2>1 DEF Listened, Exchange!InitialAddresses
<1>4. Exchange!PowerCycle
  BY <1>1, <1>2, <1>3 DEF Exchange!PowerCycle, Listened, Cut
<1>5. QED
  BY <1>4 DEF Exchange!Next

\* A byte that the master reads is the next one of the reply, or filler behind it.
LEMMA ReadRefines ==
  ASSUME IInv, MasterReads
  PROVE  Exchange!Next
<1>1. /\ bus = "read" /\ bus' = bus /\ txdr # << >> /\ got' = Append(got, txdr[1])
      /\ UNCHANGED <<twiState, twiBuffer, oar2, sent, sentTo, executed>>
  BY DEF MasterReads, driver
<1>2. twiState = "Read" /\ txdr = <<Expected(Len(got) + 1)>>
  BY <1>1 DEF IInv, BeingRead
<1>3. txdr[1] = IF Len(got) < Len(twiBuffer) THEN twiBuffer[Len(got) + 1] ELSE Filler
  <2>1. Len(got) \in Nat /\ Len(twiBuffer) \in Nat
    BY Lengths DEF IInv
  <2>2. Len(got) + 1 <= Len(twiBuffer) <=> Len(got) < Len(twiBuffer)
    BY <2>1
  <2>3. QED
    BY <1>2, <2>2 DEF Expected
<1>4. Exchange!Read
  BY <1>1, <1>2, <1>3 DEF Exchange!Read, Listens, Cut
<1>5. QED
  BY <1>4 DEF Exchange!Next

\* The master's other steps are what they are.
LEMMA MasterRefines ==
  ASSUME IInv,
         \/ MasterStops
         \/ \E a \in Addresses, read \in BOOLEAN : MasterStarts(a, read)
         \/ \E b \in Bytes : MasterWrites(b)
  PROVE  Exchange!Next
<1> USE DEF driver, wireHistory
<1>1. Types /\ Wire /\ sent \in Seq(Byte) /\ isr \in Flags
  BY DEF IInv, Types
<1>2. bus = "write" => twiState = "Write"
  BY DEF IInv, Written
<1>3. Cut(sent) = << >> <=> sent = << >>
  BY <1>1, CutEmpty
<1>4. CASE MasterStops
  <2>1. /\ bus \in {"write", "read", "refused"} /\ bus' = "free"
        /\ UNCHANGED <<twiState, twiBuffer, oar2, sent, sentTo, got, executed>>
    BY <1>4 DEF MasterStops
  <2>2. Exchange!End
    BY <1>2, <1>3, <2>1 DEF Exchange!End, Exchange!Ended, Listens, Cut
  <2>3. QED
    BY <2>2 DEF Exchange!Next
<1>5. ASSUME NEW a \in Addresses, NEW read \in BOOLEAN, MasterStarts(a, read)
      PROVE  Exchange!Next
  <2>1. /\ Listens(a) /\ (read => a # 0) /\ ~ isr.addr /\ bus # "hung"
        /\ bus' = "address" /\ addcode' = a
        /\ UNCHANGED <<twiState, twiBuffer, oar2, sent, sentTo, got, executed>>
    BY <1>5 DEF MasterStarts
  <2>2. a \in Listened \/ (a = 0 /\ ~ read)
    BY <2>1 DEF Listened
  <2>3. bus # "address" /\ isr'.read = read
    BY <1>1, <1>5, <2>1, MasterFlags DEF Wire
  <2>4. Exchange!Match(a, read)
    BY <1>1, <1>2, <1>3, <2>1, <2>2, <2>3 DEF Exchange!Match, Exchange!Ended, Listened, Listens, Cut,
         TwoWireTypeOK, Types
  <2>5. QED
    BY <2>4 DEF Exchange!Next
<1>6. ASSUME NEW b \in Bytes, MasterWrites(b)
      PROVE  Exchange!Next
  <2>1. /\ bus = "write" /\ sent' = Append(sent, b)
        /\ UNCHANGED <<twiState, twiBuffer, oar2, bus, sentTo, got, executed>>
    BY <1>6 DEF MasterWrites
  <2>2. b \in Byte
    BY TwoWireAssumption DEF Byte
  <2>3. Cut(sent)' = IF Len(Cut(sent)) < MAX_PACKET_LENGTH THEN Append(Cut(sent), b) ELSE Cut(sent)
    <3>1. Cut(sent)' = Cut(Append(sent, b))
      BY <2>1 DEF Cut
    <3>2. QED
      BY <1>1, <2>2, <3>1, CutAppend
  <2>4. Exchange!Write(b)
    BY <2>1, <2>3 DEF Exchange!Write, Listens
  <2>5. QED
    BY <2>4 DEF Exchange!Next
<1>7. QED
  BY <1>4, <1>5, <1>6

\* The driver keeps what I2CExchange promises of every step: requests are executed
\* once and as sent, and every read returns the whole reply to the last one, also
\* when BusUpdate looks at a stop and the start after it together.  That every
\* request is executed in the end is not among it.
THEOREM ExchangeCorrect == Spec => Exchange!Safety
<1>1. Init => Exchange!Init
  <2> SUFFICES ASSUME Init PROVE Exchange!Init
    OBVIOUS
  <2>1. Listened = Exchange!InitialAddresses
    <3>1. ASSUME NEW a \in Addresses PROVE (a # 0 /\ Listens(a)) <=> a \in 8 .. 15
      BY InitialAddress DEF Listens, Init
    <3>2. QED
      BY <3>1 DEF Listened, Exchange!InitialAddresses
  <2>2. Cut(sent) = << >>
    BY CutEmpty, EmptySeq DEF Init
  <2>3. QED
    BY <2>1, <2>2 DEF Init, Exchange!Init, Exchange!Nowhere, Listened
<1>2. ASSUME IInv, [Next]_twoWireVars PROVE [Exchange!Next]_(Exchange!exchangeVars)
  <2>1. CASE Poll \/ UNCHANGED twoWireVars
    <3>1. UNCHANGED <<bus, twiState, twiBuffer, oar2, addcode, isr, sent, sentTo, got, executed>>
      BY <2>1 DEF Poll, twoWireVars, driver, registers, wireHistory
    <3>2. QED
      BY <3>1 DEF Exchange!exchangeVars, Listens, Cut
  <2>2. CASE BusUpdate
    BY <1>2, <2>2, AddressRefines, LooksRefines, ResetRefines, HangRefines DEF BusUpdate
  <2>3. CASE PowerCycle \/ MasterReads
    BY <1>2, <2>3, PowerRefines, ReadRefines
  <2>4. CASE \/ MasterStops
             \/ \E a \in Addresses, read \in BOOLEAN : MasterStarts(a, read)
             \/ \E b \in Bytes : MasterWrites(b)
    BY <1>2, <2>4, MasterRefines
  <2>5. QED
    BY <1>2, <2>1, <2>2, <2>3, <2>4 DEF Next
<1>3. QED
  BY <1>1, <1>2, IInvHolds, PTL DEF Spec, Exchange!Safety
=============================================================================
