------------------------- MODULE AttinyTwoWire_proofs -------------------------
(***************************************************************************)
(* Proofs about AttinyTwoWire: every step of the I2C driver of the ATtiny  *)
(* is a step that I2CExchange allows, for every buffer size, every reply   *)
(* and every address.                                                      *)
(***************************************************************************)
EXTENDS AttinyTwoWire, SequenceTheorems, TLAPS

-----------------------------------------------------------------------------
(***************************************************************************)
(* The inductive invariant.                                                *)
(***************************************************************************)
Byte == 0 .. 255

Flags == [dif : BOOLEAN, asif : BOOLEAN, as : BOOLEAN, dir : BOOLEAN]

Types ==
  /\ TwoWireTypeOK
  /\ {twiBuffer, sent, got} \subseteq Seq(Byte)
  /\ twsd \in Byte
  /\ twssra \in Flags
  /\ status = << >> \/ \E s \in Flags : status = <<s>>

\* What the flags say of the transaction.
Wire ==
  /\ bus = "address" <=> twssra.asif /\ twssra.as
  /\ bus = "address" => twsd \in Addresses
  /\ twssra.asif => bus \in {"address", "free"} /\ ~ twssra.dif
  /\ twssra.dif => bus \in {"write", "read"}
  /\ bus = "write" => ~ twssra.dir
  /\ bus = "read" => twssra.dir

\* What BusUpdate has seen is still so, but for the end of a transaction, which
\* the next address may have followed.
Seen ==
  status # << >> =>
    /\ status[1].asif \/ status[1].dif
    /\ IF status[1].asif /\ ~ status[1].as
         THEN bus \in {"free", "address"}
         ELSE twssra = status[1]

\* The bytes of the current write, or of the last one as long as it is not looked
\* at, are in twiBuffer, the last one of them possibly still in twsd.
Written ==
  /\ bus = "write" => twiState = "Write"
  /\ twiState = "Write" =>
       /\ twiAddress = sentTo
       /\ bus # "read"
       /\ IF twssra.dif
            THEN \E before \in Seq(Byte) : sent = Append(before, twsd) /\ twiBuffer = Cut(before)
            ELSE twiBuffer = Cut(sent)

\* The bytes of the current read are the first of twiBuffer.
BeingRead ==
  bus = "read" =>
    /\ twiState = "Read"
    /\ twiReadPos = Len(got)
    /\ twssra.dif => Len(got) < MaxRead

IInv == Types /\ Wire /\ Seen /\ Written /\ BeingRead

-----------------------------------------------------------------------------
(***************************************************************************)
(* What the operators of the model return.                                 *)
(***************************************************************************)
\* An effect of BusCallback: a reply that fits the buffer, and perhaps a call.
LEMMA CallbackEffects ==
  ASSUME NEW a, NEW r, NEW e \in BusCallback(a, r)
  PROVE  /\ e.reply \in Seq(Byte) /\ Len(e.reply) <= MAX_PACKET_LENGTH
         /\ e.call \in {"none", "BusSetDeviceAddress", "BusResetDeviceAddress", "resetSystem"}
         /\ e.call = "BusSetDeviceAddress" => e.address \in 1 .. 127
         /\ e.call = "resetSystem" => e.reply = << >>
<1>1. \A x \in Replies : x \in Seq(Byte) /\ Len(x) <= MAX_PACKET_LENGTH
  BY CallbackAssumption, TwoWireAssumption DEF Byte
<1>2. << >> \in Replies /\ \A x \in NewAddresses : x \in 1 .. 127
  BY CallbackAssumption
<1>3. CASE e = handleGeneralCall(r)
  BY <1>1, <1>2, <1>3 DEF handleGeneralCall, Effect, Nothing
<1>4. CASE \E reply \in Replies : e = Nothing(reply)
  BY <1>1, <1>4 DEF Effect, Nothing
<1>5. CASE \E reply \in Replies \ {<< >>}, x \in NewAddresses : e = Effect(reply, "BusSetDeviceAddress", x)
  BY <1>1, <1>2, <1>5 DEF Effect
<1>6. QED
  BY <1>3, <1>4, <1>5 DEF BusCallback

\* The same of what is there without a call.
LEMMA EffectTypes ==
  ASSUME Types, NEW e \in Effects
  PROVE  /\ e.reply \in Seq(Byte) /\ Len(e.reply) <= MAX_PACKET_LENGTH
         /\ e.call \in {"none", "BusSetDeviceAddress", "BusResetDeviceAddress", "resetSystem"}
         /\ e.call = "BusSetDeviceAddress" => e.address \in 1 .. 127
         /\ e.call = "resetSystem" => e.reply = << >>
         /\ ~ CallbackDue => e.reply = twiBuffer /\ e.call = "none"
<1>1. CASE CallbackDue
  BY <1>1, CallbackEffects DEF Effects
<1>2. CASE ~ CallbackDue
  <2>1. e.reply = twiBuffer /\ e.call = "none"
    BY <1>2 DEF Effects, Nothing, Effect
  <2>2. QED
    BY <2>1 DEF Types, TwoWireTypeOK
<1>3. QED
  BY <1>1, <1>2

\* The lengths the proofs compare.
LEMMA Lengths ==
  ASSUME Types
  PROVE  /\ MAX_PACKET_LENGTH \in Nat \ {0} /\ Len(twiBuffer) \in 0 .. MAX_PACKET_LENGTH
         /\ Len(sent) \in Nat /\ Len(got) \in Nat /\ MaxRead \in Nat
<1>1. twiBuffer \in Seq(Byte) /\ sent \in Seq(Byte) /\ got \in Seq(Byte)
  BY DEF Types
<1>2. Len(twiBuffer) \in Nat /\ Len(sent) \in Nat /\ Len(got) \in Nat
  BY <1>1, LenProperties
<1>3. MAX_PACKET_LENGTH \in Nat \ {0} /\ MaxRead \in Nat /\ Len(twiBuffer) <= MAX_PACKET_LENGTH
  BY TwoWireAssumption DEF Types, TwoWireTypeOK
<1>4. Len(twiBuffer) \in 0 .. MAX_PACKET_LENGTH
  BY <1>2, <1>3
<1>5. QED
  BY <1>2, <1>3, <1>4

\* A request that is cut takes a byte more only when it has room for it.
LEMMA CutAppend ==
  ASSUME NEW s \in Seq(Byte), NEW b \in Byte
  PROVE  Cut(Append(s, b)) = IF Len(Cut(s)) < MAX_PACKET_LENGTH THEN Append(Cut(s), b) ELSE Cut(s)
<1> DEFINE m == MAX_PACKET_LENGTH
<1> DEFINE t == Append(s, b)
<1>1. m \in Nat \ {0} /\ Len(s) \in Nat /\ \A i \in 1 .. Len(s) : s[i] \in Byte
  BY TwoWireAssumption, LenProperties, ElementOfSeq
<1>2. t \in Seq(Byte) /\ Len(t) = Len(s) + 1 /\ \A i \in 1 .. Len(s) : t[i] = s[i]
  BY AppendProperties
<1> HIDE DEF t
<1>3. CASE Len(s) < m
  <2>1. Cut(s) = s /\ Cut(t) = t
    BY <1>1, <1>2, <1>3 DEF Cut
  <2>2. QED
    BY <1>3, <2>1 DEF t
<1>4. CASE ~ (Len(s) < m)
  <2> DEFINE u == SubSeq(s, 1, m)
  <2> DEFINE v == SubSeq(t, 1, m)
  <2>1. \A i \in 1 .. m : i \in 1 .. Len(s)
    BY <1>1, <1>4
  <2>2. (\A i \in 1 .. m : s[i] \in Byte) /\ (\A i \in 1 .. m : t[i] \in Byte)
    BY <1>1, <1>2, <2>1
  <2>3. m \in Int /\ 1 \in Int /\ 1 <= m /\ m - 1 + 1 = m
    BY <1>1
  <2>4. u \in Seq(Byte) /\ Len(u) = m /\ \A i \in 1 .. m : u[i] = s[i]
    <3>1. /\ u \in Seq(Byte) /\ Len(u) = IF 1 <= m THEN m - 1 + 1 ELSE 0
          /\ \A i \in 1 .. m - 1 + 1 : u[i] = s[1 + i - 1]
      BY <2>2, <2>3, SubSeqProperties
    <3>2. \A i \in 1 .. m : 1 + i - 1 = i
      BY <1>1
    <3>3. QED
      BY <2>3, <3>1, <3>2
  <2>5. v \in Seq(Byte) /\ Len(v) = m /\ \A i \in 1 .. m : v[i] = t[i]
    <3>1. /\ v \in Seq(Byte) /\ Len(v) = IF 1 <= m THEN m - 1 + 1 ELSE 0
          /\ \A i \in 1 .. m - 1 + 1 : v[i] = t[1 + i - 1]
      BY <2>2, <2>3, SubSeqProperties
    <3>2. \A i \in 1 .. m : 1 + i - 1 = i
      BY <1>1
    <3>3. QED
      BY <2>3, <3>1, <3>2
  <2>6. u = v
    <3>1. Len(u) = Len(v) /\ \A i \in 1 .. Len(u) : u[i] = v[i]
      BY <1>2, <2>1, <2>4, <2>5
    <3>2. QED
      BY <2>4, <2>5, <3>1, SeqEqual
  <2>7. Cut(s) = u
    <3>1. CASE Len(s) <= m
      <4>1. Len(s) = m
        BY <1>1, <1>4, <3>1
      <4>2. u = s
        BY <4>1, SubSeqFull
      <4>3. QED
        BY <3>1, <4>2 DEF Cut
    <3>2. CASE ~ (Len(s) <= m)
      BY <3>2 DEF Cut
    <3>3. QED
      BY <3>1, <3>2
  <2>8. Cut(t) = v
    <3>1. ~ (Len(t) <= m)
      BY <1>1, <1>2, <1>4
    <3>2. QED
      BY <3>1 DEF Cut
  <2>9. ~ (Len(Cut(s)) < m)
    BY <1>1, <2>4, <2>7
  <2>10. QED
    BY <2>6, <2>7, <2>8, <2>9 DEF t
<1>5. QED
  BY <1>3, <1>4

\* Only the empty request is cut to an empty one.
LEMMA CutEmpty ==
  ASSUME NEW s \in Seq(Byte)
  PROVE  Cut(<< >>) = << >> /\ (Cut(s) = << >> <=> s = << >>)
<1>1. MAX_PACKET_LENGTH \in Nat \ {0} /\ Len(s) \in Nat /\ Len(<< >>) = 0
      /\ \A i \in 1 .. Len(s) : s[i] \in Byte
  BY TwoWireAssumption, LenProperties, EmptySeq, ElementOfSeq
<1>2. Cut(<< >>) = << >>
  BY <1>1 DEF Cut
<1>3. CASE Len(s) <= MAX_PACKET_LENGTH
  BY <1>2, <1>3 DEF Cut
<1>4. CASE ~ (Len(s) <= MAX_PACKET_LENGTH)
  <2> DEFINE m == MAX_PACKET_LENGTH
  <2>1. m \in Int /\ 1 \in Int /\ 1 <= m /\ m - 1 + 1 = m /\ m # 0
    BY <1>1
  <2>2. \A i \in 1 .. m : s[i] \in Byte
    BY <1>1, <1>4
  <2>3. Len(SubSeq(s, 1, m)) = IF 1 <= m THEN m - 1 + 1 ELSE 0
    BY <2>1, <2>2, SubSeqProperties
  <2>4. Len(Cut(s)) = m
    BY <1>4, <2>1, <2>3 DEF Cut
  <2>5. Cut(s) # << >> /\ s # << >>
    BY <1>1, <1>4, <2>1, <2>4
  <2>6. QED
    BY <1>2, <2>5
<1>5. QED
  BY <1>3, <1>4

-----------------------------------------------------------------------------
(***************************************************************************)
(* What the steps of the driver do.                                        *)
(***************************************************************************)
\* What BusUpdate has seen are flags.
LEMMA SeenFlags ==
  ASSUME Types, status # << >>
  PROVE  status[1] \in Flags
BY DEF Types

\* What an address or a stop leads to.
AnswersWrite ==
  /\ bus = "address" /\ ~ twssra.dir
  /\ bus' = "write" /\ twiState' = "Write" /\ twiBuffer' = << >> /\ twiReadPos' = twiReadPos
  /\ sent' = << >> /\ sentTo' = twsd /\ twiAddress' = twsd
  /\ got' = got

AnswersRead(e) ==
  /\ bus = "address" /\ twssra.dir /\ e.reply # << >>
  /\ bus' = "read" /\ twiState' = "Read" /\ twiBuffer' = e.reply /\ twiReadPos' = 0
  /\ got' = << >>
  /\ UNCHANGED <<sent, sentTo>>

Refuses(e) ==
  /\ bus = "address"
  /\ bus' = "refused" /\ twiState' \in {"Read", "Idle"} /\ twiBuffer' = e.reply
  /\ twiReadPos' \in {0, twiReadPos}
  /\ UNCHANGED <<sent, sentTo, got>>

Finishes(e) ==
  /\ bus = "free"
  /\ bus' = "free" /\ twiState' = "Idle" /\ twiBuffer' = e.reply /\ twiReadPos' = twiReadPos
  /\ UNCHANGED <<sent, sentTo, got>>

\* The address and stop interrupt does one of these, and leaves the rest alone.
LEMMA AddressEffect ==
  ASSUME IInv, AddressOrStop
  PROVE  /\ twssra' = [twssra EXCEPT !.dif = FALSE, !.asif = FALSE]
         /\ status # << >> /\ status' = << >> /\ twsd' = twsd /\ ExecutedNow
         /\ status[1].asif /\ bus \in {"address", "free"}
         /\ twiAddress' = IF bus = "address" THEN twsd ELSE twsd \div 2
         /\ \E e \in Effects :
              /\ e.call # "resetSystem" /\ twsa' = AddressAfter(e)
              /\ AnswersWrite \/ AnswersRead(e) \/ Refuses(e) \/ Finishes(e)
<1> DEFINE s == status[1]
<1>1. status # << >> /\ s.asif
  BY DEF AddressOrStop
<1>2. s \in Flags
  BY <1>1, SeenFlags DEF IInv
<1>3. PICK e \in Effects :
        /\ e.call # "resetSystem"
        /\ twsa' = AddressAfter(e)
        /\ bus' = IF bus # "address" THEN bus
                  ELSE IF ~ Acked(s, e.reply) THEN "refused"
                  ELSE IF s.dir THEN "read" ELSE "write"
        /\ twiState' = IF ~ s.as THEN "Idle" ELSE IF s.dir THEN "Read" ELSE "Write"
        /\ twiReadPos' = ReadPosAfter(twiReadPos, s)
        /\ twiBuffer' = IF s.as /\ ~ s.dir THEN << >> ELSE e.reply
        /\ got' = IF bus' = "read" THEN << >> ELSE got
        /\ IF bus' = "write"
             THEN sent' = << >> /\ sentTo' = twsd
             ELSE UNCHANGED <<sent, sentTo>>
  BY DEF AddressOrStop
<1>4. /\ twssra' = [twssra EXCEPT !.dif = FALSE, !.asif = FALSE]
      /\ status' = << >> /\ twsd' = twsd /\ ExecutedNow
      /\ twiAddress' = IF bus = "address" THEN twsd ELSE twsd \div 2
  BY DEF AddressOrStop, CommandWritten
<1>5. s.as => twssra = s /\ bus = "address"
  BY <1>1 DEF IInv, Seen, Wire
<1>6. ~ s.as => bus \in {"free", "address"}
  BY <1>1 DEF IInv, Seen
<1>7. AnswersWrite \/ AnswersRead(e) \/ Refuses(e) \/ Finishes(e)
  <2>1. CASE s.as /\ ~ s.dir
    BY <2>1, <1>3, <1>4, <1>5 DEF AnswersWrite, Acked, ReadPosAfter
  <2>2. CASE s.as /\ s.dir /\ e.reply # << >>
    BY <2>2, <1>3, <1>5 DEF AnswersRead, Acked, ReadPosAfter
  <2>3. CASE s.as /\ s.dir /\ e.reply = << >>
    BY <2>3, <1>3, <1>5 DEF Refuses, Acked, ReadPosAfter
  <2>4. CASE ~ s.as /\ bus = "address"
    BY <2>4, <1>3 DEF Refuses, Acked, ReadPosAfter
  <2>5. CASE ~ s.as /\ bus = "free"
    BY <2>5, <1>3 DEF Finishes, ReadPosAfter
  <2>6. QED
    BY <1>6, <2>1, <2>2, <2>3, <2>4, <2>5
<1>8. QED
  BY <1>1, <1>3, <1>4, <1>5, <1>6, <1>7

\* What happens to the registers when the driver is reset.
LEMMA ResetEffect ==
  ASSUME IInv, SystemReset
  PROVE  /\ twssra' = NoFlags /\ status # << >> /\ status' = << >> /\ ExecutedNow
         /\ bus \in {"address", "free"} /\ status[1].asif
         /\ bus' = IF bus = "address" THEN "refused" ELSE bus
         /\ twiState' = "Idle" /\ twiBuffer' = << >> /\ twiReadPos' = 0 /\ twiAddress' = 0
         /\ twsa' = ResetDeviceAddress
         /\ UNCHANGED <<twsd, sent, sentTo, got>>
         /\ \E e \in Effects : e.call = "resetSystem"
<1>1. status # << >> /\ status[1].asif
  BY DEF SystemReset
<1>2. status[1] \in Flags
  BY <1>1, SeenFlags DEF IInv
<1>3. bus \in {"address", "free"}
  BY <1>1, <1>2 DEF IInv, Seen, Wire
<1>4. QED
  BY <1>1, <1>3 DEF SystemReset, wireHistory

\* A byte is handled in the transaction that it came in.
LEMMA DataEffect ==
  ASSUME IInv, DataRead \/ DataWrite
  PROVE  /\ status # << >> /\ status' = << >>
         /\ twssra = status[1] /\ twssra.dif /\ ~ twssra.asif
         /\ twssra' = [twssra EXCEPT !.dif = FALSE, !.asif = FALSE]
         /\ IF twssra.dir THEN bus = "read" ELSE bus = "write"
<1>1. status # << >> /\ ~ status[1].asif /\ status' = << >>
      /\ twssra' = [twssra EXCEPT !.dif = FALSE, !.asif = FALSE]
  BY DEF DataRead, DataWrite, CommandWritten
<1>2. twssra = status[1] /\ status[1].dif
  BY <1>1 DEF IInv, Seen
<1>3. twssra \in Flags
  BY DEF IInv, Types
<1>4. QED
  BY <1>1, <1>2, <1>3 DEF IInv, Wire

\* The master waits while an address or a byte does.
LEMMA NotStretching ==
  ASSUME IInv, ~ Stretching
  PROVE  bus # "address" /\ ~ twssra.dif /\ (twssra.asif => ~ twssra.as /\ bus = "free")
BY DEF IInv, Wire, Stretching

-----------------------------------------------------------------------------
(***************************************************************************)
(* The invariant.                                                          *)
(***************************************************************************)
\* Addresses the driver is given.
LEMMA AddressTypes ==
  ASSUME Types, NEW e \in Effects
  PROVE  AddressAfter(e) \in [address : 0 .. 127, mask : 0 .. 127]
<1>1. twsa \in [address : 0 .. 127, mask : 0 .. 127]
  BY DEF Types, TwoWireTypeOK
<1>2. ResetDeviceAddress \in [address : 0 .. 127, mask : 0 .. 127]
  BY DEF ResetDeviceAddress, INITIAL_ADDRESS, INITIAL_BITS, Pow2
<1>3. CASE e.call = "BusSetDeviceAddress"
  <2>1. e.address \in 1 .. 127
    BY <1>3, EffectTypes
  <2>2. e.address % 128 \in 0 .. 127
    BY <2>1
  <2>3. QED
    BY <1>3, <2>2 DEF AddressAfter, SetDeviceAddress
<1>4. CASE e.call # "BusSetDeviceAddress"
  BY <1>1, <1>2, <1>4 DEF AddressAfter
<1>5. QED
  BY <1>3, <1>4

\* The types and the flags at first.
LEMMA InitIInv == Init => IInv
<1> SUFFICES ASSUME Init PROVE IInv
  OBVIOUS
<1>1. << >> \in Seq(Byte) /\ Len(<< >>) = 0 /\ MAX_PACKET_LENGTH \in Nat /\ MaxRead \in Nat
  BY EmptySeq, TwoWireAssumption
<1>2. Len(<< >>) <= MAX_PACKET_LENGTH /\ Len(<< >>) <= MaxRead
      /\ 0 \in 0 .. MAX_PACKET_LENGTH /\ 0 \in 0 .. 127 /\ 0 \in Byte
  BY <1>1 DEF Byte
<1>3. ResetDeviceAddress \in [address : 0 .. 127, mask : 0 .. 127]
  BY DEF ResetDeviceAddress, INITIAL_ADDRESS, INITIAL_BITS, Pow2
<1>4. TwoWireTypeOK
  BY <1>2, <1>3 DEF Init, TwoWireTypeOK, NoFlags
<1>5. Types
  BY <1>1, <1>2, <1>4 DEF Init, Types, NoFlags, Flags
<1>6. Wire /\ Seen /\ Written /\ BeingRead
  BY DEF Init, Wire, Seen, Written, BeingRead, NoFlags
<1>7. QED
  BY <1>5, <1>6 DEF IInv

\* The flags are flags whatever is set or cleared.
LEMMA FlagTypes ==
  ASSUME twssra \in Flags, NEW read \in BOOLEAN
  PROVE  /\ [twssra EXCEPT !.dif = FALSE, !.asif = FALSE] \in Flags
         /\ [twssra EXCEPT !.dif = TRUE] \in Flags
         /\ [twssra EXCEPT !.asif = TRUE, !.as = FALSE] \in Flags
         /\ [dif |-> FALSE, asif |-> TRUE, as |-> TRUE, dir |-> read] \in Flags
         /\ NoFlags \in Flags
         /\ \A f \in Flags : DOMAIN f = {"dif", "asif", "as", "dir"}
BY DEF Flags, NoFlags

\* No step disturbs the types.
LEMMA StepTypes == IInv /\ [Next]_twoWireVars => Types'
<1> SUFFICES ASSUME IInv, [Next]_twoWireVars PROVE Types'
  OBVIOUS
<1> USE DEF driver, wireHistory
<1>1. Types /\ Wire /\ Seen /\ Written /\ BeingRead
  BY DEF IInv
<1>2. /\ << >> \in Seq(Byte) /\ Len(<< >>) = 0 /\ MAX_PACKET_LENGTH \in Nat \ {0} /\ MaxRead \in Nat
      /\ Addresses \subseteq 0 .. 127 /\ Bytes \subseteq Byte
  BY EmptySeq, TwoWireAssumption DEF Byte
<1>3. /\ Len(<< >>) <= MAX_PACKET_LENGTH /\ Len(<< >>) <= MaxRead
      /\ 0 \in 0 .. MAX_PACKET_LENGTH /\ 0 \in 0 .. 127
  BY <1>2
<1>4. CASE Poll
  <2>1. status' = <<twssra>> /\ UNCHANGED <<twiState, twiBuffer, twiReadPos, twiAddress>>
        /\ UNCHANGED <<twsa, twssra, twsd, bus, sent, sentTo, got>>
    BY <1>4 DEF Poll
  <2>2. QED
    BY <1>1, <2>1 DEF Types, TwoWireTypeOK
<1>5. CASE AddressOrStop
  <2>1. /\ twssra' = [twssra EXCEPT !.dif = FALSE, !.asif = FALSE]
        /\ status' = << >> /\ twsd' = twsd
        /\ twiAddress' = IF bus = "address" THEN twsd ELSE twsd \div 2
    BY <1>5, AddressEffect
  <2>2. PICK e \in Effects :
          /\ twsa' = AddressAfter(e)
          /\ AnswersWrite \/ AnswersRead(e) \/ Refuses(e) \/ Finishes(e)
    BY <1>5, AddressEffect
  <2>3. twsa' \in [address : 0 .. 127, mask : 0 .. 127] /\ twssra' \in Flags
    BY <1>1, <2>1, <2>2, AddressTypes, FlagTypes DEF Types
  <2>4. twiAddress' \in 0 .. 127
    <3>1. CASE bus = "address"
      BY <1>1, <1>2, <2>1, <3>1 DEF Wire
    <3>2. CASE bus # "address"
      <4>1. twsd \div 2 \in 0 .. 127
        BY <1>1 DEF Types, Byte
      <4>2. QED
        BY <2>1, <3>2, <4>1
    <3>3. QED
      BY <3>1, <3>2
  <2>5. twiBuffer' \in Seq(Byte) /\ Len(twiBuffer') <= MAX_PACKET_LENGTH
    <3>1. twiBuffer' = << >> \/ twiBuffer' = e.reply
      BY <2>2 DEF AnswersWrite, AnswersRead, Refuses, Finishes
    <3>2. e.reply \in Seq(Byte) /\ Len(e.reply) <= MAX_PACKET_LENGTH
      BY <1>1, EffectTypes
    <3>3. QED
      BY <1>2, <1>3, <3>1, <3>2, Zenon
  <2>6. sent' \in Seq(Byte) /\ got' \in Seq(Byte) /\ Len(got') <= MaxRead
    <3>1. (sent' = << >> \/ sent' = sent) /\ (got' = << >> \/ got' = got)
      BY <2>2 DEF AnswersWrite, AnswersRead, Refuses, Finishes
    <3>2. sent \in Seq(Byte) /\ got \in Seq(Byte) /\ Len(got) <= MaxRead
      BY <1>1 DEF Types, TwoWireTypeOK
    <3>3. QED
      BY <1>2, <1>3, <3>1, <3>2, Zenon
  <2>7. /\ twiState' \in {"Idle", "Read", "Write"}
        /\ bus' \in {"free", "address", "write", "read", "refused"}
    BY <2>2 DEF AnswersWrite, AnswersRead, Refuses, Finishes
  <2>8. twiReadPos' \in 0 .. MAX_PACKET_LENGTH
    <3>1. twiReadPos' = 0 \/ twiReadPos' = twiReadPos
      BY <2>2 DEF AnswersWrite, AnswersRead, Refuses, Finishes
    <3>2. QED
      BY <1>1, <1>3, <3>1 DEF Types, TwoWireTypeOK
  <2>9. DOMAIN twssra' = {"dif", "asif", "as", "dir"}
    BY <2>3, FlagTypes DEF Flags
  <2>10. twsd' \in Byte
    BY <1>1, <2>1 DEF Types
  <2>11. QED
    BY <2>1, <2>3, <2>4, <2>5, <2>6, <2>7, <2>8, <2>9, <2>10 DEF Types, TwoWireTypeOK
<1>6. CASE SystemReset
  <2>1. /\ twssra' = NoFlags /\ status' = << >>
        /\ bus' \in {"refused", "free"}
        /\ twiState' = "Idle" /\ twiBuffer' = << >> /\ twiReadPos' = 0 /\ twiAddress' = 0
        /\ twsa' = ResetDeviceAddress
        /\ UNCHANGED <<twsd, sent, sentTo, got>>
    BY <1>6, ResetEffect
  <2>2. ResetDeviceAddress \in [address : 0 .. 127, mask : 0 .. 127]
    BY DEF ResetDeviceAddress, INITIAL_ADDRESS, INITIAL_BITS, Pow2
  <2>3. twssra' \in Flags /\ DOMAIN twssra' = {"dif", "asif", "as", "dir"}
    BY <2>1 DEF NoFlags, Flags
  <2>4. QED
    BY <1>1, <1>2, <1>3, <2>1, <2>2, <2>3 DEF Types, TwoWireTypeOK
<1>7. CASE DataRead
  <2>1. /\ twssra' = [twssra EXCEPT !.dif = FALSE, !.asif = FALSE] /\ status' = << >>
        /\ bus = "read" /\ twssra.dif
    <3>1. status[1].dir
      BY <1>7 DEF DataRead
    <3>2. QED
      BY <1>7, <3>1, DataEffect
  <2>2. /\ \/ /\ twiReadPos < Len(twiBuffer) /\ twsd' = twiBuffer[twiReadPos + 1]
              /\ twiReadPos' = twiReadPos + 1 /\ bus' = bus
           \/ twsd' = Filler /\ bus' = "refused" /\ twiReadPos' = twiReadPos
        /\ got' = Append(got, twsd')
        /\ UNCHANGED <<twiState, twiBuffer, twiAddress, twsa, sent, sentTo>>
    BY <1>7 DEF DataRead
  <2>3. twiReadPos \in 0 .. MAX_PACKET_LENGTH /\ Len(twiBuffer) \in 0 .. MAX_PACKET_LENGTH
    BY <1>1, Lengths DEF Types, TwoWireTypeOK
  <2>4. twsd' \in Byte /\ twiReadPos' \in 0 .. MAX_PACKET_LENGTH
    <3>1. CASE twiReadPos < Len(twiBuffer)
      <4>1. twiReadPos + 1 \in 1 .. Len(twiBuffer) /\ twiReadPos + 1 \in 0 .. MAX_PACKET_LENGTH
        BY <1>2, <2>3, <3>1
      <4>2. twiBuffer[twiReadPos + 1] \in Byte
        BY <1>1, <4>1, ElementOfSeq DEF Types
      <4>3. Filler \in Byte
        BY DEF Filler, Byte
      <4>4. QED
        BY <2>2, <2>3, <4>1, <4>2, <4>3
    <3>2. CASE ~ (twiReadPos < Len(twiBuffer))
      BY <2>2, <2>3, <3>2 DEF Filler, Byte
    <3>3. QED
      BY <3>1, <3>2
  <2>5. got' \in Seq(Byte) /\ Len(got') <= MaxRead
    <3>1. Len(got) < MaxRead /\ Len(got) \in Nat /\ got \in Seq(Byte)
      BY <1>1, <2>1, Lengths DEF BeingRead, Types
    <3>2. got' \in Seq(Byte) /\ Len(got') = Len(got) + 1
      BY <2>2, <2>4, <3>1, AppendProperties
    <3>3. QED
      BY <1>2, <3>1, <3>2
  <2>6. twssra' \in Flags /\ DOMAIN twssra' = {"dif", "asif", "as", "dir"}
    BY <1>1, <2>1, FlagTypes DEF Types, Flags
  <2>7. bus' \in {"read", "refused"}
    BY <2>1, <2>2
  <2>8. QED
    BY <1>1, <2>1, <2>2, <2>4, <2>5, <2>6, <2>7 DEF Types, TwoWireTypeOK
<1>8. CASE DataWrite
  <2>1. /\ twssra' = [twssra EXCEPT !.dif = FALSE, !.asif = FALSE] /\ status' = << >>
    BY <1>8, DataEffect
  <2>2. /\ \/ Len(twiBuffer) < MAX_PACKET_LENGTH /\ twiBuffer' = Append(twiBuffer, twsd)
           \/ twiBuffer' = twiBuffer
        /\ UNCHANGED <<twiState, twiReadPos, twiAddress, twsa, twsd, bus, sent, sentTo, got>>
    BY <1>8 DEF DataWrite, HasRoom
  <2>3. twiBuffer' \in Seq(Byte) /\ Len(twiBuffer') <= MAX_PACKET_LENGTH
    <3>1. twiBuffer \in Seq(Byte) /\ twsd \in Byte /\ Len(twiBuffer) \in 0 .. MAX_PACKET_LENGTH
          /\ Len(twiBuffer) <= MAX_PACKET_LENGTH
      BY <1>1, Lengths DEF Types, TwoWireTypeOK
    <3>2. Append(twiBuffer, twsd) \in Seq(Byte) /\ Len(Append(twiBuffer, twsd)) = Len(twiBuffer) + 1
      BY <3>1, AppendProperties
    <3>3. Len(twiBuffer) < MAX_PACKET_LENGTH => Len(Append(twiBuffer, twsd)) <= MAX_PACKET_LENGTH
      BY <1>2, <3>1, <3>2
    <3>4. QED
      BY <2>2, <3>1, <3>2, <3>3, Zenon
  <2>4. twssra' \in Flags /\ DOMAIN twssra' = {"dif", "asif", "as", "dir"}
    BY <1>1, <2>1, FlagTypes DEF Types, Flags
  <2>5. QED
    BY <1>1, <2>1, <2>2, <2>3, <2>4 DEF Types, TwoWireTypeOK
<1>9. ASSUME NEW a \in Addresses, NEW read \in BOOLEAN, MasterStarts(a, read) PROVE Types'
  <2>1. /\ bus' = "address" /\ twsd' = a
        /\ twssra' = [dif |-> FALSE, asif |-> TRUE, as |-> TRUE, dir |-> read]
        /\ UNCHANGED <<twiState, twiBuffer, twiReadPos, twiAddress, twsa, status, sent, sentTo, got>>
    BY <1>9 DEF MasterStarts
  <2>2. a \in Byte
    BY <1>2 DEF Byte
  <2>3. twssra' \in Flags /\ DOMAIN twssra' = {"dif", "asif", "as", "dir"}
    BY <1>1, <2>1, FlagTypes DEF Types, Flags
  <2>4. QED
    BY <1>1, <2>1, <2>2, <2>3 DEF Types, TwoWireTypeOK
<1>10. ASSUME NEW b \in Bytes, MasterWrites(b) PROVE Types'
  <2>1. /\ sent' = Append(sent, b) /\ twsd' = b
        /\ twssra' = [twssra EXCEPT !.dif = TRUE]
        /\ UNCHANGED <<twiState, twiBuffer, twiReadPos, twiAddress, twsa, status, bus, sentTo, got>>
    BY <1>10 DEF MasterWrites
  <2>2. b \in Byte
    BY <1>2
  <2>3. sent' \in Seq(Byte)
    BY <1>1, <2>1, <2>2, AppendProperties DEF Types
  <2>4. twssra' \in Flags /\ DOMAIN twssra' = {"dif", "asif", "as", "dir"}
    BY <1>1, <2>1, FlagTypes DEF Types, Flags
  <2>5. QED
    BY <1>1, <2>1, <2>2, <2>3, <2>4 DEF Types, TwoWireTypeOK
<1>11. CASE MasterReads
  <2>1. /\ twssra' = [twssra EXCEPT !.dif = TRUE]
        /\ UNCHANGED <<twiState, twiBuffer, twiReadPos, twiAddress, twsa, twsd, status, bus>>
        /\ UNCHANGED <<sent, sentTo, got>>
    BY <1>11 DEF MasterReads
  <2>2. twssra' \in Flags /\ DOMAIN twssra' = {"dif", "asif", "as", "dir"}
    BY <1>1, <2>1, FlagTypes DEF Types, Flags
  <2>3. QED
    BY <1>1, <2>1, <2>2 DEF Types, TwoWireTypeOK
<1>12. CASE MasterStops
  <2>1. /\ twssra' = twssra \/ twssra' = [twssra EXCEPT !.asif = TRUE, !.as = FALSE]
        /\ bus' = "free"
        /\ UNCHANGED <<twiState, twiBuffer, twiReadPos, twiAddress, twsa, twsd, status>>
        /\ UNCHANGED <<sent, sentTo, got>>
    BY <1>12 DEF MasterStops
  <2>2. twssra' \in Flags /\ DOMAIN twssra' = {"dif", "asif", "as", "dir"}
    BY <1>1, <2>1, FlagTypes DEF Types, Flags
  <2>3. QED
    BY <1>1, <2>1, <2>2 DEF Types, TwoWireTypeOK
<1>13. CASE UNCHANGED twoWireVars
  BY <1>1, <1>13 DEF twoWireVars, Types, TwoWireTypeOK
<1>14. QED
  BY <1>4, <1>5, <1>6, <1>7, <1>8, <1>9, <1>10, <1>11, <1>12, <1>13 DEF Next, BusUpdate

\* The flags go on telling where the transaction is.
LEMMA StepWire == IInv /\ [Next]_twoWireVars => Wire'
<1> SUFFICES ASSUME IInv, [Next]_twoWireVars PROVE Wire'
  OBVIOUS
<1>1. Wire /\ twssra \in Flags
  BY DEF IInv, Types
<1>2. CASE Poll \/ UNCHANGED twoWireVars
  BY <1>1, <1>2 DEF Poll, twoWireVars, Wire
<1>3. CASE AddressOrStop
  <2>1. /\ twssra' = [twssra EXCEPT !.dif = FALSE, !.asif = FALSE]
        /\ \E e \in Effects : AnswersWrite \/ AnswersRead(e) \/ Refuses(e) \/ Finishes(e)
    BY <1>3, AddressEffect
  <2>2. ~ twssra'.dif /\ ~ twssra'.asif /\ twssra'.dir = twssra.dir
    BY <1>1, <2>1 DEF Flags
  <2>3. \/ bus' = "write" /\ ~ twssra.dir
        \/ bus' = "read" /\ twssra.dir
        \/ bus' \in {"refused", "free"}
    BY <2>1 DEF AnswersWrite, AnswersRead, Refuses, Finishes
  <2>4. QED
    BY <2>2, <2>3 DEF Wire
<1>4. CASE SystemReset
  BY <1>4, ResetEffect DEF Wire, NoFlags
<1>5. CASE DataRead \/ DataWrite
  <2>1. /\ twssra' = [twssra EXCEPT !.dif = FALSE, !.asif = FALSE]
        /\ IF twssra.dir THEN bus = "read" ELSE bus = "write"
    BY <1>5, DataEffect
  <2>2. ~ twssra'.dif /\ ~ twssra'.asif /\ twssra'.dir = twssra.dir
    BY <1>1, <2>1 DEF Flags
  <2>3. bus' = bus \/ bus' = "refused"
    BY <1>5 DEF DataRead, DataWrite
  <2>4. QED
    BY <2>1, <2>2, <2>3 DEF Wire
<1>6. ASSUME NEW a \in Addresses, NEW read \in BOOLEAN, MasterStarts(a, read) PROVE Wire'
  BY <1>6 DEF MasterStarts, Wire
<1>7. CASE MasterReads \/ \E b \in Bytes : MasterWrites(b)
  <2>1. /\ ~ Stretching /\ bus \in {"read", "write"} /\ bus' = bus
        /\ twssra' = [twssra EXCEPT !.dif = TRUE]
    BY <1>7 DEF MasterReads, MasterWrites
  <2>2. ~ twssra.asif
    BY <2>1, NotStretching
  <2>3. ~ twssra'.asif /\ twssra'.dir = twssra.dir
    BY <1>1, <2>1, <2>2 DEF Flags
  <2>4. QED
    BY <1>1, <2>1, <2>3 DEF Wire
<1>8. CASE MasterStops
  <2>1. ~ twssra.dif /\ ~ twssra.asif
    BY <1>8, NotStretching DEF MasterStops
  <2>2. bus' = "free" /\ (twssra' = twssra \/ twssra' = [twssra EXCEPT !.asif = TRUE, !.as = FALSE])
    BY <1>8 DEF MasterStops
  <2>3. ~ twssra'.dif /\ ~ (twssra'.asif /\ twssra'.as)
    BY <1>1, <2>1, <2>2 DEF Flags
  <2>4. QED
    BY <2>2, <2>3 DEF Wire
<1>9. QED
  BY <1>2, <1>3, <1>4, <1>5, <1>6, <1>7, <1>8 DEF Next, BusUpdate

\* When the clock is not held, BusUpdate works on nothing, or on a stop.
LEMMA QuietSeen ==
  ASSUME IInv, ~ Stretching, status # << >>
  PROVE  status[1].asif /\ ~ status[1].as /\ bus = "free"
<1>1. status[1] \in Flags /\ bus # "address"
  BY SeenFlags, NotStretching DEF IInv
<1>2. QED
  BY <1>1 DEF IInv, Seen, Stretching

\* What BusUpdate has seen stays so.
LEMMA StepSeen == IInv /\ [Next]_twoWireVars => Seen'
<1> SUFFICES ASSUME IInv, [Next]_twoWireVars PROVE Seen'
  OBVIOUS
<1>1. CASE Poll
  BY <1>1 DEF Poll, IInv, Seen, Wire
<1>2. CASE BusUpdate
  <2>1. status' = << >>
    BY <1>2 DEF BusUpdate, AddressOrStop, SystemReset, DataRead, DataWrite
  <2>2. QED
    BY <2>1 DEF Seen
<1>3. ASSUME NEW a \in Addresses, NEW read \in BOOLEAN, MasterStarts(a, read) PROVE Seen'
  BY <1>3, QuietSeen DEF MasterStarts, Seen
<1>4. CASE MasterReads \/ MasterStops \/ \E b \in Bytes : MasterWrites(b)
  BY <1>4, QuietSeen DEF MasterReads, MasterStops, MasterWrites, Seen
<1>5. CASE UNCHANGED twoWireVars
  BY <1>5 DEF twoWireVars, IInv, Seen
<1>6. QED
  BY <1>1, <1>2, <1>3, <1>4, <1>5 DEF Next

\* The buffer goes on holding what was written.
LEMMA StepWritten == IInv /\ [Next]_twoWireVars => Written'
<1> SUFFICES ASSUME IInv, [Next]_twoWireVars PROVE Written'
  OBVIOUS
<1> USE DEF driver, wireHistory
<1>1. Types /\ Wire /\ Written /\ twssra \in Flags
  BY DEF IInv, Types
<1>2. CASE Poll \/ UNCHANGED twoWireVars
  <2>1. UNCHANGED <<bus, twiState, twiAddress, twiBuffer, twssra, twsd, sent, sentTo>>
    BY <1>2 DEF Poll, twoWireVars
  <2>2. QED
    BY <1>1, <2>1 DEF Written, Cut
<1>3. CASE AddressOrStop
  <2>1. /\ twssra' = [twssra EXCEPT !.dif = FALSE, !.asif = FALSE]
        /\ \E e \in Effects : AnswersWrite \/ AnswersRead(e) \/ Refuses(e) \/ Finishes(e)
    BY <1>3, AddressEffect
  <2>2. ~ twssra'.dif
    BY <1>1, <2>1 DEF Flags
  <2>3. CASE AnswersWrite
    <3>1. sent' = << >> /\ twiBuffer' = Cut(<< >>)
      BY <2>3, CutEmpty, EmptySeq DEF AnswersWrite
    <3>2. twiBuffer' = Cut(sent')
      BY <3>1
    <3>3. QED
      BY <2>2, <2>3, <3>2 DEF AnswersWrite, Written, Cut
  <2>4. CASE \E e \in Effects : AnswersRead(e) \/ Refuses(e) \/ Finishes(e)
    BY <2>4 DEF AnswersRead, Refuses, Finishes, Written
  <2>5. QED
    BY <2>1, <2>3, <2>4
<1>4. CASE SystemReset
  BY <1>4, ResetEffect DEF Written
<1>5. CASE DataRead
  <2>1. bus = "read" /\ twiState' = twiState /\ bus' # "write"
    <3>1. status[1].dir
      BY <1>5 DEF DataRead
    <3>2. QED
      BY <1>5, <3>1, DataEffect DEF DataRead
  <2>2. QED
    BY <1>1, <2>1 DEF Written
<1>6. CASE DataWrite
  <2>1. bus = "write" /\ twssra.dif /\ twssra' = [twssra EXCEPT !.dif = FALSE, !.asif = FALSE]
    <3>1. ~ status[1].dir
      BY <1>6 DEF DataWrite
    <3>2. QED
      BY <1>6, <3>1, DataEffect
  <2>2. UNCHANGED <<twiState, twiAddress, bus, sent, sentTo>>
        /\ twiBuffer' = IF Len(twiBuffer) < MAX_PACKET_LENGTH THEN Append(twiBuffer, twsd) ELSE twiBuffer
    BY <1>6 DEF DataWrite, HasRoom
  <2>3. PICK before \in Seq(Byte) : sent = Append(before, twsd) /\ twiBuffer = Cut(before)
    BY <1>1, <2>1 DEF Written
  <2>4. twsd \in Byte
    BY <1>1 DEF Types
  <2>5. twiBuffer' = Cut(sent)
    BY <2>2, <2>3, <2>4, CutAppend
  <2>6. ~ twssra'.dif
    BY <1>1, <2>1 DEF Flags
  <2>7. QED
    BY <1>1, <2>1, <2>2, <2>5, <2>6 DEF Written, Cut
<1>7. ASSUME NEW a \in Addresses, NEW read \in BOOLEAN, MasterStarts(a, read) PROVE Written'
  <2>1. ~ twssra.dif
    BY <1>7, NotStretching DEF MasterStarts
  <2>2. ~ twssra'.dif /\ bus' = "address"
        /\ UNCHANGED <<twiState, twiAddress, twiBuffer, sent, sentTo>>
    BY <1>7 DEF MasterStarts
  <2>3. QED
    BY <1>1, <2>1, <2>2 DEF Written, Cut
<1>8. ASSUME NEW b \in Bytes, MasterWrites(b) PROVE Written'
  <2>1. ~ twssra.dif /\ bus = "write"
    BY <1>8, NotStretching DEF MasterWrites
  <2>2. twssra' = [twssra EXCEPT !.dif = TRUE] /\ sent' = Append(sent, b) /\ twsd' = b
        /\ UNCHANGED <<twiState, twiAddress, twiBuffer, sentTo, bus>>
    BY <1>8 DEF MasterWrites
  <2>3. sent \in Seq(Byte) /\ sent' = Append(sent, twsd') /\ twiBuffer' = Cut(sent)
    BY <1>1, <2>1, <2>2 DEF Written, Types
  <2>4. twssra'.dif
    BY <1>1, <2>2 DEF Flags
  <2>5. \E before \in Seq(Byte) : sent' = Append(before, twsd') /\ twiBuffer' = Cut(before)
    BY <2>3
  <2>6. QED
    BY <1>1, <2>1, <2>2, <2>4, <2>5 DEF Written, Cut
<1>9. CASE MasterReads
  BY <1>1, <1>9 DEF MasterReads, Written
<1>10. CASE MasterStops
  <2>1. ~ twssra.dif
    BY <1>10, NotStretching DEF MasterStops
  <2>2. /\ twssra' = twssra \/ twssra' = [twssra EXCEPT !.asif = TRUE, !.as = FALSE]
        /\ bus' = "free" /\ UNCHANGED <<twiState, twiAddress, twiBuffer, sent, sentTo>>
    BY <1>10 DEF MasterStops
  <2>3. ~ twssra'.dif
    BY <1>1, <2>1, <2>2 DEF Flags
  <2>4. QED
    BY <1>1, <2>1, <2>2, <2>3 DEF Written, Cut
<1>11. QED
  BY <1>2, <1>3, <1>4, <1>5, <1>6, <1>7, <1>8, <1>9, <1>10 DEF Next, BusUpdate

\* The reader goes on getting the bytes in order.
LEMMA StepBeingRead == IInv /\ [Next]_twoWireVars => BeingRead'
<1> SUFFICES ASSUME IInv, [Next]_twoWireVars PROVE BeingRead'
  OBVIOUS
<1> USE DEF driver, wireHistory
<1>1. Types /\ Wire /\ BeingRead /\ twssra \in Flags
  BY DEF IInv, Types
<1>2. CASE Poll \/ UNCHANGED twoWireVars
  BY <1>1, <1>2 DEF Poll, twoWireVars, BeingRead
<1>3. CASE AddressOrStop
  <2>1. /\ twssra' = [twssra EXCEPT !.dif = FALSE, !.asif = FALSE]
        /\ \E e \in Effects : AnswersWrite \/ AnswersRead(e) \/ Refuses(e) \/ Finishes(e)
    BY <1>3, AddressEffect
  <2>2. ~ twssra'.dif
    BY <1>1, <2>1 DEF Flags
  <2>3. ASSUME bus' = "read" PROVE twiState' = "Read" /\ twiReadPos' = 0 /\ got' = << >>
    BY <2>1, <2>3 DEF AnswersWrite, AnswersRead, Refuses, Finishes
  <2>4. QED
    BY <2>2, <2>3, EmptySeq DEF BeingRead
<1>4. CASE SystemReset
  BY <1>4, ResetEffect DEF BeingRead
<1>5. CASE DataRead
  <2>1. bus = "read" /\ twssra' = [twssra EXCEPT !.dif = FALSE, !.asif = FALSE]
    <3>1. status[1].dir
      BY <1>5 DEF DataRead
    <3>2. QED
      BY <1>5, <3>1, DataEffect
  <2>2. ~ twssra'.dif
    BY <1>1, <2>1 DEF Flags
  <2>3. ASSUME bus' = "read"
        PROVE  twiState' = "Read" /\ twiReadPos' = twiReadPos + 1 /\ got' = Append(got, twsd')
    BY <1>1, <1>5, <2>1, <2>3 DEF DataRead, BeingRead
  <2>4. Len(Append(got, twsd')) = Len(got) + 1
    <3>1. got \in Seq(Byte) /\ twsd' \in Byte
      BY <1>1, StepTypes DEF Types
    <3>2. QED
      BY <3>1, AppendProperties
  <2>5. QED
    BY <1>1, <2>1, <2>2, <2>3, <2>4 DEF BeingRead
<1>6. CASE DataWrite
  <2>1. bus = "write" /\ bus' = bus
    <3>1. ~ status[1].dir
      BY <1>6 DEF DataWrite
    <3>2. QED
      BY <1>6, <3>1, DataEffect DEF DataWrite
  <2>2. QED
    BY <2>1 DEF BeingRead
<1>7. ASSUME NEW a \in Addresses, NEW read \in BOOLEAN, MasterStarts(a, read) PROVE BeingRead'
  BY <1>7 DEF MasterStarts, BeingRead
<1>8. CASE MasterStops \/ \E b \in Bytes : MasterWrites(b)
  BY <1>8 DEF MasterStops, MasterWrites, BeingRead
<1>9. CASE MasterReads
  BY <1>1, <1>9 DEF MasterReads, BeingRead
<1>10. QED
  BY <1>2, <1>3, <1>4, <1>5, <1>6, <1>7, <1>8, <1>9 DEF Next, BusUpdate

\* IInv is an invariant.
LEMMA IInvHolds == Spec => []IInv
<1>1. IInv /\ [Next]_twoWireVars => IInv'
  BY StepTypes, StepWire, StepSeen, StepWritten, StepBeingRead DEF IInv
<1>2. QED
  BY InitIInv, <1>1, PTL DEF Spec

\* The types are kept, and no index of BusUpdate leaves twiBuffer, whatever the
\* master writes and reads.
THEOREM TypeCorrect == Spec => []TwoWireTypeOK
<1>1. IInv => TwoWireTypeOK
  BY DEF IInv, Types
<1>2. QED
  BY <1>1, IInvHolds, PTL

-----------------------------------------------------------------------------
(***************************************************************************)
(* The refinement: what the steps of the driver are to the master.         *)
(***************************************************************************)
\* A request whose end has not been looked at.
Due == twiState = "Write" /\ bus # "write" /\ sent # << >>

Listened == { a \in Addresses \ {0} : Listens(a) }

\* Both modules mean the same by BusCallback.
LEMMA SameCallback ==
  ASSUME NEW a, NEW r
  PROVE  Exchange!BusCallback(a, r) = BusCallback(a, r)
BY DEF BusCallback, handleGeneralCall, Effect, Nothing, RESET, RESET_ADDRESS,
       Exchange!BusCallback, Exchange!handleGeneralCall, Exchange!Effect, Exchange!Nothing,
       Exchange!RESET, Exchange!RESET_ADDRESS

\* At the end of a transaction, BusCallback is called just when a request is due,
\* and with that request.
LEMMA SameEffects ==
  ASSUME IInv, bus \in {"address", "free"}
  PROVE  /\ Exchange!Effects = Effects
         /\ CallbackDue <=> Due
         /\ ExecutedNow => executed' = IF Due THEN <<1 - executed[1], sentTo, Cut(sent)>> ELSE executed
<1>1. ~ twssra.dif /\ sent \in Seq(Byte)
  BY DEF IInv, Wire, Types
<1>2. twiState = "Write" => twiBuffer = Cut(sent) /\ twiAddress = sentTo
  BY <1>1 DEF IInv, Written
<1>3. CallbackDue <=> Due
  BY <1>1, <1>2, CutEmpty DEF CallbackDue, Due
<1>4. CASE Due
  <2>1. Effects = BusCallback(sentTo, Cut(sent))
    BY <1>2, <1>3, <1>4 DEF Effects, Due
  <2>2. Exchange!Effects = Exchange!BusCallback(sentTo, Cut(sent))
    BY <1>4 DEF Exchange!Effects, Due
  <2>3. Exchange!Effects = Effects
    BY <2>1, <2>2, SameCallback
  <2>4. QED
    BY <1>2, <1>3, <1>4, <2>3 DEF ExecutedNow, Due
<1>5. CASE ~ Due
  <2>1. twiBuffer = IF twiState = "Write" THEN << >> ELSE twiBuffer
    BY <1>3, <1>5 DEF CallbackDue
  <2>2. Exchange!Effects = {Exchange!Nothing(IF twiState = "Write" THEN << >> ELSE twiBuffer)}
    BY <1>5 DEF Exchange!Effects, Due
  <2>3. Effects = {Nothing(twiBuffer)}
    BY <1>3, <1>5 DEF Effects
  <2>4. Exchange!Effects = Effects
    BY <2>1, <2>2, <2>3 DEF Nothing, Effect, Exchange!Nothing, Exchange!Effect
  <2>5. QED
    BY <1>3, <1>5, <2>4 DEF ExecutedNow
<1>6. QED
  BY <1>4, <1>5

\* The initial addresses are those that the mask lets pass.
LEMMA InitialAddress ==
  ASSUME NEW r, r = ResetDeviceAddress, NEW a \in Addresses
  PROVE  (a # 0 /\ (a = 0 \/ a \div (r.mask + 1) = r.address \div (r.mask + 1))) <=> a \in 8 .. 15
<1>1. r = [address |-> 8, mask |-> 7]
  BY DEF ResetDeviceAddress, INITIAL_ADDRESS, INITIAL_BITS, Pow2
<1>2. a \in 0 .. 127
  BY TwoWireAssumption
<1>3. a \div 8 = 1 <=> a \in 8 .. 15
  BY <1>2
<1>4. r.mask + 1 = 8 /\ r.address \div (r.mask + 1) = 1
  BY <1>1
<1>5. QED
  BY <1>2, <1>3, <1>4

\* The addresses listened to change as BusCallback says.
LEMMA ListenAfter ==
  ASSUME Types, NEW e \in Effects, twsa' = AddressAfter(e), e.call # "resetSystem"
  PROVE  Listened' = Exchange!ListenAfter(e)
<1>1. e.call \in {"none", "BusSetDeviceAddress", "BusResetDeviceAddress", "resetSystem"}
  BY EffectTypes
<1>2. CASE e.call = "none"
  BY <1>2 DEF AddressAfter, Listened, Listens, Exchange!ListenAfter
<1>3. CASE e.call = "BusSetDeviceAddress"
  <2>1. e.address \in 1 .. 127
    BY <1>3, EffectTypes
  <2>2. twsa' = [address |-> e.address, mask |-> 0]
    <3>1. e.address % 128 = e.address
      BY <2>1
    <3>2. QED
      BY <1>3, <3>1 DEF AddressAfter, SetDeviceAddress
  <2>3. ASSUME NEW a \in Addresses PROVE (a # 0 /\ Listens(a)') <=> a = e.address
    <3>1. a \in 0 .. 127
      BY TwoWireAssumption
    <3>2. a \div (0 + 1) = a /\ e.address \div (0 + 1) = e.address
      BY <2>1, <3>1
    <3>3. Listens(a)' <=> a = 0 \/ a = e.address
      BY <2>2, <3>2 DEF Listens
    <3>4. QED
      BY <2>1, <3>3
  <2>4. Exchange!ListenAfter(e) = {e.address} \cap Addresses
    BY <1>3 DEF Exchange!ListenAfter
  <2>5. QED
    BY <2>3, <2>4 DEF Listened
<1>4. CASE e.call = "BusResetDeviceAddress"
  <2>1. twsa' = ResetDeviceAddress
    BY <1>4 DEF AddressAfter
  <2>2. Listened' = Exchange!InitialAddresses
    <3>1. ASSUME NEW a \in Addresses PROVE (a # 0 /\ Listens(a)') <=> a \in 8 .. 15
      BY <2>1, InitialAddress DEF Listens
    <3>2. QED
      BY <3>1 DEF Listened, Exchange!InitialAddresses
  <2>3. QED
    BY <1>4, <2>1, <2>2 DEF Exchange!ListenAfter
<1>5. QED
  BY <1>1, <1>2, <1>3, <1>4

\* What was due is settled once BusUpdate has looked at the end of a transaction.
LEMMA SettleStep ==
  ASSUME IInv, NEW e, bus \in {"address", "free"},
         Listened' = Exchange!ListenAfter(e), ~ Due', ExecutedNow
  PROVE  Exchange!Settle(e)
<1>1. executed' = IF Due THEN <<1 - executed[1], sentTo, Cut(sent)>> ELSE executed
  BY SameEffects
<1>2. QED
  BY <1>1 DEF Exchange!Settle, Due, Listened

\* An address is answered, or a stop or a missed address ends the transaction.
LEMMA AddressRefines ==
  ASSUME IInv, AddressOrStop
  PROVE  Exchange!Next \/ UNCHANGED Exchange!exchangeVars
<1>1. /\ ExecutedNow /\ bus \in {"address", "free"} /\ twsd' = twsd
      /\ twssra' = [twssra EXCEPT !.dif = FALSE, !.asif = FALSE]
  BY AddressEffect
<1>2. PICK e \in Effects :
        /\ e.call # "resetSystem" /\ twsa' = AddressAfter(e)
        /\ AnswersWrite \/ AnswersRead(e) \/ Refuses(e) \/ Finishes(e)
  BY AddressEffect
<1>3. Types /\ sent \in Seq(Byte) /\ Exchange!Effects = Effects
  BY <1>1, SameEffects DEF IInv, Types
<1>4. Listened' = Exchange!ListenAfter(e)
  BY <1>2, <1>3, ListenAfter
<1>5. ~ Due'
  BY <1>2 DEF AnswersWrite, AnswersRead, Refuses, Finishes, Due
<1>6. Exchange!Settle(e)
  BY <1>1, <1>4, <1>5, SettleStep
<1>7. CASE AnswersWrite
  <2>1. Cut(sent)' = << >>
    BY <1>3, <1>7, CutEmpty DEF AnswersWrite, Cut
  <2>2. Exchange!StartWrite(e)
    BY <1>2, <1>6, <1>7, <2>1 DEF AnswersWrite, Exchange!StartWrite, Exchange!Addressed, Exchange!Nowhere
  <2>3. QED
    BY <1>3, <2>2 DEF Exchange!Next
<1>8. CASE AnswersRead(e)
  <2>1. Exchange!StartRead(e)
    BY <1>2, <1>6, <1>8 DEF AnswersRead, Exchange!StartRead, Exchange!Addressed, Exchange!Nowhere, Cut
  <2>2. QED
    BY <1>3, <2>1 DEF Exchange!Next
<1>9. CASE Refuses(e)
  <2>1. Exchange!Refuse(e)
    BY <1>2, <1>6, <1>9 DEF Refuses, Exchange!Refuse, Exchange!Addressed, Exchange!Nowhere, Cut
  <2>2. QED
    BY <1>3, <2>1 DEF Exchange!Next
<1>10. CASE Finishes(e)
  <2>1. /\ bus = "free" /\ bus' = "free" /\ twiState' = "Idle" /\ twiBuffer' = e.reply
        /\ UNCHANGED <<sent, sentTo, got>>
    BY <1>10 DEF Finishes
  <2>2. CASE Due
    <3>1. Exchange!Execute
      BY <1>3, <1>6, <2>1, <2>2 DEF Exchange!Execute, Due, Cut
    <3>2. QED
      BY <3>1 DEF Exchange!Next
  <2>3. CASE ~ Due
    <3>1. ~ CallbackDue
      BY <1>1, <2>3, SameEffects
    <3>2. e.reply = twiBuffer /\ e.call = "none" /\ (twiState = "Write" => twiBuffer = << >>)
      BY <1>3, <3>1, EffectTypes DEF CallbackDue
    <3>3. Listened' = Listened /\ executed' = executed
      BY <1>1, <1>2, <3>1, <3>2 DEF AddressAfter, Listened, Listens, ExecutedNow
    <3>4. QED
      BY <1>5, <2>1, <2>3, <3>2, <3>3 DEF Exchange!exchangeVars, Due, Listened, Cut
  <2>4. QED
    BY <2>2, <2>3
<1>11. QED
  BY <1>2, <1>7, <1>8, <1>9, <1>10

\* The reset that RESET asks for executes that request.
LEMMA ResetRefines ==
  ASSUME IInv, SystemReset
  PROVE  Exchange!Next \/ UNCHANGED Exchange!exchangeVars
<1>1. /\ ExecutedNow /\ bus \in {"address", "free"}
      /\ bus' = IF bus = "address" THEN "refused" ELSE bus
      /\ twiState' = "Idle" /\ twiBuffer' = << >> /\ twsa' = ResetDeviceAddress
      /\ UNCHANGED <<sent, sentTo, got>>
  BY ResetEffect
<1>2. PICK e \in Effects : e.call = "resetSystem"
  BY ResetEffect
<1>3. Types /\ Exchange!Effects = Effects
  BY <1>1, SameEffects DEF IInv
<1>4. e.reply = << >> /\ CallbackDue
  BY <1>2, <1>3, EffectTypes
<1>5. Listened' = Exchange!ListenAfter(e)
  <2>1. ASSUME NEW a \in Addresses PROVE (a # 0 /\ Listens(a)') <=> a \in 8 .. 15
    BY <1>1, InitialAddress DEF Listens
  <2>2. QED
    BY <1>2, <2>1 DEF Listened, Exchange!ListenAfter, Exchange!InitialAddresses
<1>6. Exchange!Settle(e)
  BY <1>1, <1>5, SettleStep DEF Due
<1>7. Due
  BY <1>1, <1>4, SameEffects
<1>8. CASE bus = "address"
  <2>1. Exchange!Refuse(e)
    BY <1>1, <1>2, <1>4, <1>6, <1>8 DEF Exchange!Refuse, Exchange!Addressed, Exchange!Nowhere, Cut
  <2>2. QED
    BY <1>3, <2>1 DEF Exchange!Next
<1>9. CASE bus = "free"
  <2>1. Exchange!Execute
    BY <1>1, <1>3, <1>4, <1>6, <1>7, <1>9 DEF Exchange!Execute, Due, Cut
  <2>2. QED
    BY <2>1 DEF Exchange!Next
<1>10. QED
  BY <1>1, <1>8, <1>9

\* A byte is sent.
LEMMA ReadRefines ==
  ASSUME IInv, DataRead
  PROVE  Exchange!Next
<1>1. bus = "read"
  <2>1. status[1].dir
    BY DEF DataRead
  <2>2. QED
    BY <2>1, DataEffect
<1>2. twiState = "Read" /\ twiReadPos = Len(got)
  BY <1>1 DEF IInv, BeingRead
<1>3. /\ IF twiReadPos < Len(twiBuffer)
           THEN twsd' = twiBuffer[twiReadPos + 1] /\ bus' = bus
           ELSE twsd' = Filler /\ bus' = "refused"
      /\ got' = Append(got, twsd')
      /\ UNCHANGED <<twiState, twiBuffer, twsa, sent, sentTo, executed>>
  BY DEF DataRead
<1>4. Exchange!Read
  BY <1>1, <1>2, <1>3 DEF Exchange!Read, Listens, Cut
<1>5. QED
  BY <1>4 DEF Exchange!Next

\* A byte that the driver takes has been written already.
LEMMA WriteRefines ==
  ASSUME IInv, DataWrite
  PROVE  UNCHANGED Exchange!exchangeVars
<1>1. bus = "write"
  <2>1. ~ status[1].dir
    BY DEF DataWrite
  <2>2. QED
    BY <2>1, DataEffect
<1>2. twiState = "Write"
  BY <1>1 DEF IInv, Written
<1>3. UNCHANGED <<twiState, twsa, bus, sent, sentTo, got, executed>>
  BY DEF DataWrite, wireHistory
<1>4. QED
  BY <1>1, <1>2, <1>3 DEF Exchange!exchangeVars, Listens, Cut

\* The master's own steps are what they are.
LEMMA MasterRefines ==
  ASSUME IInv,
         \/ MasterReads \/ MasterStops
         \/ \E a \in Addresses, read \in BOOLEAN : MasterStarts(a, read)
         \/ \E b \in Bytes : MasterWrites(b)
  PROVE  Exchange!Next \/ UNCHANGED Exchange!exchangeVars
<1> USE DEF driver, wireHistory
<1>1. Types /\ sent \in Seq(Byte) /\ bus # "address"
  <2>1. ~ Stretching
    BY DEF MasterReads, MasterStops, MasterStarts, MasterWrites
  <2>2. QED
    BY <2>1, NotStretching DEF IInv, Types
<1>2. bus = "write" => twiState = "Write"
  BY DEF IInv, Written
<1>3. Cut(sent) = << >> <=> sent = << >>
  BY <1>1, CutEmpty
<1>4. CASE MasterReads
  BY <1>4 DEF MasterReads, Exchange!exchangeVars, Listens, Cut
<1>5. CASE MasterStops
  <2>1. /\ bus \in {"write", "read", "refused"} /\ bus' = "free"
        /\ UNCHANGED <<twiState, twiBuffer, twsa, sent, sentTo, got, executed>>
    BY <1>5 DEF MasterStops
  <2>2. Exchange!End
    BY <1>2, <1>3, <2>1 DEF Exchange!End, Exchange!Ended, Listens, Cut
  <2>3. QED
    BY <2>2 DEF Exchange!Next
<1>6. ASSUME NEW a \in Addresses, NEW read \in BOOLEAN, MasterStarts(a, read)
      PROVE  Exchange!Next
  <2>1. /\ Listens(a) /\ (read => a # 0)
        /\ bus' = "address" /\ twsd' = a /\ twssra'.dir = read
        /\ UNCHANGED <<twiState, twiBuffer, twsa, sent, sentTo, got, executed>>
    BY <1>6 DEF MasterStarts
  <2>2. a \in Listened \/ (a = 0 /\ ~ read)
    BY <2>1 DEF Listened
  <2>3. Exchange!Match(a, read)
    BY <1>1, <1>2, <1>3, <2>1, <2>2 DEF Exchange!Match, Exchange!Ended, Listened, Listens, Cut,
         TwoWireTypeOK, Types
  <2>4. QED
    BY <2>3 DEF Exchange!Next
<1>7. ASSUME NEW b \in Bytes, MasterWrites(b)
      PROVE  Exchange!Next
  <2>1. /\ bus = "write" /\ sent' = Append(sent, b)
        /\ UNCHANGED <<twiState, twiBuffer, twsa, bus, sentTo, got, executed>>
    BY <1>7 DEF MasterWrites
  <2>2. b \in Byte
    BY TwoWireAssumption DEF Byte
  <2>3. Cut(sent)' = IF Len(Cut(sent)) < MAX_PACKET_LENGTH THEN Append(Cut(sent), b) ELSE Cut(sent)
    <3>1. Cut(sent)' = Cut(Append(sent, b))
      BY <2>1 DEF Cut
    <3>2. QED
      BY <1>1, <2>2, <3>1, CutAppend
  <2>4. Exchange!Write(b)
    BY <2>1, <2>3 DEF Exchange!Write, Listens
  <2>5. QED
    BY <2>4 DEF Exchange!Next
<1>8. QED
  BY <1>4, <1>5, <1>6, <1>7

\* The driver keeps what I2CExchange promises of every step: requests are executed
\* once and as sent, and every read returns the whole reply to the last one.
\* That every request is executed in the end is not among it.
THEOREM ExchangeCorrect == Spec => Exchange!Safety
<1>1. Init => Exchange!Init
  <2> SUFFICES ASSUME Init PROVE Exchange!Init
    OBVIOUS
  <2>1. Listened = Exchange!InitialAddresses
    <3>1. ASSUME NEW a \in Addresses PROVE (a # 0 /\ Listens(a)) <=> a \in 8 .. 15
      BY InitialAddress DEF Listens, Init
    <3>2. QED
      BY <3>1 DEF Listened, Exchange!InitialAddresses
  <2>2. Cut(sent) = << >>
    BY CutEmpty, EmptySeq DEF Init
  <2>3. QED
    BY <2>1, <2>2 DEF Init, Exchange!Init, Exchange!Nowhere, Listened
<1>2. ASSUME IInv, [Next]_twoWireVars PROVE [Exchange!Next]_(Exchange!exchangeVars)
  <2>1. CASE Poll \/ UNCHANGED twoWireVars
    <3>1. UNCHANGED <<bus, twiState, twiBuffer, twsa, twsd, twssra, sent, sentTo, got, executed>>
      BY <2>1 DEF Poll, twoWireVars, driver, wireHistory
    <3>2. QED
      BY <3>1 DEF Exchange!exchangeVars, Listens, Cut
  <2>2. CASE BusUpdate
    BY <1>2, <2>2, AddressRefines, ResetRefines, ReadRefines, WriteRefines DEF BusUpdate
  <2>3. CASE \/ MasterReads \/ MasterStops
             \/ \E a \in Addresses, read \in BOOLEAN : MasterStarts(a, read)
             \/ \E b \in Bytes : MasterWrites(b)
    BY <1>2, <2>3, MasterRefines
  <2>4. QED
    BY <1>2, <2>1, <2>2, <2>3 DEF Next
<1>3. QED
  BY <1>1, <1>2, IInvHolds, PTL DEF Spec, Exchange!Safety
=============================================================================
