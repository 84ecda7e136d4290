------------------------------ MODULE Rs485_proofs ------------------------------
(***************************************************************************)
(* Proofs about Rs485: how the driver cuts what it hears into frames, for  *)
(* every buffer size, frames of any length, addresses and reply lengths.   *)
(***************************************************************************)
EXTENDS Rs485, SequenceTheorems, TLAPS

-----------------------------------------------------------------------------
(***************************************************************************)
(* The inductive invariant.                                                *)
(***************************************************************************)
TaggedByte == [value : 0 .. 255, origin : 0 .. 2]

\* What the driver listens to: UpdateReceive looks at the flags.
Listening == ~ calling /\ busState # "Write"
InFrame == busState = "Read" /\ ~ calling

Origin == frame[1].origin

\* The bytes of the current frame that came, or were missed.
Came == Len(frame) - Len(line)

\* Sequences are sequences of bytes, and a reply has at least four bytes.
Types ==
  /\ Rs485TypeOK
  /\ {busBuffer, line, frame} \subseteq Seq(TaggedByte)
  /\ {rdr, busAddress} \subseteq TaggedByte
  /\ frame # << >>
  /\ echo \in Seq({EchoByte}) /\ Len(echo) <= 2
  /\ busState = "Write" => Len(busBuffer) >= 4 /\ \A i \in 1 .. Len(busBuffer) : busBuffer[i] = EchoByte

\* The flags of the USART tell where the frame is: a frame that is being read ends
\* with the timeout only, and what the driver has or will drop is of a frame for which
\* the timeout is running or has expired.
Flags ==
  /\ rtof => echo = << >>
  /\ rtof /\ InFrame => ~ timing /\ line = << >>
  /\ rxne \/ error \/ InFrame => timing \/ rtof

\* While the driver does not listen, and hears itself, no frame comes;  of the own
\* reply it hears one byte, and an overrun.
Deaf ==
  /\ ~ Listening /\ echoing => line = << >> /\ ~ rtof
  /\ calling /\ echoing => ~ timing
  /\ busState = "Write" /\ echoing =>
       /\ Len(echo) <= busTxPos
       /\ busTxPos - Len(echo) >= 1 => rxne
       /\ busTxPos - Len(echo) >= 2 => error

Echoes ==
  /\ echo # << >> => echoing /\ line = << >> /\ ~ calling
  /\ Listening /\ echo # << >> => error

\* Every byte the driver has is of the current frame, unless it will drop them
\* because of an error, or because a timeout is left of a frame nobody listened to,
\* which ends the next one at its first byte.
Origins ==
  /\ \A i \in 1 .. Len(frame) : frame[i].origin = Origin
  /\ ~ error /\ rxne /\ (Listening \/ ~ echoing) =>
       rdr.origin = Origin \/ (rtof /\ ~ InFrame)
  /\ ~ error /\ InFrame =>
       /\ busAddress.origin = Origin
       /\ \A i \in 1 .. Len(busBuffer) : busBuffer[i].origin = Origin

\* The line holds the end of the frame.
Rest ==
  /\ Len(line) <= Len(frame)
  /\ \A i \in 1 .. Len(line) : line[i] = frame[Came + i]

\* The bytes that were read are the first c of the frame.
Taken == Came - (IF rxne THEN 1 ELSE 0)

InStep ==
  /\ rxne => Came >= 1 /\ rdr = frame[Came]
  /\ busState = IF Taken = 0 THEN "Idle" ELSE "Read"
  /\ Taken > 0 =>
       /\ busAddress = frame[1]
       /\ Len(busBuffer) = IF Taken - 1 <= MAX_PACKET_LENGTH THEN Taken - 1 ELSE MAX_PACKET_LENGTH
       /\ \A i \in 1 .. Len(busBuffer) : busBuffer[i] = frame[i + 1]

\* A frame that found the driver ready is in busBuffer up to the byte that came last,
\* until it ends.
Tracked ==
  whole /\ ~ delivered =>
    /\ Listening /\ echo = << >> /\ ~ error
    /\ rtof => ~ timing /\ line = << >>
    /\ timing \/ rtof => Came >= 1
    /\ line # << >> \/ timing \/ rtof => InStep
    /\ line = << >> /\ ~ timing /\ ~ rtof =>
         Len(frame) = 1 \/ frame[1].value \notin MyAddresses

Finished ==
  whole /\ delivered =>
    /\ line = << >>
    /\ rtof => ~ timing
    /\ Listening /\ (timing \/ rtof) => error
    /\ ~ Listening /\ ~ echoing => ~ timing /\ ~ rtof

IInv == Types /\ Flags /\ Deaf /\ Echoes /\ Origins /\ Rest /\ Tracked /\ Finished

\* When at most one frame comes while the driver does not listen, the timeout
\* runs, or has expired, only while a frame is not finished for the driver.
Prompt ==
  /\ rtof => ~ timing /\ line = << >> /\ (rxne \/ InFrame)
  /\ timing => rxne \/ InFrame
  /\ ~ Listening /\ ~ echoing /\ unheard = 0 => ~ timing /\ ~ rtof /\ line = << >>

-----------------------------------------------------------------------------
(***************************************************************************)
(* What the operators of the model return.                                 *)
(***************************************************************************)
\* The buffer never takes more than it holds, and what is read is bytes.
LEMMA ReadTypes ==
  ASSUME Types
  PROVE  /\ BufferNow \in Seq(TaggedByte) /\ Len(BufferNow) <= MAX_PACKET_LENGTH
         /\ AddressNow \in TaggedByte
<1>1. MAX_PACKET_LENGTH \in Nat
  BY Rs485Assumption
<1>2. busBuffer \in Seq(TaggedByte) /\ rdr \in TaggedByte /\ busAddress \in TaggedByte
  BY DEF Types
<1>3. Len(busBuffer) \in Nat /\ Len(busBuffer) <= MAX_PACKET_LENGTH
  BY <1>2, LenProperties DEF Types, Rs485TypeOK
<1>4. CASE BufferNow = Append(busBuffer, rdr) /\ Len(busBuffer) < MAX_PACKET_LENGTH
  <2>1. BufferNow \in Seq(TaggedByte) /\ Len(BufferNow) = Len(busBuffer) + 1
    BY <1>2, <1>4, AppendProperties
  <2>2. AddressNow \in TaggedByte
    BY <1>2 DEF AddressNow
  <2>3. QED
    BY <1>1, <1>3, <1>4, <2>1, <2>2
<1>5. CASE BufferNow = << >> \/ BufferNow = busBuffer
  <2>1. << >> \in Seq(TaggedByte) /\ Len(<< >>) <= MAX_PACKET_LENGTH
    <3>1. << >> \in Seq(TaggedByte) /\ Len(<< >>) = 0
      BY EmptySeq
    <3>2. QED
      BY <1>1, <3>1
  <2>2. AddressNow \in TaggedByte
    BY <1>2 DEF AddressNow
  <2>3. CASE BufferNow = << >>
    BY <2>1, <2>2, <2>3, Zenon
  <2>4. CASE BufferNow = busBuffer
    BY <1>2, <1>3, <2>2, <2>4, Zenon
  <2>5. QED
    BY <1>5, <2>3, <2>4
<1>6. QED
  BY <1>4, <1>5 DEF BufferNow

\* A frame on the line is the bytes of one of Frames, all of the same origin.
LEMMA TaggedFrame ==
  ASSUME NEW f \in Frames, NEW o \in 0 .. 2
  PROVE  /\ Tagged(f, o) \in Seq(TaggedByte) /\ Tagged(f, o) # << >>
         /\ \A i \in 1 .. Len(Tagged(f, o)) : Tagged(f, o)[i].origin = o
<1>1. f \in Seq(0 .. 255) /\ f # << >>
  BY Rs485Assumption
<1>2. Len(f) \in Nat /\ \A i \in 1 .. Len(f) : f[i] \in 0 .. 255
  BY <1>1, LenProperties, ElementOfSeq
<1>3. Len(f) \in Nat \ {0}
  BY <1>1, EmptySeq
<1>4. Tagged(f, o) \in [1 .. Len(f) -> TaggedByte]
  BY <1>2 DEF Tagged, TaggedByte
<1>5. Tagged(f, o) \in Seq(TaggedByte)
  BY <1>2, <1>4, SeqDef
<1>6. Len(Tagged(f, o)) = Len(f)
  BY <1>2, <1>4, <1>5, LenProperties
<1>7. Tagged(f, o) # << >>
  BY <1>3, <1>6, EmptySeq
<1>8. \A i \in 1 .. Len(Tagged(f, o)) : Tagged(f, o)[i].origin = o
  BY <1>6 DEF Tagged
<1>9. QED
  BY <1>5, <1>7, <1>8

\* A byte off the line: the rest of the line is shorter by it.
LEMMA LineTail ==
  ASSUME Types, line # << >>
  PROVE  /\ Head(line) \in TaggedByte /\ Tail(line) \in Seq(TaggedByte)
         /\ Len(line) \in Nat \ {0} /\ Len(Tail(line)) = Len(line) - 1
         /\ Head(line) = line[1]
         /\ \A i \in 1 .. Len(Tail(line)) : Tail(line)[i] = line[i + 1]
<1>1. line \in Seq(TaggedByte)
  BY DEF Types
<1>2. QED
  BY <1>1, HeadTailProperties, EmptySeq

\* The bytes of the own reply.
LEMMA EchoSeq ==
  ASSUME Types
  PROVE  /\ Len(echo) \in 0 .. 2
         /\ echo # << >> => /\ Head(echo) = EchoByte /\ Tail(echo) \in Seq({EchoByte})
                            /\ Len(echo) >= 1 /\ Len(Tail(echo)) = Len(echo) - 1
         /\ Append(echo, EchoByte) \in Seq({EchoByte})
         /\ Append(echo, EchoByte) # << >>
         /\ Len(Append(echo, EchoByte)) = Len(echo) + 1
<1>1. echo \in Seq({EchoByte})
  BY DEF Types
<1>2. Len(echo) \in Nat /\ Len(echo) <= 2
  BY <1>1, LenProperties DEF Types
<1>3. ASSUME echo # << >>
      PROVE  Head(echo) \in {EchoByte} /\ Tail(echo) \in Seq({EchoByte})
             /\ Len(echo) \in Nat \ {0} /\ Len(Tail(echo)) = Len(echo) - 1
  BY <1>1, <1>3, HeadTailProperties, EmptySeq
<1>4. EchoByte \in {EchoByte}
  OBVIOUS
<1>5. Append(echo, EchoByte) \in Seq({EchoByte}) /\ Append(echo, EchoByte) # << >>
      /\ Len(Append(echo, EchoByte)) = Len(echo) + 1
  BY <1>1, <1>4, AppendProperties
<1>6. Len(echo) \in 0 .. 2
  <2>1. \A n \in Nat : n <= 2 => n \in 0 .. 2
    OBVIOUS
  <2>2. QED
    BY <1>2, <2>1, Zenon
<1>7. ASSUME echo # << >> PROVE Len(echo) >= 1
  BY <1>3, <1>7
<1>8. ASSUME echo # << >> PROVE Head(echo) = EchoByte
  BY <1>3, <1>8
<1>9. QED
  BY <1>3, <1>5, <1>6, <1>7, <1>8, Zenon

-----------------------------------------------------------------------------
(***************************************************************************)
(* The types.                                                              *)
(***************************************************************************)
\* A byte that comes disturbs no type.
LEMMA ByteReceivedTypes ==
  ASSUME Types, NEW b \in TaggedByte, NEW noisy \in BOOLEAN, ByteReceived(b, noisy)
  PROVE  /\ rdr' \in TaggedByte /\ {rxne', error', timing'} \subseteq BOOLEAN
         /\ UNCHANGED <<busState, busAddress, busBuffer, busTxPos, calling>>
         /\ UNCHANGED <<rtof, unheard, echoing, frame, delivered>>
<1>1. UNCHANGED <<busState, busAddress, busBuffer, busTxPos, calling>>
      /\ UNCHANGED <<rtof, unheard, echoing, frame, delivered>>
  BY DEF ByteReceived, driver
<1>2. rdr' \in TaggedByte
  BY DEF ByteReceived, Types
<1>3. rxne \in BOOLEAN /\ error \in BOOLEAN
  BY DEF Types, Rs485TypeOK
<1>4. rxne' \in BOOLEAN /\ error' \in BOOLEAN /\ timing' \in BOOLEAN
  BY <1>3, Zenon DEF ByteReceived
<1>5. QED
  BY <1>1, <1>2, <1>4, Zenon

\* What BusCallback returns fits the buffer.
LEMMA ReplyTypes ==
  ASSUME Types, NEW n \in ReplyLengths, CallbackReturns(n)
  PROVE  /\ busBuffer' \in Seq(TaggedByte) /\ Len(busBuffer') = n
         /\ n \in 0 .. MAX_PACKET_LENGTH /\ MAX_PACKET_LENGTH \in Nat
         /\ n > 0 => n >= 4
         /\ \A i \in 1 .. Len(busBuffer') : busBuffer'[i] = EchoByte
<1>1. n \in 0 .. MAX_PACKET_LENGTH /\ (n > 0 => n >= 4) /\ MAX_PACKET_LENGTH \in Nat
  BY Rs485Assumption
<1>2. n \in Nat /\ EchoByte \in TaggedByte
  BY <1>1 DEF EchoByte, TaggedByte
<1>3. busBuffer' \in [1 .. n -> TaggedByte]
  BY <1>2 DEF CallbackReturns
<1>4. busBuffer' \in Seq(TaggedByte)
  BY <1>2, <1>3, SeqDef
<1>5. Len(busBuffer') = n
  BY <1>2, <1>3, <1>4, LenProperties
<1>6. \A i \in 1 .. Len(busBuffer') : busBuffer'[i] = EchoByte
  BY <1>5 DEF CallbackReturns
<1>7. QED
  BY <1>1, <1>4, <1>5, <1>6

\* What the sending half of BusUpdate does.
LEMMA TransmitEffect ==
  ASSUME Types, UpdateTransmit
  PROVE  /\ ~ calling /\ busState = "Write" /\ busState' \in {"Idle", "Write"}
         /\ busTxPos \in Nat /\ busTxPos' = busTxPos + 1 /\ busTxPos < Len(busBuffer)
         /\ busState' = "Idle" => busTxPos' >= 4
         /\ busState' = "Write" => busTxPos' < Len(busBuffer)
         /\ busTxPos' \in 0 .. MAX_PACKET_LENGTH
         /\ Len(echo) < 2
         /\ echo' = IF echoing THEN Append(echo, EchoByte) ELSE echo
         /\ UNCHANGED <<busAddress, busBuffer, calling, rdr, rxne, rtof, error, timing, line>>
         /\ UNCHANGED <<unheard, echoing, frame, whole, delivered>>
<1> USE DEF driver, usart, history, others
<1>1. busBuffer \in Seq(TaggedByte)
  BY DEF Types
<1>2. Len(busBuffer) \in Nat
  BY <1>1, LenProperties
<1>3. /\ ~ calling /\ busState = "Write" /\ Len(echo) < 2
      /\ busTxPos' = busTxPos + 1
      /\ busState' = IF busTxPos' >= Len(busBuffer) THEN "Idle" ELSE "Write"
      /\ echo' = IF echoing THEN Append(echo, busBuffer[busTxPos']) ELSE echo
      /\ UNCHANGED <<busAddress, busBuffer, calling, rdr, rxne, rtof, error, timing, line>>
      /\ UNCHANGED <<unheard, echoing, frame, whole, delivered>>
  BY DEF UpdateTransmit
<1>4. busTxPos \in Nat /\ busTxPos < Len(busBuffer) /\ Len(busBuffer) <= MAX_PACKET_LENGTH
      /\ Len(busBuffer) >= 4 /\ \A i \in 1 .. Len(busBuffer) : busBuffer[i] = EchoByte
  BY <1>3 DEF Types, Rs485TypeOK
<1>5. MAX_PACKET_LENGTH \in Nat
  BY Rs485Assumption
<1>6. busTxPos' \in 0 .. MAX_PACKET_LENGTH /\ busTxPos' \in 1 .. Len(busBuffer)
      /\ (busState' = "Write" => busTxPos' < Len(busBuffer))
      /\ (busState' = "Idle" => busTxPos' >= 4)
  BY <1>2, <1>3, <1>4, <1>5
<1>7. busBuffer[busTxPos'] = EchoByte
  BY <1>4, <1>6
<1>8. busState' \in {"Idle", "Write"}
  BY <1>3
<1>9. QED
  BY <1>3, <1>4, <1>6, <1>7, <1>8, Zenon

\* No step disturbs the types.
LEMMA StepTypes == Types /\ [Next]_rs485Vars => Types'
<1> SUFFICES ASSUME Types, [Next]_rs485Vars PROVE Types'
  OBVIOUS
<1> USE DEF driver, usart, history, others
<1>1. MAX_PACKET_LENGTH \in Nat /\ Len(<< >>) = 0 /\ << >> \in Seq(TaggedByte)
  BY Rs485Assumption, EmptySeq
<1>2. CASE UpdateReceive
  <2>1. busBuffer' \in Seq(TaggedByte) /\ Len(busBuffer') <= MAX_PACKET_LENGTH
    <3>1. busBuffer' = BufferNow \/ busBuffer' = << >>
      BY <1>2 DEF UpdateReceive
    <3>2. Len(<< >>) <= MAX_PACKET_LENGTH
      BY <1>1
    <3>3. QED
      BY <1>1, <3>1, <3>2, ReadTypes, Zenon
  <2>2. busAddress' \in TaggedByte
    BY <1>2, ReadTypes DEF UpdateReceive
  <2>3. busState' \in {"Idle", "Read"} /\ (calling' => busState' = "Read")
    BY <1>2 DEF UpdateReceive, Receiving, FrameEnds, Types, Rs485TypeOK
  <2>4. {rxne, rtof, error, timing, echoing, whole, delivered}' \subseteq BOOLEAN
    BY <1>2 DEF UpdateReceive, ClearFlags, Types, Rs485TypeOK
  <2>5. UNCHANGED <<busTxPos, rdr, line, unheard, echo, frame>>
    BY <1>2 DEF UpdateReceive
  <2>6. QED
    BY <2>1, <2>2, <2>3, <2>4, <2>5 DEF Types, Rs485TypeOK
<1>3. ASSUME NEW n \in ReplyLengths, CallbackReturns(n) PROVE Types'
  <2>1. \/ n > 0 /\ busState' = "Write" /\ busTxPos' = 0
        \/ busState' = "Idle" /\ busTxPos' = busTxPos
    BY <1>3 DEF CallbackReturns
  <2>2. busBuffer' \in Seq(TaggedByte) /\ Len(busBuffer') <= MAX_PACKET_LENGTH
    <3>1. n <= MAX_PACKET_LENGTH
      BY <1>3, ReplyTypes
    <3>2. QED
      BY <1>3, <3>1, ReplyTypes, Zenon
  <2>3. busTxPos' \in 0 .. MAX_PACKET_LENGTH
    BY <2>1, <1>1 DEF Types, Rs485TypeOK
  <2>4. ASSUME busState' = "Write" PROVE n >= 4 /\ busTxPos' < n
    BY <2>1, <2>4, <1>3, ReplyTypes
  <2>5. ASSUME busState' = "Write"
        PROVE  /\ busTxPos' < Len(busBuffer') /\ Len(busBuffer') >= 4
               /\ \A i \in 1 .. Len(busBuffer') : busBuffer'[i] = EchoByte
    BY <1>3, <2>4, <2>5, ReplyTypes, Zenon
  <2>6. busState' \in {"Idle", "Write"} /\ calling' = FALSE
        /\ UNCHANGED <<busAddress, rdr, rxne, rtof, error, timing, line, unheard>>
        /\ UNCHANGED <<echo, echoing, frame, whole, delivered>>
    BY <1>3 DEF CallbackReturns
  <2>7. QED
    BY <2>2, <2>3, <2>5, <2>6 DEF Types, Rs485TypeOK
<1>4. CASE UpdateTransmit
  <2>1. echo' \in Seq({EchoByte}) /\ Len(echo') <= 2
    <3>1. Len(echo) < 2 /\ Len(echo) \in 0 .. 2
      BY <1>4, EchoSeq, Zenon DEF UpdateTransmit
    <3>2. Len(echo) + 1 <= 2
      BY <3>1
    <3>3. echo' = echo \/ echo' = Append(echo, EchoByte)
      BY <1>4, TransmitEffect, Zenon
    <3>4. QED
      BY <3>2, <3>3, EchoSeq, Zenon DEF Types
  <2>2. QED
    BY <1>4, <2>1, TransmitEffect DEF Types, Rs485TypeOK
<1>5. CASE FrameStarts
  <2>1. PICK f \in Frames : line' = Tagged(f, OtherOrigin)
    BY <1>5 DEF FrameStarts
  <2>2. OtherOrigin \in 0 .. 2
    BY DEF OtherOrigin
  <2>3. line' \in Seq(TaggedByte) /\ line' # << >>
    BY <2>1, <2>2, TaggedFrame, Zenon
  <2>4. unheard' \in 0 .. MaxUnheard
    BY <1>5, Rs485Assumption DEF FrameStarts, Types, Rs485TypeOK
  <2>5. whole' \in BOOLEAN /\ delivered' \in BOOLEAN
    BY <1>5 DEF FrameStarts, Ready
  <2>6. frame' = line' /\ UNCHANGED <<busState, busAddress, busBuffer, busTxPos, calling>>
        /\ UNCHANGED <<rdr, rxne, rtof, error, timing, echo, echoing>>
    BY <1>5 DEF FrameStarts
  <2>7. QED
    BY <2>3, <2>4, <2>5, <2>6 DEF Types, Rs485TypeOK
<1>6. CASE ByteArrives
  <2>1. PICK noisy \in BOOLEAN : ByteReceived(Head(line), noisy) /\ whole' = (whole /\ ~ noisy)
    BY <1>6 DEF ByteArrives
  <2>2. line # << >> /\ line' = Tail(line) /\ echo' = echo
    BY <1>6 DEF ByteArrives
  <2>3. line' \in Seq(TaggedByte) /\ Head(line) \in TaggedByte
    BY <2>2, LineTail, Zenon
  <2>4. /\ rdr' \in TaggedByte /\ {rxne', error', timing'} \subseteq BOOLEAN
        /\ UNCHANGED <<busState, busAddress, busBuffer, busTxPos, calling>>
        /\ UNCHANGED <<rtof, unheard, echoing, frame, delivered>>
    BY <2>1, <2>3, ByteReceivedTypes, Zenon
  <2>5. whole' \in BOOLEAN
    BY <2>1 DEF Types, Rs485TypeOK
  <2>6. QED
    BY <2>2, <2>3, <2>4, <2>5 DEF Types, Rs485TypeOK
<1>7. CASE ByteMissed
  <2>1. line # << >> /\ line' = Tail(line) /\ whole' = FALSE
        /\ UNCHANGED <<busState, busAddress, busBuffer, busTxPos, calling>>
        /\ UNCHANGED <<rdr, rxne, rtof, error, timing, unheard, echo, echoing, frame, delivered>>
    BY <1>7 DEF ByteMissed
  <2>2. line' \in Seq(TaggedByte)
    BY <2>1, LineTail, Zenon
  <2>3. QED
    BY <2>1, <2>2 DEF Types, Rs485TypeOK
<1>8. CASE EchoArrives
  <2>1. echo # << >> /\ ByteReceived(EchoByte, FALSE) /\ UNCHANGED <<line, whole>>
        /\ echo' \in Seq({EchoByte}) /\ Len(echo') = Len(echo) - 1 /\ Len(echo) \in 0 .. 2
    BY <1>8, EchoSeq, Zenon DEF EchoArrives
  <2>2. EchoByte \in TaggedByte
    BY DEF EchoByte, TaggedByte
  <2>3. /\ rdr' \in TaggedByte /\ {rxne', error', timing'} \subseteq BOOLEAN
        /\ UNCHANGED <<busState, busAddress, busBuffer, busTxPos, calling>>
        /\ UNCHANGED <<rtof, unheard, echoing, frame, delivered>>
    BY <2>1, <2>2, ByteReceivedTypes, Zenon
  <2>4. Len(echo') <= 2
    BY <2>1
  <2>5. QED
    BY <2>1, <2>3, <2>4 DEF Types, Rs485TypeOK
<1>9. CASE TimeoutExpires
  BY <1>9 DEF TimeoutExpires, Types, Rs485TypeOK
<1>10. CASE UNCHANGED rs485Vars
  BY <1>10 DEF rs485Vars, Types, Rs485TypeOK
<1>11. QED
  BY <1>2, <1>3, <1>4, <1>5, <1>6, <1>7, <1>8, <1>9, <1>10 DEF Next, Update, Hardware

\* The initial state has the types.
LEMMA InitTypes == Init => Types
<1> SUFFICES ASSUME Init PROVE Types
  OBVIOUS
<1>1. MAX_PACKET_LENGTH \in Nat /\ MaxUnheard \in Nat
  BY Rs485Assumption
<1>2. EchoByte \in TaggedByte
  BY DEF EchoByte, TaggedByte
<1>3. << >> \in Seq(TaggedByte) /\ << >> \in Seq({EchoByte}) /\ Len(<< >>) = 0
  BY EmptySeq
<1>4. Len(<< >>) <= 2 /\ Len(<< >>) <= MAX_PACKET_LENGTH /\ 0 \in 0 .. MAX_PACKET_LENGTH
      /\ 0 \in 0 .. MaxUnheard
  BY <1>1, <1>3
<1>5. <<EchoByte>> \in Seq(TaggedByte) /\ <<EchoByte>> # << >>
  BY <1>2
<1>6. QED
  BY <1>2, <1>3, <1>4, <1>5 DEF Init, Types, Rs485TypeOK

-----------------------------------------------------------------------------
(***************************************************************************)
(* The flags, and what the driver misses.                                  *)
(***************************************************************************)
\* What the receiving half of BusUpdate does to the flags and the state.
LEMMA ReceiveEffect ==
  ASSUME Types, UpdateReceive
  PROVE  /\ Listening /\ (rxne \/ (rtof /\ busState = "Read"))
         /\ rxne' = FALSE /\ busState' \in {"Idle", "Read"}
         /\ \/ /\ rtof /\ ~ rtof' /\ ~ error' /\ (calling' <=> Accepted)
               /\ busState' = IF Accepted THEN "Read" ELSE "Idle"
               /\ delivered' <=> delivered \/ Accepted
            \/ /\ rxne /\ ~ rtof /\ ~ rtof' /\ error' = error /\ busState' = "Read"
               /\ busBuffer' = BufferNow /\ ~ calling' /\ delivered' = delivered
         /\ busAddress' = AddressNow
         /\ UNCHANGED <<busTxPos, rdr, timing, line, unheard, echo, echoing, frame, whole>>
<1>1. ~ calling /\ busState # "Write" /\ (rxne \/ (rtof /\ busState = "Read"))
      /\ (Receiving <=> rxne)
  BY DEF UpdateReceive, Receiving, FrameEnds
<1>2. rxne' = FALSE
  BY <1>1 DEF UpdateReceive, Types, Rs485TypeOK
<1>3. CASE FrameEnds
  BY <1>1, <1>2, <1>3 DEF UpdateReceive, ClearFlags, FrameEnds, Listening, others
<1>4. CASE ~ FrameEnds
  BY <1>1, <1>2, <1>4 DEF UpdateReceive, FrameEnds, Listening, others
<1>5. QED
  BY <1>3, <1>4

\* BusCallback is called for a frame that was being read, never for its first byte.
LEMMA AcceptedInFrame ==
  ASSUME Types, UpdateReceive, Accepted
  PROVE  InFrame
<1>1. BufferNow # << >>
  BY DEF Accepted
<1>2. Listening /\ (rxne \/ busState = "Read")
  BY ReceiveEffect
<1>3. busState # "Idle"
  BY <1>1, <1>2 DEF BufferNow, Receiving, Listening
<1>4. QED
  BY <1>2, <1>3 DEF Listening, InFrame, Types, Rs485TypeOK

\* While BusUpdate does not look at the flags, FrameStarts and TimeoutExpires do
\* not wait for it;  otherwise nothing is left to look at.
LEMMA NothingLeft ==
  ASSUME Types, KeepsUp, Listening
  PROVE  ~ rxne /\ ~ (rtof /\ InFrame)
BY DEF KeepsUp, Listening, FrameEnds, Receiving, InFrame

\* A frame begins when the one before is no longer being read;  what is left of that,
\* while the driver does not listen, comes with its timeout.
LEMMA StartsFresh ==
  ASSUME Types, Flags, FrameStarts
  PROVE  /\ ~ InFrame /\ (Listening => ~ rxne)
         /\ rxne => rtof
         /\ Listening \/ ~ echoing
<1>1. KeepsUp /\ ~ timing /\ (Listening \/ ~ echoing)
  BY DEF FrameStarts, Listening
<1>2. Listening => ~ rxne /\ ~ InFrame
  BY <1>1, NothingLeft DEF Flags
<1>3. ~ Listening => ~ InFrame
  BY DEF Listening, InFrame
<1>4. rxne => rtof
  BY <1>1 DEF Flags
<1>5. QED
  BY <1>1, <1>2, <1>3, <1>4

\* No step disturbs what the flags tell.
LEMMA StepFlags ==
  ASSUME Types, Flags, Echoes, Deaf, [Next]_rs485Vars
  PROVE  Flags'
<1> USE DEF driver, usart, history, others
<1>1. CASE UpdateReceive
  BY <1>1, ReceiveEffect DEF Flags, InFrame, Listening
<1>2. ASSUME NEW n \in ReplyLengths, CallbackReturns(n) PROVE Flags'
  BY <1>2 DEF CallbackReturns, Flags, InFrame, Types, Rs485TypeOK
<1>3. CASE UpdateTransmit
  BY <1>3 DEF UpdateTransmit, Flags, InFrame, Echoes, Deaf, Listening
<1>4. CASE FrameStarts
  BY <1>4, StartsFresh DEF FrameStarts, Flags, InFrame
<1>5. CASE ByteArrives
  <2>1. PICK noisy \in BOOLEAN : ByteReceived(Head(line), noisy)
    BY <1>5 DEF ByteArrives
  <2>2. line # << >> /\ echo' = echo
    BY <1>5 DEF ByteArrives
  <2>3. UNCHANGED <<busState, calling, rtof>> /\ timing' = TRUE
    BY <2>1 DEF ByteReceived
  <2>4. QED
    BY <2>2, <2>3 DEF Flags, InFrame
<1>6. CASE ByteMissed
  BY <1>6 DEF ByteMissed, Flags, InFrame
<1>7. CASE EchoArrives
  BY <1>7 DEF EchoArrives, ByteReceived, Flags, InFrame
<1>8. CASE TimeoutExpires
  BY <1>8 DEF TimeoutExpires, Flags, InFrame
<1>9. CASE UNCHANGED rs485Vars
  BY <1>9 DEF rs485Vars, Flags, InFrame
<1>10. QED
  BY <1>1, <1>2, <1>3, <1>4, <1>5, <1>6, <1>7, <1>8, <1>9 DEF Next, Update, Hardware

\* Of a reply that it hears, the driver has missed bytes when the last one is
\* handed to the USART.
LEMMA TransmitEnds ==
  ASSUME Types, Deaf, UpdateTransmit, busState' # "Write", echoing
  PROVE  error
<1>1. busTxPos \in Nat /\ busTxPos + 1 >= 4 /\ Len(echo) < 2 /\ Len(echo) \in 0 .. 2
  BY TransmitEffect, EchoSeq
<1>2. busTxPos - Len(echo) >= 2
  BY <1>1
<1>3. QED
  BY <1>2, TransmitEffect DEF Deaf

\* No step disturbs what is said of the own reply.
LEMMA StepEchoes ==
  ASSUME Types, Flags, Echoes, Deaf, [Next]_rs485Vars
  PROVE  Echoes'
<1> USE DEF driver, usart, history, others
<1>1. CASE UpdateReceive
  <2>1. echo' = echo /\ echoing' = echoing /\ line' = line /\ Listening
        /\ (~ rtof => ~ calling' /\ error' = error)
        /\ (rtof => echo = << >>)
    BY <1>1, ReceiveEffect DEF Flags
  <2>2. QED
    BY <2>1 DEF Echoes, Listening
<1>2. ASSUME NEW n \in ReplyLengths, CallbackReturns(n) PROVE Echoes'
  BY <1>2 DEF CallbackReturns, Echoes
<1>3. CASE UpdateTransmit
  <2>1. ~ calling /\ busState = "Write" /\ ~ calling' /\ error' = error
        /\ echoing' = echoing /\ line' = line /\ (~ echoing => echo' = echo)
    BY <1>3, TransmitEffect
  <2>2. line = << >> \/ ~ echoing
    BY <2>1 DEF Deaf, Listening
  <2>3. busState' # "Write" /\ echoing => error
    BY <1>3, TransmitEnds
  <2>4. QED
    BY <2>1, <2>2, <2>3 DEF Echoes, Listening
<1>4. CASE FrameStarts
  BY <1>4 DEF FrameStarts, Echoes
<1>5. CASE ByteArrives
  <2>1. PICK noisy \in BOOLEAN : ByteReceived(Head(line), noisy)
    BY <1>5 DEF ByteArrives
  <2>2. line # << >> /\ echo' = echo
    BY <1>5 DEF ByteArrives
  <2>3. QED
    BY <2>1, <2>2 DEF ByteReceived, Echoes
<1>6. CASE ByteMissed
  BY <1>6 DEF ByteMissed, Echoes
<1>7. CASE EchoArrives
  BY <1>7 DEF EchoArrives, ByteReceived, Echoes, Listening
<1>8. CASE TimeoutExpires
  BY <1>8 DEF TimeoutExpires, Echoes
<1>9. CASE UNCHANGED rs485Vars
  BY <1>9 DEF rs485Vars, Echoes, Listening
<1>10. QED
  BY <1>1, <1>2, <1>3, <1>4, <1>5, <1>6, <1>7, <1>8, <1>9 DEF Next, Update, Hardware


\* What the driver hears of its own reply.
OwnHeard ==
  /\ Len(echo) <= busTxPos
  /\ busTxPos - Len(echo) >= 1 => rxne
  /\ busTxPos - Len(echo) >= 2 => error

\* No step disturbs what is said of the time in which the driver does not listen.
LEMMA StepDeaf ==
  ASSUME Types, Flags, Echoes, Deaf, [Next]_rs485Vars
  PROVE  Deaf'
<1> USE DEF driver, usart, history, others
<1>1. CASE UpdateReceive
  <2>1. /\ Listening /\ busState' # "Write" /\ ~ rtof'
        /\ UNCHANGED <<timing, line, echoing>>
        /\ (calling' => rtof /\ Accepted)
    BY <1>1, ReceiveEffect
  <2>2. calling' => ~ timing /\ line = << >>
    <3>1. Accepted => InFrame
      BY <1>1, AcceptedInFrame
    <3>2. QED
      BY <2>1, <3>1 DEF Flags
  <2>3. QED
    BY <2>1, <2>2 DEF Deaf, Listening
<1>2. ASSUME NEW n \in ReplyLengths, CallbackReturns(n) PROVE Deaf'
  <2>1. calling /\ ~ calling' /\ (busState' = "Write" => busTxPos' = 0)
        /\ UNCHANGED <<echo, echoing, line, rtof, timing, rxne, error>>
    BY <1>2 DEF CallbackReturns
  <2>2. echo = << >> /\ Len(echo) = 0
    BY <2>1, EmptySeq DEF Echoes
  <2>3. busState' = "Write" => OwnHeard'
    BY <2>1, <2>2 DEF OwnHeard
  <2>4. QED
    BY <2>1, <2>3 DEF Deaf, Listening, OwnHeard
<1>3. CASE UpdateTransmit
  <2>1. ~ calling /\ busState = "Write" /\ ~ calling' /\ Len(echo) < 2
        /\ busTxPos' = busTxPos + 1 /\ busTxPos \in Nat
        /\ UNCHANGED <<echoing, line, rtof, timing, rxne, error>>
    BY <1>3, TransmitEffect
  <2>2. ASSUME echoing PROVE OwnHeard'
    <3>1. OwnHeard
      BY <2>1, <2>2 DEF Deaf, OwnHeard
    <3>2. Len(echo) \in 0 .. 2 /\ Len(echo') = Len(echo) + 1
      BY <1>3, <2>2, TransmitEffect, EchoSeq
    <3>3. QED
      BY <2>1, <3>1, <3>2 DEF OwnHeard
  <2>3. QED
    BY <2>1, <2>2 DEF Deaf, Listening, OwnHeard
<1>4. CASE FrameStarts
  <2>1. Listening' = Listening /\ echoing' = echoing
    BY <1>4 DEF FrameStarts, Listening
  <2>2. Listening' \/ ~ echoing'
    BY <1>4, <2>1, StartsFresh
  <2>3. QED
    BY <2>2 DEF Deaf, Listening
<1>5. CASE ByteArrives
  <2>1. Listening' = Listening /\ line # << >> /\ echoing' = echoing
    BY <1>5 DEF ByteArrives, ByteReceived, Listening
  <2>2. Listening' \/ ~ echoing'
    BY <2>1 DEF Deaf
  <2>3. QED
    BY <2>2 DEF Deaf, Listening
<1>6. CASE ByteMissed
  <2>1. Listening' = Listening /\ line # << >> /\ echoing' = echoing
    BY <1>6 DEF ByteMissed, Listening
  <2>2. Listening' \/ ~ echoing'
    BY <2>1 DEF Deaf
  <2>3. QED
    BY <2>2 DEF Deaf, Listening
<1>7. CASE EchoArrives
  <2>1. echo # << >> /\ rxne' = TRUE /\ (rxne => error')
        /\ UNCHANGED <<busState, calling, busTxPos, rtof, echoing, line>>
    BY <1>7 DEF EchoArrives, ByteReceived
  <2>2. echoing /\ line = << >> /\ ~ calling
    BY <2>1 DEF Echoes
  <2>3. ASSUME busState = "Write" PROVE OwnHeard'
    <3>1. OwnHeard
      BY <2>2, <2>3 DEF Deaf, OwnHeard
    <3>2. Len(echo) \in 0 .. 2 /\ Len(echo') = Len(echo) - 1 /\ busTxPos \in Nat
      BY <1>7, <2>1, EchoSeq DEF EchoArrives, Types, Rs485TypeOK
    <3>3. QED
      BY <2>1, <3>1, <3>2 DEF OwnHeard
  <2>4. QED
    BY <2>1, <2>2, <2>3 DEF Deaf, Listening, OwnHeard
<1>8. CASE TimeoutExpires
  BY <1>8 DEF TimeoutExpires, Deaf, Listening
<1>9. CASE UNCHANGED rs485Vars
  BY <1>9 DEF rs485Vars, Deaf, Listening
<1>10. QED
  BY <1>1, <1>2, <1>3, <1>4, <1>5, <1>6, <1>7, <1>8, <1>9 DEF Next, Update, Hardware

-----------------------------------------------------------------------------
(***************************************************************************)
(* The bytes of the frame.                                                 *)
(***************************************************************************)
\* The lengths the proofs compare.
LEMMA Lengths ==
  ASSUME Types
  PROVE  /\ MAX_PACKET_LENGTH \in Nat \ {0} /\ Len(busBuffer) \in 0 .. MAX_PACKET_LENGTH
         /\ Len(line) \in Nat /\ Len(frame) \in Nat \ {0} /\ Came \in Int
<1>1. busBuffer \in Seq(TaggedByte) /\ line \in Seq(TaggedByte) /\ frame \in Seq(TaggedByte)
      /\ frame # << >>
  BY DEF Types
<1>2. Len(busBuffer) \in Nat /\ Len(line) \in Nat /\ Len(frame) \in Nat \ {0}
  BY <1>1, LenProperties, EmptySeq
<1>3. MAX_PACKET_LENGTH \in Nat \ {0} /\ Len(busBuffer) <= MAX_PACKET_LENGTH
  BY Rs485Assumption DEF Types, Rs485TypeOK
<1>4. Came \in Int
  BY <1>2 DEF Came
<1>5. Len(busBuffer) \in 0 .. MAX_PACKET_LENGTH
  BY <1>2, <1>3
<1>6. QED
  BY <1>2, <1>3, <1>4, <1>5

\* The bytes on the line stay the end of the frame.
LEMMA StepRest ==
  ASSUME Types, Rest, [Next]_rs485Vars
  PROVE  Rest'
<1> USE DEF driver, usart, history, others
<1>1. CASE FrameStarts
  <2>1. line' = frame' /\ frame' \in Seq(TaggedByte)
    <3>1. PICK f \in Frames : line' = Tagged(f, OtherOrigin) /\ frame' = line'
      BY <1>1 DEF FrameStarts
    <3>2. OtherOrigin \in 0 .. 2
      BY DEF OtherOrigin
    <3>3. QED
      BY <3>1, <3>2, TaggedFrame, Zenon
  <2>2. Len(frame') \in Nat
    BY <2>1, LenProperties
  <2>3. Len(line') <= Len(frame') /\ Len(frame') - Len(line') = 0
    BY <2>1, <2>2
  <2>4. Came' = 0
    BY <2>3 DEF Came
  <2>5. \A i \in 1 .. Len(line') : line'[i] = frame'[0 + i]
    BY <2>1
  <2>6. QED
    BY <2>3, <2>4, <2>5, Zenon DEF Rest
<1>2. CASE ByteArrives \/ ByteMissed
  <2>1. line # << >> /\ line' = Tail(line) /\ frame' = frame
    BY <1>2 DEF ByteArrives, ByteMissed, ByteReceived
  <2>2. Len(line) \in Nat \ {0} /\ Len(line') = Len(line) - 1
        /\ \A i \in 1 .. Len(line') : line'[i] = line[i + 1]
    BY <2>1, LineTail, Zenon
  <2>3. Len(frame) \in Nat /\ Len(line) <= Len(frame)
    BY Lengths DEF Rest
  <2>4. Came' = Came + 1 /\ Came \in Int /\ Len(line') <= Len(frame')
    BY <2>1, <2>2, <2>3 DEF Came
  <2>5. ASSUME NEW i \in 1 .. Len(line') PROVE line'[i] = frame'[Came' + i]
    <3>1. i + 1 \in 1 .. Len(line) /\ Came + (i + 1) = Came' + i
      BY <2>2, <2>4
    <3>2. line[i + 1] = frame[Came + (i + 1)]
      BY <3>1 DEF Rest
    <3>3. QED
      BY <2>1, <2>2, <3>1, <3>2
  <2>6. QED
    BY <2>4, <2>5 DEF Rest
<1>3. CASE UNCHANGED <<line, frame>>
  BY <1>3 DEF Rest, Came
<1>4. QED
  <2>1. \/ FrameStarts \/ ByteArrives \/ ByteMissed
        \/ UNCHANGED <<line, frame>>
    BY DEF Next, Update, Hardware, UpdateReceive, UpdateTransmit, CallbackReturns, EchoArrives,
           ByteReceived, TimeoutExpires, rs485Vars
  <2>2. QED
    BY <2>1, <1>1, <1>2, <1>3

\* What the driver has after a byte was read is of the current frame.
LEMMA ReadOrigins ==
  ASSUME Types, Origins, Listening, ~ error, rxne \/ busState = "Read", InFrame \/ ~ rtof
  PROVE  /\ AddressNow.origin = Origin
         /\ \A i \in 1 .. Len(BufferNow) : BufferNow[i].origin = Origin
<1>1. busState \in {"Idle", "Read"} /\ ~ calling
  BY DEF Listening, Types, Rs485TypeOK
<1>2. rxne => rdr.origin = Origin
  BY DEF Origins
<1>3. ASSUME busState = "Read"
      PROVE  busAddress.origin = Origin /\ \A i \in 1 .. Len(busBuffer) : busBuffer[i].origin = Origin
  BY <1>1, <1>3 DEF Origins, InFrame
<1>4. CASE rxne /\ busState = "Idle"
  <2>1. AddressNow = rdr /\ BufferNow = << >>
    BY <1>4 DEF AddressNow, BufferNow, Receiving
  <2>2. Len(BufferNow) = 0
    BY <2>1, EmptySeq
  <2>3. QED
    BY <1>2, <1>4, <2>1, <2>2
<1>5. CASE busState = "Read" /\ BufferNow = busBuffer
  BY <1>3, <1>5 DEF AddressNow
<1>6. CASE busState = "Read" /\ rxne /\ BufferNow = Append(busBuffer, rdr)
  <2>1. busBuffer \in Seq(TaggedByte) /\ rdr \in TaggedByte
    BY DEF Types
  <2>2. /\ Len(BufferNow) = Len(busBuffer) + 1
        /\ \A i \in 1 .. Len(busBuffer) : BufferNow[i] = busBuffer[i]
        /\ BufferNow[Len(busBuffer) + 1] = rdr
    BY <1>6, <2>1, AppendProperties
  <2>3. ASSUME NEW i \in 1 .. Len(BufferNow) PROVE BufferNow[i].origin = Origin
    <3>1. i \in 1 .. Len(busBuffer) \/ i = Len(busBuffer) + 1
      BY <2>2, Lengths
    <3>2. QED
      BY <3>1, <2>2, <1>2, <1>3, <1>6
  <2>4. QED
    BY <2>3, <1>3, <1>6 DEF AddressNow
<1>7. QED
  BY <1>1, <1>4, <1>5, <1>6 DEF BufferNow, Receiving

\* No byte of another frame, and no echo, comes between those of the frame.
LEMMA StepOrigins ==
  ASSUME Types, Flags, Deaf, Echoes, Origins, Rest, [Next]_rs485Vars
  PROVE  Origins'
<1> USE DEF driver, usart, history, others
<1>1. CASE UpdateReceive
  <2>1. Listening /\ (rxne \/ busState = "Read") /\ ~ rxne' /\ frame' = frame
        /\ \/ ~ InFrame'
           \/ ~ rtof /\ error' = error /\ busBuffer' = BufferNow /\ busAddress' = AddressNow
    BY <1>1, ReceiveEffect DEF InFrame
  <2>2. ASSUME ~ error' , InFrame'
        PROVE  /\ busAddress'.origin = Origin
               /\ \A i \in 1 .. Len(busBuffer') : busBuffer'[i].origin = Origin
    BY <2>1, <2>2, ReadOrigins
  <2>3. QED
    BY <2>1, <2>2 DEF Origins, Origin
<1>2. ASSUME NEW n \in ReplyLengths, CallbackReturns(n) PROVE Origins'
  <2>1. calling /\ ~ InFrame' /\ UNCHANGED <<frame, rxne, rdr, rtof, error, echoing>>
    BY <1>2 DEF CallbackReturns, InFrame
  <2>2. rxne => ~ echoing
    BY <2>1 DEF Deaf, Listening, Flags
  <2>3. QED
    BY <2>1, <2>2 DEF Origins, Origin
<1>3. CASE UpdateTransmit
  <2>1. busState = "Write" /\ ~ calling /\ ~ InFrame' /\ UNCHANGED <<frame, rxne, rdr, rtof, error, echoing, calling>>
    BY <1>3, TransmitEffect DEF InFrame
  <2>2. busState' # "Write" /\ echoing => error
    BY <1>3, TransmitEnds
  <2>3. QED
    BY <2>1, <2>2 DEF Origins, Origin, Listening
<1>4. CASE FrameStarts
  <2>1. PICK f \in Frames : line' = Tagged(f, OtherOrigin) /\ frame' = line'
    BY <1>4 DEF FrameStarts
  <2>2. OtherOrigin \in 0 .. 2
    BY DEF OtherOrigin
  <2>3. /\ frame' \in Seq(TaggedByte) /\ frame' # << >>
        /\ \A i \in 1 .. Len(frame') : frame'[i].origin = OtherOrigin
    BY <2>1, <2>2, TaggedFrame, Zenon
  <2>4. 1 \in 1 .. Len(frame')
    <3>1. Len(frame') \in Nat \ {0}
      BY <2>3, EmptySeq
    <3>2. QED
      BY <3>1
  <2>5. (rxne' => rtof') /\ ~ InFrame'
    BY <1>4, StartsFresh DEF FrameStarts, InFrame
  <2>6. QED
    BY <2>3, <2>4, <2>5 DEF Origins, Origin
<1>5. CASE ByteArrives
  <2>1. PICK noisy \in BOOLEAN : ByteReceived(Head(line), noisy)
    BY <1>5 DEF ByteArrives
  <2>2. line # << >>
    BY <1>5 DEF ByteArrives
  <2>3. Head(line).origin = Origin
    <3>1. Head(line) = line[1] /\ 1 \in 1 .. Len(line) /\ Len(line) \in Nat
      BY <2>2, LineTail
    <3>2. Head(line) = frame[Came + 1]
      BY <3>1 DEF Rest
    <3>3. Came + 1 \in 1 .. Len(frame)
      BY <3>1, Lengths DEF Came, Rest
    <3>4. QED
      BY <3>2, <3>3 DEF Origins
  <2>4. /\ rdr' = IF rxne THEN rdr ELSE Head(line)
        /\ error' = (error \/ rxne \/ noisy)
        /\ UNCHANGED <<frame, busAddress, busBuffer, busState, calling>>
    BY <2>1 DEF ByteReceived
  <2>5. QED
    BY <2>3, <2>4 DEF Origins, Origin, InFrame
<1>6. CASE ByteMissed
  BY <1>6 DEF ByteMissed, Origins, Origin, InFrame, Listening
<1>7. CASE EchoArrives
  <2>1. echo # << >> /\ (error => error')
        /\ UNCHANGED <<frame, busAddress, busBuffer, busState, calling, echoing>>
    BY <1>7 DEF EchoArrives, ByteReceived
  <2>2. echoing /\ (Listening => error)
    BY <2>1 DEF Echoes
  <2>3. QED
    BY <2>1, <2>2 DEF Origins, Origin, InFrame, Listening
<1>8. CASE TimeoutExpires
  BY <1>8 DEF TimeoutExpires, Origins, Origin, InFrame, Listening
<1>9. CASE UNCHANGED rs485Vars
  BY <1>9 DEF rs485Vars, Origins, Origin, InFrame, Listening
<1>10. QED
  BY <1>1, <1>2, <1>3, <1>4, <1>5, <1>6, <1>7, <1>8, <1>9 DEF Next, Update, Hardware

-----------------------------------------------------------------------------
(***************************************************************************)
(* A frame that found the driver ready.                                    *)
(***************************************************************************)
\* The driver has the address and as much of the rest of the first k bytes of the
\* frame as fits.
Has(address, buffer, k) ==
  /\ address = frame[1]
  /\ Len(buffer) = IF k - 1 <= MAX_PACKET_LENGTH THEN k - 1 ELSE MAX_PACKET_LENGTH
  /\ \A i \in 1 .. Len(buffer) : buffer[i] = frame[i + 1]

\* A driver in step stays so when it reads a byte.
LEMMA ReadInStep ==
  ASSUME Types, Rest, InStep, Listening, rxne \/ busState = "Read"
  PROVE  Came >= 1 /\ Has(AddressNow, BufferNow, Came)
<1>1. MAX_PACKET_LENGTH \in Nat \ {0} /\ Len(busBuffer) \in 0 .. MAX_PACKET_LENGTH /\ Came \in Int
  BY Lengths
<1>2. busBuffer \in Seq(TaggedByte) /\ rdr \in TaggedByte
  BY DEF Types
<1>3. CASE ~ rxne
  <2>1. Taken = Came /\ busState = "Read"
    BY <1>1, <1>3 DEF Taken
  <2>2. Taken # 0 /\ Came >= 0
    BY <2>1, Lengths DEF InStep, Rest, Came
  <2>3. Taken > 0 /\ Came >= 1
    BY <2>1, <2>2, <1>1
  <2>4. AddressNow = busAddress /\ BufferNow = busBuffer
    BY <1>3 DEF AddressNow, BufferNow, Receiving
  <2>5. QED
    BY <2>1, <2>3, <2>4 DEF InStep, Has
<1>4. CASE rxne
  <2>1. Taken = Came - 1 /\ Came >= 1 /\ rdr = frame[Came] /\ Receiving
    BY <1>1, <1>4 DEF Taken, InStep, Listening, Receiving
  <2>2. CASE Taken = 0
    <3>1. AddressNow = rdr /\ BufferNow = << >> /\ Came = 1
      BY <2>1, <2>2, <1>1 DEF InStep, AddressNow, BufferNow
    <3>2. Len(BufferNow) = 0
      BY <3>1, EmptySeq
    <3>3. Came - 1 = 0 /\ 0 <= MAX_PACKET_LENGTH /\ Came >= 1
      BY <3>1, <1>1
    <3>4. \A i \in 1 .. 0 : BufferNow[i] = frame[i + 1]
      OBVIOUS
    <3>5. QED
      BY <3>1, <3>2, <3>3, <3>4, <2>1 DEF Has
  <2>3. CASE Taken # 0
    <3>1. /\ AddressNow = busAddress /\ busAddress = frame[1] /\ busState = "Read"
          /\ Len(busBuffer) = IF Taken - 1 <= MAX_PACKET_LENGTH THEN Taken - 1 ELSE MAX_PACKET_LENGTH
          /\ \A i \in 1 .. Len(busBuffer) : busBuffer[i] = frame[i + 1]
      BY <2>1, <2>3, <1>1 DEF InStep, AddressNow
    <3>2. CASE Len(busBuffer) < MAX_PACKET_LENGTH
      <4>1. Len(busBuffer) = Came - 2
        BY <3>1, <3>2, <2>1, <1>1
      <4>2. /\ Len(BufferNow) = Len(busBuffer) + 1
            /\ \A i \in 1 .. Len(busBuffer) : BufferNow[i] = busBuffer[i]
            /\ BufferNow[Len(busBuffer) + 1] = rdr
        <5>1. BufferNow = Append(busBuffer, rdr)
          BY <3>1, <3>2, <2>1 DEF BufferNow
        <5>2. QED
          BY <5>1, <1>2, AppendProperties
      <4>3. Len(BufferNow) = Came - 1 /\ Came - 1 <= MAX_PACKET_LENGTH
        BY <4>1, <4>2, <3>2, <1>1
      <4>4. ASSUME NEW i \in 1 .. Len(BufferNow) PROVE BufferNow[i] = frame[i + 1]
        <5>1. CASE i \in 1 .. Len(busBuffer)
          BY <5>1, <4>2, <3>1
        <5>2. CASE i = Len(busBuffer) + 1
          <6>1. i + 1 = Came
            BY <5>2, <4>1, <1>1
          <6>2. QED
            BY <5>2, <6>1, <4>2, <2>1
        <5>3. i \in 1 .. Len(busBuffer) \/ i = Len(busBuffer) + 1
          BY <4>2, <1>1
        <5>4. QED
          BY <5>1, <5>2, <5>3
      <4>5. QED
        BY <4>3, <4>4, <3>1, <2>1 DEF Has
    <3>3. CASE ~ (Len(busBuffer) < MAX_PACKET_LENGTH)
      <4>1. BufferNow = busBuffer
        BY <3>1, <3>3, <2>1 DEF BufferNow
      <4>2. Len(busBuffer) = MAX_PACKET_LENGTH /\ ~ (Came - 1 <= MAX_PACKET_LENGTH)
        BY <3>1, <3>3, <2>1, <1>1
      <4>3. QED
        BY <4>1, <4>2, <3>1, <2>1 DEF Has
    <3>4. QED
      BY <3>2, <3>3
  <2>4. QED
    BY <2>2, <2>3
<1>5. QED
  BY <1>3, <1>4

\* A byte that comes is the next one of the frame.
LEMMA ByteInStep ==
  ASSUME Types, Rest, InStep, ~ rxne, line # << >>, ByteReceived(Head(line), FALSE),
         line' = Tail(line)
  PROVE  InStep'
<1>1. /\ rdr' = Head(line) /\ rxne' = TRUE
      /\ UNCHANGED <<busState, busAddress, busBuffer, frame>>
  BY DEF ByteReceived, driver
<1>2. Head(line) = line[1] /\ Len(line) \in Nat \ {0} /\ Len(line') = Len(line) - 1
  BY LineTail
<1>3. Came \in Int /\ Came >= 0 /\ Came' = Came + 1
  BY <1>1, <1>2, Lengths DEF Came, Rest
<1>4. Head(line) = frame[Came + 1]
  BY <1>2 DEF Rest
<1>5. rdr' = frame'[Came'] /\ Came' >= 1
  BY <1>1, <1>3, <1>4
<1>6. Taken' = Taken
  BY <1>1, <1>3 DEF Taken
<1>7. QED
  BY <1>1, <1>5, <1>6 DEF InStep

\* A frame that found the driver ready stays in step until it is delivered, unless
\* it is none for this child.
LEMMA StepTracked ==
  ASSUME Types, Flags, Rest, Tracked, [Next]_rs485Vars
  PROVE  Tracked'
<1> USE DEF driver, usart, history, others
<1>1. CASE UpdateReceive
  <2> SUFFICES ASSUME whole', ~ delivered'
               PROVE  /\ Listening' /\ echo' = << >> /\ ~ error'
                      /\ rtof' => ~ timing' /\ line' = << >>
                      /\ timing' \/ rtof' => Came' >= 1
                      /\ line' # << >> \/ timing' \/ rtof' => InStep'
                      /\ line' = << >> /\ ~ timing' /\ ~ rtof' =>
                           Len(frame') = 1 \/ frame'[1].value \notin MyAddresses
    BY DEF Tracked
  <2>1. UNCHANGED <<timing, line, echo, frame, whole>> /\ rxne' = FALSE
        /\ (rxne \/ rtof) /\ (rxne \/ busState = "Read") /\ Listening
        /\ ~ delivered /\ (rtof => ~ Accepted)
    <3>1. ~ delivered /\ (rtof => ~ Accepted)
      BY <1>1, ReceiveEffect
    <3>2. QED
      BY <1>1, <3>1, ReceiveEffect
  <2>2. echo = << >> /\ ~ error /\ InStep
    BY <2>1 DEF Tracked, Flags
  <2>3. Came >= 1 /\ Has(AddressNow, BufferNow, Came) /\ Came \in Int
    BY <2>1, <2>2, ReadInStep, Lengths
  <2>4. CASE rtof
    <3>1. line = << >> /\ ~ timing /\ ~ rtof' /\ ~ error' /\ ~ Accepted /\ Listening'
      <4>1. ~ rtof' /\ ~ error' /\ ~ Accepted /\ calling' = FALSE /\ busState' # "Write"
        BY <1>1, <2>1, <2>4, ReceiveEffect DEF Accepted
      <4>2. QED
        BY <2>1, <2>4, <4>1 DEF Tracked, Listening
    <3>2. Came = Len(frame)
      <4>1. Len(line) = 0
        BY <3>1, EmptySeq
      <4>2. QED
        BY <4>1, Lengths DEF Came
    <3>3. BufferNow = << >> \/ frame[1].value \notin MyAddresses
      BY <2>2, <2>3, <3>1 DEF Accepted, Has
    <3>4. ASSUME BufferNow = << >> PROVE Len(frame) = 1
      <4>1. Len(BufferNow) = 0
        BY <3>4, EmptySeq
      <4>2. MAX_PACKET_LENGTH \in Nat \ {0} /\ Len(frame) \in Nat \ {0}
        BY Lengths
      <4>3. QED
        BY <4>1, <4>2, <2>3, <3>2 DEF Has
    <3>5. QED
      BY <2>1, <2>2, <3>1, <3>3, <3>4
  <2>5. CASE ~ rtof
    <3>1. /\ ~ rtof' /\ error' = error /\ busState' = "Read" /\ ~ calling'
          /\ busBuffer' = BufferNow /\ busAddress' = AddressNow
      BY <1>1, <2>5, ReceiveEffect
    <3>2. Came' = Came /\ Taken' = Came
      BY <2>1, <2>3 DEF Came, Taken
    <3>3. InStep'
      BY <2>1, <2>3, <3>1, <3>2 DEF InStep, Has
    <3>4. timing
      BY <2>1, <2>5 DEF Flags
    <3>5. QED
      BY <2>1, <2>2, <2>3, <3>1, <3>2, <3>3, <3>4 DEF Listening
  <2>6. QED
    BY <2>4, <2>5
<1>2. ASSUME NEW n \in ReplyLengths, CallbackReturns(n) PROVE Tracked'
  BY <1>2 DEF CallbackReturns, Tracked, Listening
<1>3. CASE UpdateTransmit
  <2>1. ~ Listening /\ UNCHANGED <<whole, delivered>>
    BY <1>3, TransmitEffect DEF Listening
  <2>2. QED
    BY <2>1 DEF Tracked
<1>4. CASE FrameStarts
  <2>1. /\ UNCHANGED <<busState, calling, rxne, rtof, timing, error, echo>> /\ whole' = Ready
        /\ echo = << >> /\ ~ timing
    BY <1>4 DEF FrameStarts
  <2>2. line' # << >> /\ line' = frame' /\ frame' \in Seq(TaggedByte)
    <3>1. PICK f \in Frames : line' = Tagged(f, OtherOrigin) /\ frame' = line'
      BY <1>4 DEF FrameStarts
    <3>2. OtherOrigin \in 0 .. 2
      BY DEF OtherOrigin
    <3>3. QED
      BY <3>1, <3>2, TaggedFrame, Zenon
  <2>3. Came' = 0
    <3>1. Len(frame') \in Nat
      BY <2>2, LenProperties
    <3>2. QED
      BY <2>2, <3>1 DEF Came
  <2>4. ASSUME Ready PROVE Listening' /\ ~ error' /\ ~ rtof' /\ InStep'
    <3>1. Taken' = 0
      <4>1. ~ rxne'
        BY <2>1, <2>4 DEF Ready
      <4>2. Taken' = Came' - 0
        BY <4>1, Zenon DEF Taken
      <4>3. QED
        BY <2>3, <4>2
    <3>2. QED
      BY <2>1, <2>4, <3>1 DEF Ready, Listening, InStep
  <2>5. QED
    BY <2>1, <2>2, <2>4 DEF Tracked
<1>5. CASE ByteArrives
  <2>1. PICK noisy \in BOOLEAN : ByteReceived(Head(line), noisy) /\ whole' = (whole /\ ~ noisy)
    BY <1>5 DEF ByteArrives
  <2>2. line # << >> /\ line' = Tail(line) /\ echo' = echo
    BY <1>5 DEF ByteArrives
  <2>3. SUFFICES ASSUME whole', ~ delivered'
                 PROVE  Listening' /\ echo' = << >> /\ ~ error' /\ timing' /\ ~ rtof'
                        /\ InStep' /\ Came' >= 1
    BY <2>3 DEF Tracked
  <2>4. noisy = FALSE /\ whole /\ ~ delivered
    BY <2>1, <2>3 DEF ByteReceived
  <2>5. Listening /\ echo = << >> /\ ~ error /\ ~ rtof /\ InStep
    BY <2>2, <2>4 DEF Tracked
  <2>6. ~ rxne
    BY <2>1, <2>5, NothingLeft DEF ByteReceived
  <2>7. InStep'
    BY <2>1, <2>2, <2>4, <2>5, <2>6, ByteInStep
  <2>8. Listening' /\ ~ error' /\ timing' /\ ~ rtof' /\ rxne'
    BY <2>1, <2>4, <2>5, <2>6 DEF ByteReceived, Listening
  <2>9. QED
    BY <2>2, <2>5, <2>7, <2>8 DEF InStep
<1>6. CASE ByteMissed
  BY <1>6 DEF ByteMissed, Tracked
<1>7. CASE EchoArrives
  BY <1>7 DEF EchoArrives, ByteReceived, Tracked
<1>8. CASE TimeoutExpires
  BY <1>8 DEF TimeoutExpires, Tracked, Listening, InStep, Came, Taken
<1>9. CASE UNCHANGED rs485Vars
  BY <1>9 DEF rs485Vars, Tracked, Listening, InStep, Came, Taken
<1>10. QED
  BY <1>1, <1>2, <1>3, <1>4, <1>5, <1>6, <1>7, <1>8, <1>9 DEF Next, Update, Hardware

\* Once such a frame was delivered, nothing is left of it but what an error will
\* make the driver drop.
LEMMA StepFinished ==
  ASSUME Types, Flags, Deaf, Echoes, Tracked, Finished, [Next]_rs485Vars
  PROVE  Finished'
<1> USE DEF driver, usart, history, others
<1>1. CASE UpdateReceive
  <2>1. UNCHANGED <<timing, line, echoing, frame, whole>> /\ Listening /\ ~ rtof'
    BY <1>1, ReceiveEffect
  <2>2. CASE rtof
    <3>1. whole => line = << >> /\ ~ timing
      BY <2>2 DEF Tracked, Finished
    <3>2. QED
      BY <2>1, <3>1 DEF Finished
  <2>3. CASE ~ rtof
    <3>1. delivered' = delivered /\ error' = error /\ Listening'
      BY <1>1, <2>3, ReceiveEffect DEF Listening
    <3>2. QED
      BY <2>1, <3>1 DEF Finished
  <2>4. QED
    BY <2>2, <2>3
<1>2. ASSUME NEW n \in ReplyLengths, CallbackReturns(n) PROVE Finished'
  <2>1. calling /\ UNCHANGED <<timing, rtof, error, line, echoing, whole, delivered>>
    BY <1>2 DEF CallbackReturns
  <2>2. echoing => ~ timing /\ ~ rtof
    BY <2>1 DEF Deaf, Listening
  <2>3. QED
    BY <2>1, <2>2 DEF Finished, Listening
<1>3. CASE UpdateTransmit
  <2>1. ~ Listening /\ ~ calling' /\ UNCHANGED <<timing, rtof, error, line, echoing, whole, delivered>>
    BY <1>3, TransmitEffect DEF Listening
  <2>2. Listening' /\ echoing => error
    BY <1>3, TransmitEnds DEF Listening
  <2>3. QED
    BY <2>1, <2>2 DEF Finished
<1>4. CASE FrameStarts
  BY <1>4 DEF FrameStarts, Finished
<1>5. CASE ByteArrives
  <2>1. PICK noisy \in BOOLEAN : ByteReceived(Head(line), noisy) /\ whole' = (whole /\ ~ noisy)
    BY <1>5 DEF ByteArrives
  <2>2. line # << >> /\ delivered' = delivered
    BY <1>5, <2>1 DEF ByteArrives, ByteReceived
  <2>3. QED
    BY <2>1, <2>2 DEF Finished
<1>6. CASE ByteMissed
  BY <1>6 DEF ByteMissed, Finished
<1>7. CASE EchoArrives
  <2>1. echo # << >> /\ (error => error')
        /\ UNCHANGED <<busState, calling, rtof, line, echoing, whole, delivered>>
    BY <1>7 DEF EchoArrives, ByteReceived
  <2>2. ~ rtof /\ echoing /\ (Listening => error)
    BY <2>1 DEF Echoes, Flags
  <2>3. QED
    BY <2>1, <2>2 DEF Finished, Listening
<1>8. CASE TimeoutExpires
  BY <1>8 DEF TimeoutExpires, Finished, Listening
<1>9. CASE UNCHANGED rs485Vars
  BY <1>9 DEF rs485Vars, Finished, Listening
<1>10. QED
  BY <1>1, <1>2, <1>3, <1>4, <1>5, <1>6, <1>7, <1>8, <1>9 DEF Next, Update, Hardware

-----------------------------------------------------------------------------
(***************************************************************************)
(* The theorems.  ReadyAfterSilence holds where at most one frame comes    *)
(* while the driver does not listen, as it says itself;  the others hold   *)
(* however many frames it misses.                                          *)
(***************************************************************************)
\* The invariant holds at first.
LEMMA InitIInv == Init => IInv
<1> SUFFICES ASSUME Init PROVE IInv
  OBVIOUS
<1>1. Types
  BY InitTypes
<1>2. Listening /\ line = << >> /\ echo = << >> /\ ~ InFrame
      /\ ~ rxne /\ ~ rtof /\ ~ error /\ ~ timing /\ ~ whole
  BY DEF Init, Listening, InFrame
<1>3. Flags /\ Deaf /\ Echoes
  BY <1>2 DEF Flags, Deaf, Echoes, Listening
<1>4. Origins
  BY <1>2 DEF Init, Origins, Origin
<1>5. Rest
  <2>1. Len(line) = 0 /\ Len(frame) \in Nat
    BY <1>1, <1>2, EmptySeq, Lengths
  <2>2. QED
    BY <2>1 DEF Rest
<1>6. Tracked /\ Finished
  BY <1>2 DEF Tracked, Finished
<1>7. QED
  BY <1>1, <1>3, <1>4, <1>5, <1>6 DEF IInv

\* No step leaves it.
LEMMA StepIInv == IInv /\ [Next]_rs485Vars => IInv'
<1> SUFFICES ASSUME IInv, [Next]_rs485Vars PROVE IInv'
  OBVIOUS
<1>1. Types /\ Flags /\ Deaf /\ Echoes /\ Origins /\ Rest /\ Tracked /\ Finished
  BY DEF IInv
<1>2. Types'
  BY <1>1, StepTypes
<1>3. Flags' /\ Echoes' /\ Rest'
  BY <1>1, StepFlags, StepEchoes, StepRest
<1>4. Deaf'
  BY <1>1, <1>2, StepDeaf
<1>5. Origins'
  BY <1>1, StepOrigins
<1>6. Tracked'
  BY <1>1, StepTracked
<1>7. Finished'
  BY <1>1, StepFinished
<1>8. QED
  BY <1>2, <1>3, <1>4, <1>5, <1>6, <1>7 DEF IInv

\* IInv is an invariant.
LEMMA IInvHolds == Spec => []IInv
BY InitIInv, StepIInv, PTL DEF Spec

\* With at most one frame that nobody listens to, no step disturbs Prompt.
LEMMA StepPrompt ==
  ASSUME Types, Flags, Echoes, Prompt, [Next]_rs485Vars, MaxUnheard <= 1
  PROVE  Prompt'
<1> USE DEF driver, usart, history, others
<1>1. CASE UpdateReceive
  <2>1. /\ Listening /\ ~ rtof' /\ busState' # "Write" /\ UNCHANGED <<timing, line>>
        /\ rtof \/ (busState' = "Read" /\ ~ calling')
    BY <1>1, ReceiveEffect
  <2>2. rtof => ~ timing /\ line = << >>
    BY DEF Prompt
  <2>3. timing' => InFrame'
    BY <2>1, <2>2 DEF InFrame
  <2>4. ~ Listening' => ~ timing' /\ line' = << >>
    BY <2>1, <2>2 DEF Listening
  <2>5. QED
    BY <2>1, <2>3, <2>4 DEF Prompt
<1>2. ASSUME NEW n \in ReplyLengths, CallbackReturns(n) PROVE Prompt'
  BY <1>2 DEF CallbackReturns, Prompt, InFrame, Listening
<1>3. CASE UpdateTransmit
  <2>1. ~ Listening /\ ~ InFrame /\ UNCHANGED <<rtof, timing, line, rxne, echoing, unheard>>
    BY <1>3, TransmitEffect DEF Listening, InFrame
  <2>2. QED
    BY <2>1 DEF Prompt
<1>4. CASE FrameStarts
  <2>1. UNCHANGED <<busState, calling, rtof, timing, rxne, echoing>> /\ ~ timing /\ KeepsUp
    BY <1>4 DEF FrameStarts
  <2>2. CASE Listening
    <3>1. ~ rtof
      BY <2>1, <2>2, NothingLeft DEF Prompt
    <3>2. QED
      BY <2>1, <2>2, <3>1 DEF Prompt, Listening
  <2>3. CASE ~ Listening
    <3>1. ~ echoing /\ unheard < MaxUnheard /\ unheard' = unheard + 1
      BY <1>4, <2>3 DEF FrameStarts, Listening
    <3>2. unheard = 0
      BY <3>1, Rs485Assumption DEF Types, Rs485TypeOK
    <3>3. ~ rtof /\ unheard' # 0
      BY <2>3, <3>1, <3>2 DEF Prompt
    <3>4. QED
      BY <2>1, <3>3 DEF Prompt
  <2>4. QED
    BY <2>2, <2>3
<1>5. CASE ByteArrives
  <2>1. PICK noisy \in BOOLEAN : ByteReceived(Head(line), noisy)
    BY <1>5 DEF ByteArrives
  <2>2. line # << >> /\ rxne' = TRUE /\ UNCHANGED <<busState, calling, rtof, echoing, unheard>>
    BY <1>5, <2>1 DEF ByteArrives, ByteReceived
  <2>3. ~ rtof /\ (Listening \/ echoing \/ unheard # 0)
    BY <2>2 DEF Prompt
  <2>4. QED
    BY <2>2, <2>3 DEF Prompt, Listening
<1>6. CASE ByteMissed
  <2>1. line # << >> /\ UNCHANGED <<busState, calling, rxne, rtof, timing, echoing, unheard>>
    BY <1>6 DEF ByteMissed
  <2>2. ~ rtof /\ (Listening \/ echoing \/ unheard # 0)
    BY <2>1 DEF Prompt
  <2>3. QED
    BY <2>1, <2>2 DEF Prompt, Listening, InFrame
<1>7. CASE EchoArrives
  <2>1. echo # << >> /\ rxne' = TRUE /\ UNCHANGED <<busState, calling, rtof, echoing>>
    BY <1>7 DEF EchoArrives, ByteReceived
  <2>2. ~ rtof /\ echoing
    BY <2>1 DEF Echoes, Flags
  <2>3. QED
    BY <2>1, <2>2 DEF Prompt
<1>8. CASE TimeoutExpires
  BY <1>8 DEF TimeoutExpires, Prompt, InFrame, Listening
<1>9. CASE UNCHANGED rs485Vars
  BY <1>9 DEF rs485Vars, Prompt, InFrame, Listening
<1>10. QED
  BY <1>1, <1>2, <1>3, <1>4, <1>5, <1>6, <1>7, <1>8, <1>9 DEF Next, Update, Hardware

\* The types are kept, and no index of BusUpdate leaves busBuffer, whatever others
\* send, however many frames the driver misses.
THEOREM TypeCorrect == Spec => []Rs485TypeOK
<1>1. Types => Rs485TypeOK
  BY DEF Types
<1>2. QED
  BY InitTypes, StepTypes, <1>1, PTL DEF Spec

\* After a silence the driver is ready for the next frame.
THEOREM ReadyAfterSilenceCorrect ==
  ASSUME MaxUnheard <= 1
  PROVE  Spec => []ReadyAfterSilence
<1>1. Init => Prompt
  BY DEF Init, Prompt, Listening
<1>2. IInv /\ Prompt /\ [Next]_rs485Vars => Prompt'
  BY StepPrompt DEF IInv
<1>3. ASSUME IInv, Prompt PROVE ReadyAfterSilence
  <2> SUFFICES ASSUME Silence, ~ calling, busState # "Write" PROVE Ready
    BY DEF ReadyAfterSilence
  <2>1. Types /\ Flags
    BY <1>3 DEF IInv
  <2>2. KeepsUp /\ Listening /\ ~ timing
    BY DEF Silence, Listening
  <2>3. ~ rxne /\ ~ rtof
    BY <1>3, <2>1, <2>2, NothingLeft DEF Prompt
  <2>4. ~ error /\ busState # "Read"
    BY <2>1, <2>2, <2>3 DEF Flags, InFrame
  <2>5. QED
    BY <2>1, <2>3, <2>4 DEF Ready, Types, Rs485TypeOK
<1>4. QED
  BY <1>1, <1>2, <1>3, IInvHolds, PTL DEF Spec

\* No frame that found the driver ready, and no noise damaged, goes unheard.
THEOREM HeardCorrect == Spec => []Heard
<1>1. ASSUME IInv PROVE Heard
  <2> SUFFICES ASSUME Silence, whole, Len(frame) > 1, frame[1].value \in MyAddresses, ~ delivered
               PROVE  FALSE
    BY <1>1 DEF Heard, IInv, Types, Rs485TypeOK
  <2>1. Types /\ Tracked
    BY <1>1 DEF IInv
  <2>2. Listening /\ KeepsUp /\ ~ timing /\ line = << >>
    BY <2>1 DEF Silence, Tracked
  <2>3. ~ rxne /\ ~ (rtof /\ InFrame)
    BY <2>1, <2>2, NothingLeft
  <2>4. ~ rtof
    <3> SUFFICES ASSUME rtof PROVE FALSE
      OBVIOUS
    <3>1. InStep /\ Came >= 1
      BY <2>1 DEF Tracked
    <3>2. Taken = Came - 0
      BY <2>3 DEF Taken
    <3>3. Taken # 0
      BY <2>1, <3>1, <3>2, Lengths
    <3>4. busState = "Read"
      BY <3>1, <3>3 DEF InStep
    <3>5. QED
      BY <2>2, <2>3, <3>4 DEF InFrame, Listening
  <2>5. Len(frame) = 1
    BY <2>1, <2>2, <2>4 DEF Tracked
  <2>6. QED
    BY <2>5
<1>2. QED
  BY <1>1, IInvHolds, PTL

\* A step that calls BusCallback is the end of a frame without error.
LEMMA DeliversEffect ==
  ASSUME Types, [Next]_rs485Vars, Delivers
  PROVE  /\ UpdateReceive /\ Listening /\ rtof /\ ~ error /\ busState = "Read" /\ InFrame
         /\ busBuffer' = BufferNow /\ busAddress' = AddressNow
<1>1. UpdateReceive
  BY DEF Next, Update, Hardware, Delivers, UpdateTransmit, CallbackReturns, FrameStarts,
         ByteArrives, ByteMissed, EchoArrives, ByteReceived, TimeoutExpires, rs485Vars, driver
<1>2. FrameEnds /\ Accepted
  BY <1>1 DEF UpdateReceive, Delivers
<1>3. busBuffer' = BufferNow /\ busAddress' = AddressNow
  BY <1>1, <1>2 DEF UpdateReceive
<1>4. Listening /\ InFrame
  BY <1>1, <1>2, ReceiveEffect, AcceptedInFrame
<1>5. QED
  BY <1>1, <1>2, <1>3, <1>4 DEF FrameEnds, Accepted, InFrame

\* What BusCallback gets is of one frame, the one that ended last.
THEOREM OneFrameCorrect == Spec => OneFrame
<1>1. ASSUME IInv, [Next]_rs485Vars
      PROVE  [Delivers => \A i \in 1 .. Len(busBuffer') :
                busBuffer'[i].origin = busAddress'.origin
                  /\ busAddress'.origin = frame[1].origin]_rs485Vars
  <2> SUFFICES ASSUME Delivers, NEW i \in 1 .. Len(busBuffer')
               PROVE  busBuffer'[i].origin = busAddress'.origin
                        /\ busAddress'.origin = frame[1].origin
    OBVIOUS
  <2>1. Types /\ Origins
    BY <1>1 DEF IInv
  <2>2. /\ Listening /\ ~ error /\ busState = "Read" /\ InFrame
        /\ busBuffer' = BufferNow /\ busAddress' = AddressNow
    BY <1>1, <2>1, DeliversEffect
  <2>3. AddressNow.origin = Origin /\ \A j \in 1 .. Len(BufferNow) : BufferNow[j].origin = Origin
    BY <2>1, <2>2, ReadOrigins
  <2>4. QED
    BY <2>2, <2>3 DEF Origin
<1>2. QED
  BY <1>1, IInvHolds, PTL DEF Spec, OneFrame

\* The buffer that has k bytes of the frame is the beginning of the frame.
LEMMA HasPrefix ==
  ASSUME Types, NEW a \in TaggedByte, NEW b \in Seq(TaggedByte), Has(a, b, Len(frame))
  PROVE  <<a>> \o b = SubSeq(frame, 1, IF Len(frame) <= MAX_PACKET_LENGTH THEN Len(frame)
                                       ELSE MAX_PACKET_LENGTH + 1)
<1> DEFINE n == IF Len(frame) <= MAX_PACKET_LENGTH THEN Len(frame) ELSE MAX_PACKET_LENGTH + 1
<1> DEFINE s == <<a>> \o b
<1> DEFINE t == SubSeq(frame, 1, n)
<1>1. MAX_PACKET_LENGTH \in Nat \ {0} /\ Len(frame) \in Nat \ {0}
  BY Lengths
<1>2. n \in 1 .. Len(frame) /\ n \in Nat
  BY <1>1
<1>3. Len(b) = n - 1
  BY <1>1 DEF Has
<1>4. <<a>> \in Seq(TaggedByte) /\ Len(<<a>>) = 1 /\ <<a>>[1] = a
  OBVIOUS
<1>5. /\ s \in Seq(TaggedByte) /\ Len(s) = 1 + Len(b)
      /\ \A i \in 1 .. 1 + Len(b) : s[i] = IF i <= 1 THEN <<a>>[i] ELSE b[i - 1]
  BY <1>4, ConcatProperties
<1>6. /\ t \in Seq(TaggedByte) /\ Len(t) = n
      /\ \A i \in 1 .. n : t[i] = frame[i]
  <2> HIDE DEF n
  <2>1. \A i \in 1 .. n : frame[i] \in TaggedByte
    <3>1. frame \in Seq(TaggedByte)
      BY DEF Types
    <3>2. \A i \in 1 .. n : i \in 1 .. Len(frame)
      BY <1>1, <1>2
    <3>3. QED
      BY <3>1, <3>2, ElementOfSeq
  <2>2. 1 \in Int /\ n \in Int /\ 1 <= n /\ n - 1 + 1 = n
    BY <1>2
  <2>3. /\ t \in Seq(TaggedByte) /\ Len(t) = IF 1 <= n THEN n - 1 + 1 ELSE 0
        /\ \A i \in 1 .. n - 1 + 1 : t[i] = frame[1 + i - 1]
    BY <2>1, <2>2, SubSeqProperties
  <2>4. \A i \in 1 .. n : 1 + i - 1 = i
    BY <1>2
  <2>5. QED
    BY <2>2, <2>3, <2>4
<1> HIDE DEF n, s, t
<1>7. Len(s) = n /\ n \in Nat
  BY <1>2, <1>3, <1>5
<1>8. ASSUME NEW i \in 1 .. Len(s) PROVE s[i] = t[i]
  <2>1. CASE i = 1
    <3>1. s[1] = a /\ t[1] = frame[1]
      BY <1>2, <1>3, <1>4, <1>5, <1>6
    <3>2. QED
      BY <2>1, <3>1 DEF Has
  <2>2. CASE i # 1
    <3>1. i - 1 \in 1 .. Len(b) /\ (i - 1) + 1 = i /\ ~ (i <= 1) /\ i \in 1 .. n /\ i \in 1 .. 1 + Len(b)
      BY <1>2, <1>3, <1>7, <2>2
    <3>2. b[i - 1] = frame[i]
      BY <3>1 DEF Has
    <3>3. QED
      BY <3>1, <3>2, <1>5, <1>6
  <2>3. QED
    BY <2>1, <2>2
<1>9. s = t
  BY <1>5, <1>6, <1>7, <1>8, SeqEqual
<1>10. QED
  BY <1>9 DEF s, t, n

\* A frame that found the driver ready is delivered as it was sent, or its
\* beginning when it is longer than the buffer.
THEOREM DeliveredAsSentCorrect == Spec => DeliveredAsSent
<1>1. ASSUME IInv, [Next]_rs485Vars
      PROVE  [Delivers /\ whole =>
                <<busAddress'>> \o busBuffer' =
                  SubSeq(frame, 1, IF Len(frame) <= MAX_PACKET_LENGTH THEN Len(frame)
                                   ELSE MAX_PACKET_LENGTH + 1)]_rs485Vars
  <2> SUFFICES ASSUME Delivers, whole
               PROVE  <<busAddress'>> \o busBuffer' =
                        SubSeq(frame, 1, IF Len(frame) <= MAX_PACKET_LENGTH THEN Len(frame)
                                         ELSE MAX_PACKET_LENGTH + 1)
    OBVIOUS
  <2>1. Types /\ Flags /\ Tracked /\ Finished /\ Rest
    BY <1>1 DEF IInv
  <2>2. /\ Listening /\ ~ error /\ rtof /\ busState = "Read"
        /\ busBuffer' = BufferNow /\ busAddress' = AddressNow
    BY <1>1, <2>1, DeliversEffect
  <2>3. ~ delivered
    BY <2>1, <2>2 DEF Finished
  <2>4. InStep /\ line = << >>
    BY <2>1, <2>2, <2>3 DEF Tracked, Flags
  <2>5. Came = Len(frame)
    <3>1. Len(line) = 0
      BY <2>4, EmptySeq
    <3>2. QED
      BY <2>1, <3>1, Lengths DEF Came
  <2>6. Has(AddressNow, BufferNow, Len(frame))
    BY <2>1, <2>2, <2>4, <2>5, ReadInStep
  <2>7. QED
    BY <2>1, <2>2, <2>6, ReadTypes, HasPrefix
<1>2. QED
  BY <1>1, IInvHolds, PTL DEF Spec, DeliveredAsSent
=============================================================================
