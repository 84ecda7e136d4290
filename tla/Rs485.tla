--------------------------------- MODULE Rs485 ---------------------------------
(***************************************************************************)
(* The RS485 driver of the STM32 build, stm32/Rs485.cpp, byte by byte: how *)
(* BusUpdate cuts what the USART receives into frames and sends a reply.   *)
(* A frame ends with silence, which the receive timeout of the USART       *)
(* detects; the flags of the USART stay set until BusUpdate looks at them, *)
(* which it does not while BusCallback works on a frame (erasing and       *)
(* programming flash takes long), and only partly while it sends.          *)
(*                                                                         *)
(* The USART and the line are no part of the repository: they are modelled *)
(* from the way BusUpdate uses the flags.  Otherwise than in BusCallback,  *)
(* BusUpdate is called at least once per byte.                             *)
(***************************************************************************)
EXTENDS Integers, Sequences, SequencesExt

CONSTANTS
  MAX_PACKET_LENGTH,
  Frames,        \* what others send: sequences of bytes, the address first
  MyAddresses,   \* the addresses matchAddress accepts
  MaxUnheard,    \* most frames others send while the driver does not listen
  ReplyLengths   \* what BusCallback returns, 0 for no reply

ASSUME Rs485Assumption ==
  /\ MAX_PACKET_LENGTH \in Nat \ {0}
  /\ \A f \in Frames : f \in Seq(0 .. 255) /\ f # << >>
  /\ ReplyLengths \subseteq {0} \cup 4 .. MAX_PACKET_LENGTH  \* 5 at least, in fact
  /\ MaxUnheard \in Nat

VARIABLES
  busState,    \* "Idle", "Read" or "Write"
  busAddress,
  busBuffer,   \* its first busBufferLen bytes
  busTxPos,
  calling,     \* inside BusCallback
  rdr, rxne,   \* the byte received, and that there is one
  rtof,        \* the receive timeout has expired
  error,       \* a parity, framing or overrun error since the flags were cleared
  timing,      \* the receive timeout is running
  line,        \* the bytes of the current frame that are still to come
  echo,        \* own bytes on the line that the receiver hears
  echoing,     \* whether it hears them at all: the wiring decides
  unheard,     \* frames that began since the driver has last listened
  frame,       \* history: the current frame, or the last one
  whole,       \* history: it began when the driver was ready, without noise since
  delivered    \* history: BusCallback was called for it

driver == <<busState, busAddress, busBuffer, busTxPos, calling>>
usart == <<rdr, rxne, rtof, error, timing>>
history == <<frame, whole, delivered>>
others == <<line, unheard>>
rs485Vars == <<driver, usart, others, echo, echoing, history>>

\* A byte, and whether it is of this frame, of the last one, or an echo.
Tagged(f, origin) == [i \in 1 .. Len(f) |-> [value |-> f[i], origin |-> origin]]
OtherOrigin == IF frame[1].origin = 0 THEN 1 ELSE 0
EchoByte == [value |-> 0, origin |-> 2]

Init ==
  /\ busState = "Idle"
  /\ busAddress = EchoByte
  /\ busBuffer = << >>
  /\ busTxPos = 0
  /\ calling = FALSE
  /\ rdr = EchoByte
  /\ rxne = FALSE /\ rtof = FALSE /\ error = FALSE /\ timing = FALSE
  /\ line = << >>
  /\ unheard = 0
  /\ echo = << >>
  /\ echoing \in BOOLEAN
  /\ frame = <<EchoByte>>
  /\ whole = FALSE
  /\ delivered = FALSE

-----------------------------------------------------------------------------
(***************************************************************************)
(* BusUpdate.                                                              *)
(***************************************************************************)
Receiving == rxne /\ busState # "Write"

\* The state after the byte, if there is one, was read.
AddressNow == IF Receiving /\ busState = "Idle" THEN rdr ELSE busAddress

\* Variants with a bug: the buffer is not emptied for a new frame, or a byte
\* more than fits is stored.
BufferKept ==
  IF Receiving /\ busState # "Idle" /\ Len(busBuffer) < MAX_PACKET_LENGTH
    THEN Append(busBuffer, rdr) ELSE busBuffer

BufferOverfull ==
  IF ~ Receiving THEN busBuffer
  ELSE IF busState = "Idle" THEN << >>
  ELSE IF Len(busBuffer) <= MAX_PACKET_LENGTH THEN Append(busBuffer, rdr)
  ELSE busBuffer

BufferNow ==
  IF ~ Receiving THEN busBuffer
  ELSE IF busState = "Idle" THEN << >>
  ELSE IF Len(busBuffer) < MAX_PACKET_LENGTH THEN Append(busBuffer, rdr)
  ELSE busBuffer

FrameEnds == rtof /\ (busState = "Read" \/ Receiving)

\* Variants with a bug: errors are not looked at; a frame that fills the buffer
\* is taken for one that does not fit.
AcceptedDespiteError == BufferNow # << >> /\ AddressNow.value \in MyAddresses

AcceptedUnlessFull ==
  /\ ~ error /\ BufferNow # << >> /\ AddressNow.value \in MyAddresses
  /\ Len(BufferNow) < MAX_PACKET_LENGTH

Accepted == ~ error /\ BufferNow # << >> /\ AddressNow.value \in MyAddresses

\* Variant with a bug: the error flags stay.
ClearTimeoutOnly == rtof' = FALSE /\ UNCHANGED error

ClearFlags == rtof' = FALSE /\ error' = FALSE

UpdateReceive ==
  /\ ~ calling
  /\ Receiving \/ FrameEnds
  /\ busAddress' = AddressNow
  /\ rxne' = (rxne /\ ~ Receiving)
  /\ IF FrameEnds
       THEN /\ ClearFlags
            /\ busState' = IF Accepted THEN "Read" ELSE "Idle"
            /\ busBuffer' = IF Accepted THEN BufferNow ELSE << >>
            /\ calling' = Accepted
            /\ delivered' = (delivered \/ Accepted)
       ELSE /\ busState' = IF Receiving THEN "Read" ELSE busState
            /\ busBuffer' = BufferNow
            /\ UNCHANGED <<rtof, error, calling, delivered>>
  /\ UNCHANGED <<busTxPos, rdr, timing, others, echo, echoing, frame, whole>>

\* BusCallback returns the length of the reply it left in busBuffer.
CallbackReturns(n) ==
  /\ calling
  /\ calling' = FALSE
  /\ busBuffer' = [i \in 1 .. n |-> EchoByte]
  /\ IF n > 0
       THEN busState' = "Write" /\ busTxPos' = 0
       ELSE busState' = "Idle" /\ UNCHANGED busTxPos
  /\ UNCHANGED <<busAddress, usart, others, echo, echoing, history>>

\* A byte goes to the transmit register, when that is empty.
UpdateTransmit ==
  /\ ~ calling /\ busState = "Write"
  /\ Len(echo) < 2
  /\ busTxPos' = busTxPos + 1
  /\ busState' = IF busTxPos' >= Len(busBuffer) THEN "Idle" ELSE "Write"
  /\ echo' = IF echoing THEN Append(echo, busBuffer[busTxPos']) ELSE echo
  /\ UNCHANGED <<busAddress, busBuffer, calling, usart, others, echoing, history>>

-----------------------------------------------------------------------------
(***************************************************************************)
(* The line and the USART.                                                 *)
(***************************************************************************)
\* BusUpdate has looked at everything it looks at in its state.
KeepsUp == calling \/ busState = "Write" \/ ~ (rxne \/ FrameEnds)

Ready == busState = "Idle" /\ ~ calling /\ ~ rxne /\ ~ rtof /\ ~ error

\* Somebody starts to send, after a silence.  Where the child hears its own
\* bytes, everybody waits for its reply, as PROTOCOL.md asks: a frame that came
\* before would set the timeout flag, and end the echo before its last byte.
FrameStarts ==
  /\ line = << >> /\ echo = << >> /\ ~ timing /\ KeepsUp
  /\ IF calling \/ busState = "Write"
       THEN unheard < MaxUnheard /\ ~ echoing /\ unheard' = unheard + 1
       ELSE unheard' = 0
  /\ \E f \in Frames : line' = Tagged(f, OtherOrigin)
  /\ frame' = line'
  /\ whole' = Ready
  /\ delivered' = FALSE
  /\ UNCHANGED <<driver, usart, echo, echoing>>

\* The register keeps the byte it has when the next one comes.
ByteReceived(b, noisy) ==
  /\ KeepsUp
  /\ rdr' = IF rxne THEN rdr ELSE b
  /\ rxne' = TRUE
  /\ error' = (error \/ rxne \/ noisy)
  /\ timing' = TRUE
  /\ UNCHANGED <<driver, rtof, unheard, echoing, frame, delivered>>

ByteArrives ==
  /\ line # << >>
  /\ \E noisy \in BOOLEAN :
       /\ ByteReceived(Head(line), noisy)
       /\ whole' = (whole /\ ~ noisy)
  /\ line' = Tail(line)
  /\ UNCHANGED echo

\* Noise hides a byte.
ByteMissed ==
  /\ line # << >> /\ KeepsUp
  /\ line' = Tail(line)
  /\ whole' = FALSE
  /\ UNCHANGED <<driver, usart, unheard, echo, echoing, frame, delivered>>

EchoArrives ==
  /\ echo # << >>
  /\ ByteReceived(Head(echo), FALSE)
  /\ echo' = Tail(echo)
  /\ UNCHANGED <<line, whole>>

TimeoutExpires ==
  /\ timing /\ line = << >> /\ echo = << >> /\ KeepsUp
  /\ busState = "Write" => ~ echoing
  /\ rtof' = TRUE
  /\ timing' = FALSE
  /\ UNCHANGED <<driver, rdr, rxne, error, others, echo, echoing, history>>

Update == UpdateReceive \/ UpdateTransmit
Hardware == ByteArrives \/ ByteMissed \/ EchoArrives \/ TimeoutExpires

Next ==
  \/ Update
  \/ \E n \in ReplyLengths : CallbackReturns(n)
  \/ FrameStarts \/ Hardware

Spec == Init /\ [][Next]_rs485Vars


-----------------------------------------------------------------------------
\* The type invariant: no index leaves busBuffer.
Rs485TypeOK ==
  /\ busState \in {"Idle", "Read", "Write"}
  /\ Len(busBuffer) <= MAX_PACKET_LENGTH
  /\ busTxPos \in 0 .. MAX_PACKET_LENGTH
  /\ busState = "Write" => busTxPos < Len(busBuffer)
  /\ calling => busState = "Read"
  /\ unheard \in 0 .. MaxUnheard
  /\ {rxne, rtof, error, timing, echoing, whole, delivered} \subseteq BOOLEAN

Delivers == ~ calling /\ calling'

\* What BusCallback gets is of one frame: bytes of two frames, with silence
\* between them, are never joined, and the own reply is never taken for a
\* request, whatever noise there was and however long BusCallback took.
OneFrame ==
  [][Delivers => \A i \in 1 .. Len(busBuffer') :
       busBuffer'[i].origin = busAddress'.origin /\ busAddress'.origin = frame[1].origin]_rs485Vars

\* A frame that found the driver ready is delivered as it was sent, and when it
\* is longer than the buffer, its first bytes are.
DeliveredAsSent ==
  [][Delivers /\ whole =>
       <<busAddress'>> \o busBuffer' =
         SubSeq(frame, 1, IF Len(frame) <= MAX_PACKET_LENGTH THEN Len(frame)
                          ELSE MAX_PACKET_LENGTH + 1)]_rs485Vars

Silence == line = << >> /\ echo = << >> /\ ~ timing /\ KeepsUp

\* No such frame goes unheard: after the silence it has been delivered.
Heard ==
  Silence /\ whole /\ Len(frame) > 1 /\ frame[1].value \in MyAddresses => delivered

\* After a silence the driver is ready for the next frame: no flag or state is
\* left over that would spoil it.  This relies on MaxUnheard = 1: the timeout
\* flag of a first frame that nobody listened to would cut a second one short,
\* whose own flag would then be left for the frame after it.
ReadyAfterSilence == Silence /\ ~ calling /\ busState # "Write" => Ready
=============================================================================
