------------------------------- MODULE ChildBus -------------------------------
(***************************************************************************)
(* Several RS485 children on one wire, frame by frame: who takes a frame   *)
(* for a request, what the commands of the base protocol and the child     *)
(* select pins do, and who replies.  The wire is a broadcast: every child  *)
(* hears the replies of the others, too, and a reply looks just like a     *)
(* request (an address, a code, data), so its status can be taken for a    *)
(* command.                                                                *)
(*                                                                         *)
(* A frame ends for everybody at the same moment, but the children work on *)
(* it one after the other, in any order.                                   *)
(***************************************************************************)
EXTENDS Integers, Sequences, FiniteSets

CONSTANTS
  Children,
  Master,
  NoFrame,
  Plug,              \* Plug[c]: the connector <<parent, index>> child c is on
  NumChildren,       \* NUM_CHILDREN of each child
  HwType,            \* INFO_HW_TYPE of each child
  InitialAddresses,  \* the addresses a child responds to at first (8-15)
  MaxLosses          \* most frames that noise spoils

\* What is on the wire: an address, a code, and data.
Frames == [from : Children \cup {Master}, address : Nat, code : Nat, data : Seq(Nat),
           short : BOOLEAN]

ASSUME ChildBusAssumption ==
  /\ Master \notin Children /\ NoFrame \notin Frames
  /\ Plug \in [Children -> (Children \cup {Master}) \X Nat]
  /\ \A c, d \in Children : Plug[c] = Plug[d] => c = d
  /\ NumChildren \in [Children -> Nat]
  /\ \A c \in Children : Plug[c][1] # Master => Plug[c][2] < NumChildren[Plug[c][1]]
  /\ HwType \in [Children -> Nat \ {0}]
  /\ InitialAddresses \subseteq Nat \ {0}
  /\ MaxLosses \in Nat

VARIABLES
  configuredAddress, \* of each child, in Rs485.cpp and in BaseProtocol.cpp; 0 if none
  mode,              \* of each child: the "bootloader" runs or the "application"
  childPins,         \* of each child: the downstream select pins it asserts
  masterPins,        \* the select pins the master asserts
  pending,           \* of each child: the reply it is about to send, or NoFrame
  wire,              \* the frame just ended, or NoFrame
  hearers,           \* who has still to work on it
  losses             \* frames spoiled for somebody, up to MaxLosses

childVars == <<configuredAddress, mode, childPins, pending>>
wireVars == <<wire, hearers, losses>>
busVars == <<childVars, masterPins, wireVars>>

(***************************************************************************)
(* The numbers of the protocol.  Statuses and commands overlap.            *)
(***************************************************************************)
COMMAND_OK == 0
COMMAND_NOT_SUPPORTED == 2
INVALID_TRANSFER == 3
INVALID_ARGUMENTS == 5
NO_REPLY == 255

GET_PROTOCOL_VERSION == 0
SET_ADDRESS == 1
START_APPLICATION == 5
GET_NUM_CHILDREN == 10
SET_CHILD_SELECT == 11
RESET_ADDRESS == 68
RESET == 70

\* A frame with an address and less than the three bytes of a code and a CRC
\* is short; the CRC of any other frame is right, or the frame is not heard.
Frame(from, address, code, data) ==
  [from |-> from, address |-> address, code |-> code, data |-> data, short |-> FALSE]

ShortFrame(address) ==
  [from |-> Master, address |-> address, code |-> 0, data |-> << >>, short |-> TRUE]

Result(status, results) == [status |-> status, results |-> results]

\* BusCallback: the address of the request, the status, the length, the results.
ReplyFrame(c, address, res) ==
  Frame(c, address, res.status, <<Len(res.results)>> \o res.results)

-----------------------------------------------------------------------------
(***************************************************************************)
(* Whether a child acts on a frame.                                        *)
(***************************************************************************)
\* Variant with a bug: the address is looked at only once it is configured.
MatchUnconfigured(c, address) ==
  configuredAddress[c] # 0 => address \in {0, configuredAddress[c]}

matchAddress(c, address) ==
  \/ address = 0
  \/ /\ configuredAddress[c] # 0
     /\ address = configuredAddress[c]
  \/ /\ configuredAddress[c] = 0
     /\ address \in InitialAddresses

\* The pin is asserted by whoever has the connector that child c is on.
Selected(c) ==
  LET parent == Plug[c][1]
      index == Plug[c][2]
  IN  index \in IF parent = Master THEN masterPins ELSE childPins[parent]

shouldRespondToAddress(c, address) ==
  \/ address = 0
  \/ address = configuredAddress[c]
  \/ Selected(c)

(***************************************************************************)
(* handleCommand and the commands of processCommand that concern the bus.  *)
(***************************************************************************)
SetAddressRefused(c, data) ==
  Len(data) = 2 /\ data[2] # 0 /\ data[2] # HwType[c]

\* Variant with a bug: the last pin is out of range.
SetChildSelectShort(c, data) ==
  Len(data) = 2 /\ data[1] + 1 < NumChildren[c] /\ data[2] \in {0, 1}

SetChildSelectValid(c, data) ==
  Len(data) = 2 /\ data[1] < NumChildren[c] /\ data[2] \in {0, 1}

handleCommand(c, code, data) ==
  CASE code = GET_PROTOCOL_VERSION -> Result(COMMAND_OK, <<2, 1>>)
    [] code = SET_ADDRESS ->
         IF Len(data) # 2 THEN Result(INVALID_ARGUMENTS, << >>)
         ELSE IF SetAddressRefused(c, data) THEN Result(NO_REPLY, << >>)
         ELSE Result(COMMAND_OK, << >>)
    [] code = GET_NUM_CHILDREN ->
         IF Len(data) # 0 THEN Result(INVALID_ARGUMENTS, << >>)
         ELSE Result(COMMAND_OK, <<NumChildren[c]>>)
    [] code = SET_CHILD_SELECT ->
         IF SetChildSelectValid(c, data) THEN Result(COMMAND_OK, << >>)
         ELSE Result(INVALID_ARGUMENTS, << >>)
    [] code = START_APPLICATION ->
         IF Len(data) # 0 THEN Result(INVALID_ARGUMENTS, << >>)
         ELSE Result(NO_REPLY, << >>)   \* the loop ends before it is sent
    [] OTHER -> Result(COMMAND_NOT_SUPPORTED, << >>)

\* Variant with a bug: the pin beside it.
SelectNextPin(c, data) ==
  IF data[2] = 1 THEN childPins[c] \cup {data[1] + 1} ELSE childPins[c] \ {data[1] + 1}

SelectPins(c, data) ==
  IF data[2] = 1 THEN childPins[c] \cup {data[1]} ELSE childPins[c] \ {data[1]}

CommandEffect(c, code, data) ==
  /\ configuredAddress' =
       IF code = SET_ADDRESS /\ Len(data) = 2 /\ ~ SetAddressRefused(c, data)
         THEN [configuredAddress EXCEPT ![c] = data[1]]
         ELSE configuredAddress
  /\ childPins' =
       IF code = SET_CHILD_SELECT /\ SetChildSelectValid(c, data)
         THEN [childPins EXCEPT ![c] = SelectPins(c, data)]
         ELSE childPins
  /\ mode' =
       IF code = START_APPLICATION /\ Len(data) = 0
         THEN [mode EXCEPT ![c] = "application"]
         ELSE mode

(***************************************************************************)
(* resetSystem: the machine restarts, in the bootloader; its pins float.   *)
(***************************************************************************)
\* Variants with a bug: the pins, or the address, are as they were.
ResetKeepsPins(c) ==
  /\ configuredAddress' = [configuredAddress EXCEPT ![c] = 0]
  /\ mode' = [mode EXCEPT ![c] = "bootloader"]
  /\ UNCHANGED childPins

ResetKeepsAddress(c) ==
  /\ mode' = [mode EXCEPT ![c] = "bootloader"]
  /\ childPins' = [childPins EXCEPT ![c] = {}]
  /\ UNCHANGED configuredAddress

resetSystem(c) ==
  /\ configuredAddress' = [configuredAddress EXCEPT ![c] = 0]
  /\ mode' = [mode EXCEPT ![c] = "bootloader"]
  /\ childPins' = [childPins EXCEPT ![c] = {}]

handleGeneralCall(c, code, data) ==
  IF code = RESET /\ data = << >> THEN resetSystem(c)
  ELSE /\ configuredAddress' = IF code = RESET_ADDRESS /\ data = << >>
                                 THEN [configuredAddress EXCEPT ![c] = 0]
                                 ELSE configuredAddress
       /\ UNCHANGED <<mode, childPins>>

-----------------------------------------------------------------------------
(***************************************************************************)
(* One hearer is done with the frame.                                      *)
(***************************************************************************)
Heard(h) ==
  /\ h \in hearers
  /\ hearers' = hearers \ {h}
  /\ wire' = IF hearers = {h} THEN NoFrame ELSE wire

\* Noise: the CRC is wrong at this hearer, or bytes are missing.
Lose(h) ==
  /\ Heard(h)
  /\ losses < MaxLosses
  /\ losses' = losses + 1
  /\ UNCHANGED <<childVars, masterPins>>

\* BusUpdate calls BusCallback, unless it is sending or the address is not its.
Addressed(c) ==
  /\ mode[c] = "bootloader"
  /\ pending[c] = NoFrame
  /\ matchAddress(c, wire.address)
  /\ shouldRespondToAddress(c, wire.address)

Ignore(c) ==
  /\ Heard(c)
  /\ \/ mode[c] = "bootloader" /\ ~ Addressed(c)
     \/ mode[c] = "application" /\ ~ (wire.address = 0 /\ wire.code = RESET)
  /\ UNCHANGED <<childVars, masterPins, losses>>

\* The CRC of a short frame is not looked at, nor whether it is a general call.
AnswerShort(c) ==
  /\ Heard(c)
  /\ Addressed(c) /\ wire.short
  /\ pending' = [pending EXCEPT ![c] =
       ReplyFrame(c, wire.address, Result(INVALID_TRANSFER, << >>))]
  /\ UNCHANGED <<configuredAddress, mode, childPins, masterPins, losses>>

GeneralCall(c) ==
  /\ Heard(c)
  /\ Addressed(c) /\ ~ wire.short /\ wire.address = 0
  /\ handleGeneralCall(c, wire.code, wire.data)
  /\ UNCHANGED <<pending, masterPins, losses>>

Command(c) ==
  /\ Heard(c)
  /\ Addressed(c) /\ ~ wire.short /\ wire.address # 0
  /\ CommandEffect(c, wire.code, wire.data)
  /\ LET res == handleCommand(c, wire.code, wire.data)
     IN  pending' = IF res.status = NO_REPLY THEN pending
                    ELSE [pending EXCEPT ![c] = ReplyFrame(c, wire.address, res)]
  /\ UNCHANGED <<masterPins, losses>>

\* An application must support the general call reset, and nothing else.
ApplicationReset(c) ==
  /\ Heard(c)
  /\ mode[c] = "application"
  /\ wire.address = 0 /\ wire.code = RESET
  /\ resetSystem(c)
  /\ UNCHANGED <<pending, masterPins, losses>>

(***************************************************************************)
(* A child sends its reply, which all the others hear.  If two send at     *)
(* once, nobody can read either.                                           *)
(***************************************************************************)
Talkers == { c \in Children : pending[c] # NoFrame }

Transmit(c) ==
  /\ hearers = {}
  /\ c \in Talkers
  /\ IF Talkers = {c}
       THEN wire' = pending[c] /\ hearers' = (Children \cup {Master}) \ {c}
       ELSE UNCHANGED <<wire, hearers>>
  /\ pending' = [d \in Children |-> NoFrame]
  /\ UNCHANGED <<configuredAddress, mode, childPins, masterPins, losses>>

ChildStep(c) ==
  Ignore(c) \/ AnswerShort(c) \/ GeneralCall(c) \/ Command(c) \/ ApplicationReset(c)

-----------------------------------------------------------------------------
BusTypeOK ==
  /\ configuredAddress \in [Children -> 0 .. 255]
  /\ mode \in [Children -> {"bootloader", "application"}]
  /\ \A c \in Children : childPins[c] \subseteq 0 .. NumChildren[c] - 1
  /\ masterPins \subseteq Nat
  /\ \A c \in Children : pending[c] = NoFrame \/ pending[c].from = c
  /\ wire = NoFrame \/ wire.from \in Children \cup {Master}
  /\ hearers \subseteq Children \cup {Master}
  /\ losses \in 0 .. MaxLosses
=============================================================================
