------------------------------ MODULE I2CCallback ------------------------------
(***************************************************************************)
(* What an I2C driver sees of BaseProtocol.cpp: BusCallback gets a request *)
(* and the address it was written to, returns the reply, and may change    *)
(* the addresses the driver listens to or reset the system.                *)
(***************************************************************************)
EXTENDS Integers, Sequences

CONSTANTS
  NewAddresses,   \* what SET_ADDRESS may ask for
  Replies         \* what commands leave in the buffer; << >> for no reply

ASSUME CallbackAssumption ==
  /\ NewAddresses \subseteq 1 .. 127
  /\ Replies \subseteq Seq(0 .. 255)
  /\ << >> \in Replies

RESET_ADDRESS == 4
RESET == 6

INITIAL_ADDRESS == 8
INITIAL_BITS == 4

\* 1 << n, for n up to 7.
Pow2(n) == <<1, 2, 4, 8, 16, 32, 64, 128>>[n + 1]

Effect(reply, call, address) == [reply |-> reply, call |-> call, address |-> address]

Nothing(reply) == Effect(reply, "none", 0)

\* A general call has no CRC and gets no reply.
handleGeneralCall(request) ==
  IF request = <<RESET>> THEN Effect(<< >>, "resetSystem", 0)
  ELSE IF request = <<RESET_ADDRESS>> THEN Effect(<< >>, "BusResetDeviceAddress", 0)
  ELSE Nothing(<< >>)

\* A command to the child itself: SET_ADDRESS, with the reply of cmd_ok, or any
\* other; or one that is ignored, because of a hardware type or child select.
BusCallback(address, request) ==
  IF address = 0 THEN {handleGeneralCall(request)}
  ELSE { Nothing(reply) : reply \in Replies } \cup
       { Effect(reply, "BusSetDeviceAddress", a) :
           reply \in Replies \ {<< >>}, a \in NewAddresses }
=============================================================================
