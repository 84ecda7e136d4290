------------------------------ MODULE I2CExchange ------------------------------
(***************************************************************************)
(* What the I2C drivers promise, as the master sees it.  A request is what *)
(* it writes in one transaction, cut to the size of the buffer.  When the  *)
(* transaction has ended, the request is executed, once, before any read   *)
(* is answered; every read, however often repeated, returns the reply to   *)
(* the last request from its beginning, and filler behind it; and when     *)
(* there is no reply, a read is refused.                                   *)
(*                                                                         *)
(* The child listens to general calls, and to the initial addresses until  *)
(* it is given another one.  An address is matched when it is sent, which  *)
(* may be before a due request changes it; either way the transaction gets *)
(* the reply to that request.                                              *)
(***************************************************************************)
EXTENDS I2CCallback

CONSTANTS
  MAX_PACKET_LENGTH, Bytes,
  Addresses,   \* the addresses that are looked at
  Filler,
  MayMiss,     \* the child may fail to answer an address at all
  MayHang      \* it may block the bus when its address changes too late

VARIABLES
  phase,      \* the transaction the child takes part in: "idle" for none, it
              \* was "addressed", it is a "write" or "read", it "refused"; or
              \* it "hung" and blocks the bus
  at,         \* the address matched and whether it is for a read
  listen,     \* the addresses it listens to, besides the general call
  to,         \* the address of the last write
  request,    \* and its bytes
  due,        \* it has ended and has not been executed
  reply,      \* the reply to it
  got,        \* the bytes of the current read
  executed    \* the last request executed: a bit that alternates, address, bytes

exchangeVars == <<phase, at, listen, to, request, due, reply, got, executed>>

InitialAddresses == (8 .. 15) \cap Addresses

Nowhere == <<0, FALSE>>

Init ==
  /\ phase = "idle"
  /\ at = Nowhere
  /\ listen = InitialAddresses
  /\ to = 0
  /\ request = << >>
  /\ due = FALSE
  /\ reply = << >>
  /\ got = << >>
  /\ executed = <<0, 0, << >> >>

\* What becomes of the last request: nothing any more, if it is not due.
Effects == IF due THEN BusCallback(to, request) ELSE {Nothing(reply)}

ListenAfter(e) ==
  CASE e.call = "none"                -> listen
    [] e.call = "BusSetDeviceAddress" -> {e.address} \cap Addresses
    [] OTHER                          -> InitialAddresses

Settle(e) ==
  /\ due' = FALSE
  /\ listen' = ListenAfter(e)
  /\ executed' = IF due THEN <<1 - executed[1], to, request>> ELSE executed

Execute ==
  /\ due
  /\ \E e \in Effects : Settle(e) /\ reply' = e.reply
  /\ UNCHANGED <<phase, at, to, request, got>>

\* What has been written so far is a request when the transaction ends, or
\* another one starts.
Ended == due' = (due \/ (phase = "write" /\ request # << >>))

Match(a, read) ==
  /\ phase \notin {"addressed", "hung"}
  /\ a \in listen \/ (a = 0 /\ ~ read)
  /\ phase' = "addressed"
  /\ at' = <<a, read>>
  /\ Ended
  /\ UNCHANGED <<listen, to, request, reply, got, executed>>

End ==
  /\ phase \in {"write", "read", "refused"}
  /\ phase' = "idle"
  /\ Ended
  /\ UNCHANGED <<at, listen, to, request, reply, got, executed>>

\* The last request has effect e, and then the address is answered.
Addressed(e) ==
  /\ phase = "addressed"
  /\ at' = Nowhere
  /\ Settle(e)

\* A new request takes the place of the old reply.
StartWrite(e) ==
  /\ Addressed(e)
  /\ ~ at[2] /\ e.call # "resetSystem"
  /\ phase' = "write"
  /\ to' = at[1]
  /\ request' = << >>
  /\ reply' = << >>
  /\ UNCHANGED got

StartRead(e) ==
  /\ Addressed(e)
  /\ at[2] /\ e.reply # << >>
  /\ phase' = "read"
  /\ got' = << >>
  /\ reply' = e.reply
  /\ UNCHANGED <<to, request>>

\* No reply to read, a reset, or, if it may be, no answer.
Refuse(e) ==
  /\ Addressed(e)
  /\ MayMiss \/ e.call = "resetSystem" \/ (at[2] /\ e.reply = << >>)
  /\ phase' = "refused"
  /\ reply' = e.reply
  /\ UNCHANGED <<to, request, got>>

\* The address was matched, and then the child changed the one it listens to.
Hang(e) ==
  /\ MayHang
  /\ Addressed(e)
  /\ e.call = "BusSetDeviceAddress"
  /\ phase' = "hung"
  /\ reply' = e.reply
  /\ UNCHANGED <<to, request, got>>

Write(b) ==
  /\ phase = "write"
  /\ request' = IF Len(request) < MAX_PACKET_LENGTH THEN Append(request, b) ELSE request
  /\ UNCHANGED <<phase, at, listen, to, due, reply, got, executed>>

Read ==
  /\ phase = "read"
  /\ IF Len(got) < Len(reply)
       THEN got' = Append(got, reply[Len(got) + 1]) /\ UNCHANGED phase
       ELSE got' = Append(got, Filler) /\ phase' \in {"read", "refused"}
  /\ UNCHANGED <<at, listen, to, request, due, reply, executed>>

\* Only switching the power off and on helps.
PowerCycle ==
  /\ phase = "hung"
  /\ phase' = "idle"
  /\ listen' = InitialAddresses
  /\ reply' = << >>
  /\ UNCHANGED <<at, to, request, due, got, executed>>

Next ==
  \/ Execute \/ Read \/ End \/ PowerCycle
  \/ \E a \in Addresses, read \in BOOLEAN : Match(a, read)
  \/ \E e \in Effects : StartWrite(e) \/ StartRead(e) \/ Refuse(e) \/ Hang(e)
  \/ \E b \in Bytes : Write(b)

\* What is promised of every step.
Safety == Init /\ [][Next]_exchangeVars

\* Every request is executed without another access by the master.
Spec == Safety /\ WF_exchangeVars(Execute)
=============================================================================
