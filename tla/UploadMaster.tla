----------------------------- MODULE UploadMaster -----------------------------
(***************************************************************************)
(* A master that uploads images over a bus that loses frames, to a child   *)
(* that may lose power: what both builds share.  The master sends one      *)
(* request at a time and follows PROTOCOL.md.  A request that gets no      *)
(* readable reply is repeated (on I2C a reply can also be read again,      *)
(* which changes nothing here); when the repeated request was a            *)
(* WRITE_FLASH and the answer is INVALID_ARGUMENTS, the first one must     *)
(* have arrived, and it goes on.  After the last byte comes                *)
(* FINALIZE_FLASH.  A child that restarts forgets its address and does not *)
(* answer any more; the master gives up, and finds it again when the       *)
(* machine starts the next time and an image is uploaded, the same or      *)
(* another one.                                                            *)
(*                                                                         *)
(* The master is write_flash of the test sketch, with the retries that     *)
(* PROTOCOL.md asks for and the sketch, which stops at any failure, does   *)
(* not do.                                                                 *)
(***************************************************************************)
EXTENDS WriteFlash

CONSTANTS
  ImageSize,  \* bytes of an image that are uploaded
  MaxCuts     \* most power cuts

ASSUME UploadAssumption ==
  /\ ImageSize \in 1 .. ADDR - 1
  /\ MaxCuts \in Nat

VARIABLES
  outcome,    \* of the upload: "running", "done" or "failed"
  image,      \* what the master wants in flash
  position,   \* bytes the master believes to have arrived
  request,    \* what it is asking: [cmd, at, count]
  repeated,   \* it has sent this request before
  frame,      \* where the exchange is: "none", on the wire as a "request",
              \* with the "child", back as a "reply", or "lost"
  known,      \* the child has the address the master uses
  cuts,       \* power cuts so far
  uploaded    \* history: the image last uploaded, if no other was begun since

master == <<outcome, image, position, request, repeated, frame, known, cuts, uploaded>>

NoRequest == [cmd |-> "none", at |-> 0, count |-> 0]

Requests ==
  IF position < ImageSize
    THEN { [cmd |-> "WRITE_FLASH", at |-> position, count |-> n] :
             n \in { k \in 1 .. MaxData : position + k <= ImageSize } }
    ELSE { [cmd |-> "FINALIZE_FLASH", at |-> 0, count |-> 0] }

MasterInit ==
  /\ outcome = "running"
  /\ image \in Images
  /\ position = 0
  /\ request = NoRequest
  /\ repeated = FALSE
  /\ frame = "none"
  /\ known = TRUE
  /\ cuts = 0
  /\ uploaded = {}

MasterSends ==
  /\ outcome = "running" /\ frame = "none"
  /\ request' \in Requests
  /\ repeated' = FALSE
  /\ frame' = "request"
  /\ UNCHANGED <<outcome, image, position, known, cuts, uploaded>>

\* The request arrives, and processCommand starts on it.
ChildReceives ==
  /\ frame = "request" /\ known
  /\ frame' = "child"
  /\ UNCHANGED <<outcome, image, position, request, repeated, known, cuts, uploaded>>

ChildReplies ==
  /\ frame = "child" /\ pc = "idle"
  /\ frame' = "reply"
  /\ UNCHANGED <<outcome, image, position, request, repeated, known, cuts, uploaded>>

\* Noise: the receiver sees a wrong CRC.  A request is not executed; on I2C the
\* reply says so, on RS485 there is none.
FrameLost ==
  /\ frame \in {"request", "reply"}
  /\ frame' = "lost"
  /\ UNCHANGED <<outcome, image, position, request, repeated, known, cuts, uploaded>>

MasterRepeats ==
  /\ frame = "lost" /\ known
  /\ frame' = "request"
  /\ repeated' = TRUE
  /\ UNCHANGED <<outcome, image, position, request, known, cuts, uploaded>>

\* No reply, however often the request is repeated.
MasterGivesUp ==
  /\ frame \in {"request", "lost"} /\ ~ known
  /\ outcome' = "failed"
  /\ frame' = "none"
  /\ request' = NoRequest /\ repeated' = FALSE
  /\ UNCHANGED <<image, position, known, cuts, uploaded>>

Arrived ==
  \/ reply.status = "OK"
  \/ request.cmd = "WRITE_FLASH" /\ reply.status = "INVALID_ARGUMENTS" /\ repeated

MasterReceives ==
  /\ frame = "reply"
  /\ frame' = "none"
  /\ request' = NoRequest /\ repeated' = FALSE
  /\ position' = IF Arrived THEN position + request.count ELSE position
  /\ outcome' = IF ~ Arrived THEN "failed"
                ELSE IF request.cmd = "FINALIZE_FLASH" THEN "done"
                ELSE "running"
  /\ uploaded' = IF outcome' = "done" THEN {image} ELSE uploaded
  /\ UNCHANGED <<image, known, cuts>>

\* The next start of the machine: the child gets an address again.
MasterStarts ==
  /\ outcome # "running"
  /\ outcome' = "running"
  /\ image' \in Images
  /\ position' = 0
  /\ known' = TRUE
  /\ uploaded' = uploaded \cap {image'}
  /\ UNCHANGED <<request, repeated, frame, cuts>>

\* The child loses power, or the watchdog or a fault resets it.
ChildRestarts ==
  /\ cuts < MaxCuts
  /\ cuts' = cuts + 1
  /\ known' = FALSE
  /\ frame' = IF frame = "none" THEN "none" ELSE "lost"
  /\ UNCHANGED <<outcome, image, position, request, repeated, uploaded>>

\* What changes nothing in the child.
MasterStep ==
  MasterSends \/ ChildReplies \/ FrameLost \/ MasterRepeats \/ MasterGivesUp \/ MasterReceives

-----------------------------------------------------------------------------
MasterTypeOK ==
  /\ outcome \in {"running", "done", "failed"}
  /\ image \in Images
  /\ position \in 0 .. ImageSize
  /\ request \in [cmd : {"none", "WRITE_FLASH", "FINALIZE_FLASH"}, at : Addr, count : 0 .. MaxData]
  /\ repeated \in BOOLEAN
  /\ frame \in {"none", "request", "child", "reply", "lost"}
  /\ known \in BOOLEAN
  /\ cuts \in 0 .. MaxCuts
  /\ uploaded \subseteq Images

\* The image can be read from flash, by the readByte of a build.
InFlash(readByte) == \A i \in 0 .. ImageSize - 1 : readByte[AppAddress(i)] = image[i]
=============================================================================
