------------------------------ MODULE Enumeration ------------------------------
(***************************************************************************)
(* The master enumerates the children on the bus of ChildBus with their    *)
(* child select pins, as PROTOCOL.md describes: a general call reset, then *)
(* for every connector: select it, see whether a child responds to an      *)
(* initial address, give the child an address of its own, ask for its      *)
(* connectors, and deselect.  A request that gets no reply is repeated.    *)
(* After it, applications may be started, and the master may restart.      *)
(*                                                                         *)
(* The master is no part of the repository: it does what PROTOCOL.md asks. *)
(* Its timeout may be too short for a reply.                               *)
(***************************************************************************)
EXTENDS ChildBus

CONSTANTS
  MasterPins,        \* the select pins of the master
  Pool,              \* the addresses the master gives out
  InitialAddress,    \* the initial address it uses
  ShortAddresses,    \* the addresses that noise frames seem to have
  MaxTries           \* how often it sends a request before it gives up

ASSUME EnumerationAssumption ==
  /\ MasterPins \subseteq Nat
  /\ Pool \subseteq 1 .. 255
  /\ Pool \cap InitialAddresses = {}
  /\ InitialAddress \in InitialAddresses
  /\ ShortAddresses \subseteq Nat
  /\ MaxTries \in Nat \ {0}

\* The children form a tree below the pins the master uses, and there is an
\* address for each of them.
ASSUME TreeAssumption ==
  /\ \A c \in Children : Plug[c][1] = Master => Plug[c][2] \in MasterPins
  /\ \A S \in SUBSET Children : S # {} => \E c \in S : Plug[c][1] \notin S
  /\ IsFiniteSet(Children) /\ Cardinality(Children) <= Cardinality(Pool)

VARIABLES
  step,        \* what the master is doing
  connector,   \* for which connector <<address, index>>; address 0 for its own
  open,        \* the connectors it has still to look at
  addressOf,   \* the addresses it gave, by connector
  tries,       \* how often it has sent the request of this step, looks apart
  asking       \* it waits for a reply

masterVars == <<step, connector, open, addressOf, tries, asking>>
enumVars == <<busVars, masterVars>>

NoConnector == <<0, 0>>

\* Addresses given out, and the next one.
Given == { addressOf[k] : k \in DOMAIN addressOf }
NewAddress == CHOOSE a \in Pool : a \notin Given

RequestFrame ==
  CASE step = "reset"    -> Frame(Master, 0, RESET, << >>)
    [] step = "select"   -> Frame(Master, connector[1], SET_CHILD_SELECT, <<connector[2], 1>>)
    [] step = "discover" -> Frame(Master, InitialAddress, GET_PROTOCOL_VERSION, << >>)
    [] step = "assign"   -> Frame(Master, InitialAddress, SET_ADDRESS, <<NewAddress, 0>>)
    [] step = "look"     -> Frame(Master, NewAddress, GET_PROTOCOL_VERSION, << >>)
    [] step = "count"    -> Frame(Master, addressOf[connector], GET_NUM_CHILDREN, << >>)
    [] step = "deselect" -> Frame(Master, connector[1], SET_CHILD_SELECT, <<connector[2], 0>>)

\* Its own pins need no request.
OwnPin == step \in {"select", "deselect"} /\ connector[1] = 0

Quiet == hearers = {} /\ Talkers = {}

Send(frame) ==
  /\ wire' = frame
  /\ hearers' = Children
  /\ UNCHANGED <<childVars, masterPins, losses>>

GoTo(next) ==
  /\ step' = next
  /\ tries' = 0
  /\ asking' = FALSE

-----------------------------------------------------------------------------
MasterAsks ==
  /\ step \notin {"pick", "done", "failed"} /\ ~ OwnPin
  /\ Quiet /\ ~ asking
  /\ step = "look" \/ tries < MaxTries
  /\ Send(RequestFrame)
  /\ tries' = IF step = "look" THEN tries ELSE tries + 1
  /\ asking' = (step # "reset")
  /\ UNCHANGED <<step, connector, open, addressOf>>

\* General calls get no reply: the reset is just sent several times.
ResetDone ==
  /\ step = "reset" /\ tries = MaxTries /\ Quiet
  /\ GoTo("pick")
  /\ open' = { <<0, i>> : i \in MasterPins }
  /\ addressOf' = << >>
  /\ UNCHANGED <<connector, busVars>>

Pick ==
  /\ step = "pick"
  /\ IF open = {}
       THEN GoTo("done") /\ UNCHANGED <<connector, open>>
       ELSE \E k \in open :
              /\ connector' = k
              /\ open' = open \ {k}
              /\ GoTo("select")
  /\ UNCHANGED <<addressOf, busVars>>

SwitchOwnPin ==
  /\ OwnPin
  /\ IF step = "select"
       THEN masterPins' = masterPins \cup {connector[2]} /\ GoTo("discover")
       ELSE masterPins' = masterPins \ {connector[2]} /\ GoTo("pick")
  /\ UNCHANGED <<connector, open, addressOf, childVars, wireVars>>

\* What a reply means for the step that asked for it.
Answered(results) ==
  CASE step = "select"   -> GoTo("discover") /\ UNCHANGED <<open, addressOf>>
    [] step = "discover" -> GoTo("assign") /\ UNCHANGED <<open, addressOf>>
    [] step \in {"assign", "look"} ->
         /\ GoTo("count")
         /\ addressOf' = [k \in DOMAIN addressOf \cup {connector} |->
                           IF k = connector THEN NewAddress ELSE addressOf[k]]
         /\ UNCHANGED open
    [] step = "count" ->
         /\ GoTo("deselect")
         /\ open' = open \cup { <<addressOf[connector], i>> : i \in 0 .. results[2] - 1 }
         /\ UNCHANGED addressOf
    [] step = "deselect" -> GoTo("pick") /\ UNCHANGED <<open, addressOf>>

MasterHears ==
  /\ Heard(Master)
  /\ IF asking /\ wire.address = RequestFrame.address /\ wire.code = COMMAND_OK
       THEN Answered(wire.data) /\ UNCHANGED connector
       ELSE UNCHANGED masterVars
  /\ UNCHANGED <<childVars, masterPins, losses>>

\* No reply: once more, or give up.  After SET_ADDRESS it looks at the new
\* address first, as PROTOCOL.md says for I2C only: without that it could not
\* go on when the reply is lost, as the child ignores the old address.
MasterTimesOut ==
  /\ asking /\ Quiet
  /\ asking' = FALSE
  /\ IF step = "assign"
       THEN step' = "look" /\ UNCHANGED tries
     ELSE IF tries < MaxTries
       THEN step' = (IF step = "look" THEN "assign" ELSE step) /\ UNCHANGED tries
     ELSE /\ step' = IF step = "discover" THEN "deselect" ELSE "failed"
          /\ tries' = 0
  /\ UNCHANGED <<connector, open, addressOf, busVars>>

\* The reply is late: the master repeats the request, or looks, before the
\* reply comes.  The child that works on the first one does not hear the second,
\* and replies behind it; or both are sent at once, and two frames are lost.
MasterIsTooEarly ==
  /\ asking /\ hearers = {} /\ Talkers # {}
  /\ IF step = "assign"
       THEN step' = "look" /\ UNCHANGED tries
       ELSE /\ tries < MaxTries
            /\ step' = IF step = "look" THEN "assign" ELSE step
            /\ tries' = tries + 1
  /\ UNCHANGED <<connector, open, addressOf, asking>>
  /\ \/ /\ losses' = losses + 1
        /\ wire' = RequestFrame' /\ hearers' = Children
        /\ UNCHANGED pending
     \/ /\ losses' = losses + 2
        /\ pending' = [c \in Children |-> NoFrame]
        /\ UNCHANGED <<wire, hearers>>
  /\ losses' <= MaxLosses
  /\ UNCHANGED <<configuredAddress, mode, childPins, masterPins>>

\* After the enumeration: START_APPLICATION gets no reply.
MasterStartsApplication ==
  /\ step = "done" /\ Quiet
  /\ \E a \in Given : Send(Frame(Master, a, START_APPLICATION, << >>))
  /\ UNCHANGED masterVars

\* The master restarts, the children do not; its pins float until it drives
\* them.  It may have sent a general call to reset the addresses.
MasterRestarts ==
  /\ step \in {"done", "failed"} /\ Quiet
  /\ \/ UNCHANGED <<wire, hearers>>
     \/ wire' = Frame(Master, 0, RESET_ADDRESS, << >>) /\ hearers' = Children
  /\ GoTo("reset")
  /\ masterPins' = {}
  /\ losses' = 0
  /\ connector' = NoConnector
  /\ open' = {}
  /\ addressOf' = << >>
  /\ UNCHANGED childVars

\* Noise that looks like a byte or two, ended by silence.  Not before the
\* reset: several children could have the same address then.
Noise ==
  /\ Quiet /\ step # "reset"
  /\ losses < MaxLosses
  /\ losses' = losses + 1
  /\ wire' \in { ShortFrame(a) : a \in ShortAddresses }
  /\ hearers' = Children
  /\ UNCHANGED <<childVars, masterPins, masterVars>>

\* When the master starts, the children are in any state.
EnumInit ==
  /\ configuredAddress \in [Children -> {0} \cup Pool]
  /\ mode \in [Children -> {"bootloader", "application"}]
  /\ \E asserting \in SUBSET Children :
       childPins = [c \in Children |-> IF c \in asserting THEN 0 .. NumChildren[c] - 1 ELSE {}]
  /\ masterPins = {}
  /\ pending = [c \in Children |-> NoFrame]
  /\ wire = NoFrame
  /\ hearers = {}
  /\ losses = 0
  /\ step = "reset"
  /\ connector = NoConnector
  /\ open = {}
  /\ addressOf = << >>
  /\ tries = 0
  /\ asking = FALSE

MasterStep ==
  \/ MasterAsks \/ ResetDone \/ Pick \/ SwitchOwnPin \/ MasterHears \/ MasterTimesOut

Next ==
  \/ MasterStep
  \/ MasterIsTooEarly \/ MasterStartsApplication \/ MasterRestarts \/ Noise
  \/ \E c \in Children : (ChildStep(c) \/ Transmit(c)) /\ UNCHANGED masterVars
  \/ \E h \in Children \cup {Master} : Lose(h) /\ UNCHANGED masterVars

\* Every child polls its bus, and the master goes on.
Fairness ==
  /\ WF_enumVars(MasterStep)
  /\ \A c \in Children : WF_enumVars((ChildStep(c) \/ Transmit(c)) /\ UNCHANGED masterVars)

Spec == EnumInit /\ [][Next]_enumVars /\ Fairness

-----------------------------------------------------------------------------
\* The type invariant.
EnumTypeOK ==
  /\ BusTypeOK
  /\ step \in {"reset", "pick", "select", "discover", "assign", "look", "count",
               "deselect", "done", "failed"}
  /\ Given \subseteq Pool
  /\ tries \in 0 .. MaxTries
  /\ asking \in BOOLEAN

\* The children that reply to a request, and not to noise: no request of the
\* master is short.
Repliers == { c \in Talkers : pending[c].code # INVALID_TRANSFER }

\* No two children ever want to reply to the master at the same time, whatever
\* state they were in when it started and whichever frames were lost.
OneTalker == Cardinality(Repliers) <= 1

\* The reply of a child never makes another one reply, although its status
\* could be read as a command.
RepliesToMasterOnly ==
  [][\A c \in Children : pending[c] = NoFrame /\ pending'[c] # NoFrame =>
       wire.from = Master]_enumVars

ConnectorOf(c) ==
  LET parent == Plug[c][1]
  IN  <<IF parent = Master THEN 0 ELSE configuredAddress[parent], Plug[c][2]>>

\* At the end the master's map is right: every child is at the address the map
\* gives for its connector, and no connector without a child is in the map.
MapRight ==
  step = "done" =>
    /\ DOMAIN addressOf = { ConnectorOf(c) : c \in Children }
    /\ \A c \in Children : addressOf[ConnectorOf(c)] = configuredAddress[c]
    /\ Cardinality(Given) = Cardinality(Children)

\* Every enumeration ends.
EnumerationEnds == (step = "reset") ~> (step = "done")
=============================================================================
