-------------------------- MODULE Enumeration_proofs --------------------------
(***************************************************************************)
(* Proofs about ChildBus and Enumeration, for any tree of children, any    *)
(* numbers of connectors, any state the children are in at first, and any  *)
(* number of frames that are lost, as long as the master repeats a request *)
(* more often than that.                                                   *)
(***************************************************************************)
EXTENDS Enumeration, FiniteSetTheorems, TLAPS

\* Otherwise all of the resets may be lost.
Persistent == MaxLosses < MaxTries

-----------------------------------------------------------------------------
(***************************************************************************)
(* Where a child is.                                                       *)
(***************************************************************************)
\* The parent of c has an address.
Reached(c) == Plug[c][1] = Master \/ configuredAddress[Plug[c][1]] # 0

\* c is on the connector the master is looking at.
Here(c) == Reached(c) /\ ConnectorOf(c) = connector

Visiting == step \in {"select", "discover", "assign", "look", "count", "deselect"}
Occupied == step \in {"assign", "look", "count"}
Assigning == step \in {"assign", "look"}

(***************************************************************************)
(* Types.                                                                  *)
(***************************************************************************)
Steps == {"reset", "pick", "select", "discover", "assign", "look", "count", "deselect",
          "done", "failed"}

ChildTypes ==
  /\ configuredAddress \in [Children -> {0} \cup Pool]
  /\ mode \in [Children -> {"bootloader", "application"}]
  /\ childPins \in [Children -> SUBSET Nat]
  /\ \A c \in Children : childPins[c] \subseteq 0 .. NumChildren[c] - 1
  /\ masterPins \subseteq Nat

WireTypes ==
  /\ pending \in [Children -> Frames \cup {NoFrame}]
  /\ \A c \in Children : pending[c] = NoFrame \/ pending[c].from = c
  /\ wire \in Frames \cup {NoFrame}
  /\ hearers \subseteq Children \cup {Master}
  /\ hearers # {} => wire # NoFrame
  /\ losses \in 0 .. MaxLosses

MasterTypes ==
  /\ step \in Steps
  /\ connector \in Nat \X Nat /\ open \subseteq Nat \X Nat
  /\ Given \subseteq Pool
  /\ tries \in 0 .. MaxTries

Types == ChildTypes /\ WireTypes /\ MasterTypes /\ asking \in BOOLEAN

(***************************************************************************)
(* The reset: a child has taken it, or there are losses for every one that *)
(* it missed.                                                              *)
(***************************************************************************)
ResetFrame == Frame(Master, 0, RESET, << >>)
ResetAddressFrame == Frame(Master, 0, RESET_ADDRESS, << >>)

Fresh(c) == configuredAddress[c] = 0 /\ mode[c] = "bootloader" /\ childPins[c] = {}

Resetting ==
  /\ ~ asking /\ masterPins = {} /\ Talkers = {} /\ hearers \subseteq Children
  /\ hearers # {} => wire \in {ResetFrame, ResetAddressFrame}
  /\ \A c \in Children :
       \/ Fresh(c)
       \/ tries <= losses
       \/ c \in hearers /\ wire = ResetFrame /\ tries <= losses + 1

(***************************************************************************)
(* The enumeration: the children.                                          *)
(***************************************************************************)
\* No two children have the same address, a child has one only if its parent
\* has, and a child without one selects nobody.
Addresses ==
  /\ \A c, d \in Children :
       configuredAddress[c] = configuredAddress[d] /\ configuredAddress[c] # 0 => c = d
  /\ \A c \in Children : configuredAddress[c] # 0 => Reached(c)
  /\ \A c \in Children : configuredAddress[c] = 0 => childPins[c] = {}
  /\ \A c \in Children : step # "done" => mode[c] = "bootloader"

\* The map is right about the children that have an address, but for one
\* whose reply to SET_ADDRESS the master has not heard.
Mapped ==
  \A c \in Children : configuredAddress[c] # 0 =>
    IF Assigning /\ Here(c)
      THEN configuredAddress[c] = NewAddress
      ELSE ConnectorOf(c) \in DOMAIN addressOf /\ addressOf[ConnectorOf(c)] = configuredAddress[c]

Known ==
  \A k \in DOMAIN addressOf : \E c \in Children :
    /\ configuredAddress[c] # 0 /\ ConnectorOf(c) = k /\ addressOf[k] = configuredAddress[c]

\* There is such a connector.
Place(k) ==
  \/ k[1] = 0 /\ k[2] \in MasterPins
  \/ \E p \in Children : /\ k[1] = configuredAddress[p] /\ k[1] # 0
                         /\ k[2] \in 0 .. NumChildren[p] - 1

\* Nobody has an address on the connectors still to be looked at, which are none
\* of the child just found.  At the end there are none.
Ahead ==
  /\ step = "done" => open = {}
  /\ \A k \in open :
       /\ Place(k)
       /\ \A c \in Children : configuredAddress[c] # 0 => ConnectorOf(c) # k
       /\ Visiting => k # connector
       /\ Occupied => \A c \in Children :
            Here(c) /\ configuredAddress[c] # 0 => k[1] # configuredAddress[c]

\* The connector at hand: when a child was found there, its own connectors have
\* not been looked at.
AtHand ==
  /\ Visiting => Place(connector)
  /\ step \in {"select", "discover"} =>
       \A c \in Children : configuredAddress[c] # 0 => ConnectorOf(c) # connector
  /\ Occupied =>
       /\ \E c \in Children : Here(c)
       /\ \A c, d \in Children : Here(c) /\ Plug[d][1] = c => configuredAddress[d] = 0
  /\ step = "count" => connector \in DOMAIN addressOf
  /\ Assigning => connector \notin DOMAIN addressOf /\ NewAddress \in Pool \ Given

\* No pin is asserted but that of the connector at hand.
PinsOnly ==
  /\ \A i \in masterPins : Visiting /\ connector = <<0, i>>
  /\ \A p \in Children : \A i \in childPins[p] : Visiting /\ connector = <<configuredAddress[p], i>>

PinOn ==
  step \in {"discover", "assign", "look", "count"} =>
    /\ connector[1] = 0 => connector[2] \in masterPins
    /\ \A p \in Children :
         configuredAddress[p] = connector[1] /\ connector[1] # 0 => connector[2] \in childPins[p]

\* No child is forgotten.
Covered ==
  \A c \in Children : Reached(c) /\ configuredAddress[c] = 0 =>
    \/ ConnectorOf(c) \in open
    \/ Here(c) /\ step \in {"select", "discover", "assign", "look"}
    \/ Occupied /\ Plug[c][1] # Master /\ Here(Plug[c][1])

(***************************************************************************)
(* The enumeration: frames.                                                *)
(***************************************************************************)
\* The master's request is for c.
Asked(c) ==
  \/ step \in {"select", "deselect"} /\ configuredAddress[c] = connector[1] /\ connector[1] # 0
  \/ step \in {"discover", "assign", "look", "count"} /\ Here(c)

\* f is a reply of c that no other child takes for a request.
ReplyOf(c, f) ==
  /\ f.from = c /\ ~ f.short /\ f.code \in {COMMAND_OK, INVALID_TRANSFER}
  /\ \/ f.address = 0 /\ f.code = INVALID_TRANSFER /\ f.data # << >>
     \/ f.address = configuredAddress[c] /\ f.address # 0
     \/ /\ f.address \in InitialAddresses /\ Here(c)
        /\ step \in {"select", "discover", "assign", "look", "count"}

\* OK means that what the master asks for has been done.
Truthful(c, f) ==
  f.code = COMMAND_OK =>
    /\ asking /\ Asked(c)
    /\ step = "select" => connector[2] \in childPins[c]
    /\ step = "deselect" => connector[2] \notin childPins[c]
    /\ Assigning => configuredAddress[c] = NewAddress
    /\ step = "count" => f.data[2] = NumChildren[c]

FromMaster ==
  /\ wire.from = Master /\ hearers \subseteq Children
  /\ \/ asking /\ wire = RequestFrame
     \/ \E a \in ShortAddresses : wire = ShortFrame(a)
     \/ step = "done" /\ \E a \in Given : wire = Frame(Master, a, START_APPLICATION, << >>)

FromChild ==
  /\ wire.from \in Children /\ wire.from \notin hearers /\ Talkers = {}
  /\ ReplyOf(wire.from, wire)
  /\ Master \in hearers => Truthful(wire.from, wire)

Traffic ==
  /\ hearers # {} => FromMaster \/ FromChild
  /\ \A c \in Talkers : ReplyOf(c, pending[c]) /\ Truthful(c, pending[c])
  /\ asking => Visiting /\ ~ OwnPin

(***************************************************************************)
(* Why the master does not give up: every request that fails has cost a    *)
(* loss.                                                                   *)
(***************************************************************************)
Noisy ==
  \/ hearers # {} /\ wire.from = Master /\ wire.short
  \/ \E c \in Talkers : pending[c].code = INVALID_TRANSFER

\* The request, or the reply to it, is on its way.
AliveFor(t) ==
  \/ wire = RequestFrame /\ t \in hearers /\ pending[t] = NoFrame
  \/ /\ pending[t] # NoFrame /\ pending[t].code = COMMAND_OK
     /\ pending[t].address = RequestFrame.address
  \/ /\ Master \in hearers /\ wire.from = t /\ wire.code = COMMAND_OK
     /\ wire.address = RequestFrame.address

Alive == \E t \in Children : Asked(t) /\ AliveFor(t)

Taken == \E t \in Children : Here(t) /\ configuredAddress[t] # 0

Hope ==
  /\ step = "assign" => asking /\ (Alive \/ Taken)
  /\ step = "look" => Taken /\ (asking => Alive)
  /\ ~ Assigning => asking /\ Alive

Budget ==
  Visiting /\ (step = "discover" => \E c \in Children : Here(c)) =>
    tries <= losses \/ (tries <= losses + 1 /\ Hope /\ ~ Noisy)

Map == Addresses /\ Mapped /\ Known /\ Ahead /\ AtHand /\ PinsOnly /\ PinOn /\ Covered

Running == step # "failed" /\ Map /\ Traffic /\ Budget

IInv ==
  /\ Types
  /\ step = "reset" => Resetting
  /\ step # "reset" => Running

-----------------------------------------------------------------------------
(***************************************************************************)
(* The numbers, and the place of a child.                                  *)
(***************************************************************************)
LEMMA Numbers ==
  /\ MaxLosses \in Nat /\ MaxTries \in Nat /\ MaxTries >= 1
  /\ \A a \in Pool : a \in Nat /\ a # 0 /\ a <= 255 /\ a \notin InitialAddresses
  /\ InitialAddress \in InitialAddresses
  /\ \A a \in InitialAddresses : a \in Nat /\ a # 0
<1>1. MaxLosses \in Nat /\ MaxTries \in Nat /\ MaxTries >= 1
  BY ChildBusAssumption, EnumerationAssumption
<1>2. \A a \in Pool : a \in Nat /\ a # 0 /\ a <= 255 /\ a \notin InitialAddresses
  BY EnumerationAssumption
<1>3. \A a \in InitialAddresses : a \in Nat /\ a # 0
  BY ChildBusAssumption
<1>4. QED
  BY <1>1, <1>2, <1>3, EnumerationAssumption

LEMMA Plugs ==
  ASSUME NEW c \in Children
  PROVE  /\ Plug[c][1] \in Children \cup {Master} /\ Plug[c][2] \in Nat
         /\ Plug[c] = <<Plug[c][1], Plug[c][2]>>
         /\ Plug[c][1] # Master => Plug[c][1] \in Children /\ Plug[c][2] < NumChildren[Plug[c][1]]
         /\ Plug[c][1] # c
         /\ NumChildren[c] \in Nat /\ HwType[c] \in Nat /\ HwType[c] # 0
<1>1. Plug[c] \in (Children \cup {Master}) \X Nat
  BY ChildBusAssumption
<1>2. Plug[c][1] # c
  <2>1. {c} \in SUBSET Children /\ {c} # {}
    OBVIOUS
  <2>2. \E d \in {c} : Plug[d][1] \notin {c}
    BY <2>1, TreeAssumption
  <2>3. QED
    BY <2>2
<1>3. QED
  BY <1>1, <1>2, ChildBusAssumption

\* No two children that are reached are on one connector.
LEMMA OnePerConnector ==
  ASSUME Types, Addresses, NEW c \in Children, NEW d \in Children,
         Reached(c), Reached(d), ConnectorOf(c) = ConnectorOf(d)
  PROVE  c = d
<1>1. /\ (IF Plug[c][1] = Master THEN 0 ELSE configuredAddress[Plug[c][1]])
           = (IF Plug[d][1] = Master THEN 0 ELSE configuredAddress[Plug[d][1]])
      /\ Plug[c][2] = Plug[d][2]
  BY DEF ConnectorOf
<1>2. Plug[c][1] = Plug[d][1]
  BY <1>1, Plugs DEF Reached, Addresses
<1>3. Plug[c] = Plug[d]
  BY <1>1, <1>2, Plugs
<1>4. QED
  BY <1>3, ChildBusAssumption

\* A child without an address that is selected is on the connector at hand.
LEMMA SelectedHere ==
  ASSUME Types, Addresses, PinsOnly, NEW c \in Children, Selected(c)
  PROVE  Visiting /\ Here(c)
<1>1. CASE Plug[c][1] = Master
  BY <1>1 DEF Selected, PinsOnly, Here, Reached, ConnectorOf
<1>2. CASE Plug[c][1] # Master
  <2>1. Plug[c][1] \in Children /\ Plug[c][2] \in childPins[Plug[c][1]]
    BY <1>2, Plugs DEF Selected
  <2>2. Visiting /\ connector = <<configuredAddress[Plug[c][1]], Plug[c][2]>>
    BY <2>1 DEF PinsOnly
  <2>3. configuredAddress[Plug[c][1]] # 0
    BY <2>1 DEF Addresses
  <2>4. QED
    BY <1>2, <2>2, <2>3 DEF Here, Reached, ConnectorOf
<1>3. QED
  BY <1>1, <1>2

\* Who acts on a frame with an address.
LEMMA WhoActs ==
  ASSUME Types, Addresses, PinsOnly, NEW c \in Children, Addressed(c), wire.address # 0
  PROVE  \/ configuredAddress[c] = wire.address
         \/ /\ configuredAddress[c] = 0 /\ wire.address \in InitialAddresses
            /\ Visiting /\ Here(c)
BY SelectedHere DEF Addressed, matchAddress, shouldRespondToAddress

-----------------------------------------------------------------------------
(***************************************************************************)
(* Frames.                                                                 *)
(***************************************************************************)
\* What a reply looks like.
LEMMA ReplyFields ==
  ASSUME NEW c \in Children, NEW a \in Nat, NEW s \in Nat, NEW r \in Seq(Nat),
         NEW f, f = ReplyFrame(c, a, Result(s, r))
  PROVE  /\ f \in Frames /\ f # NoFrame
         /\ f.from = c /\ f.address = a /\ f.code = s /\ ~ f.short
         /\ f.data # << >>
<1> DEFINE d == <<Len(r)>> \o r
<1>1. d \in Seq(Nat) /\ d # << >>
  <2>1. <<Len(r)>> \in Seq(Nat) /\ Len(<<Len(r)>>) = 1
    OBVIOUS
  <2>2. d \in Seq(Nat) /\ Len(d) = 1 + Len(r) /\ Len(r) \in Nat
    BY <2>1
  <2>3. Len(<< >>) = 0
    OBVIOUS
  <2> HIDE DEF d
  <2>4. d # << >>
    BY <2>2, <2>3
  <2>5. QED
    BY <2>2, <2>4
<1> HIDE DEF d
<1>2. f = [from |-> c, address |-> a, code |-> s, data |-> d, short |-> FALSE]
  BY DEF ReplyFrame, Result, Frame, d
<1>3. f \in Frames
  BY <1>1, <1>2 DEF Frames
<1>4. f.from = c /\ f.address = a /\ f.code = s /\ ~ f.short /\ f.data = d
  BY <1>2
<1>5. f # NoFrame
  BY <1>3, ChildBusAssumption
<1>6. QED
  BY <1>1, <1>3, <1>4, <1>5

LEMMA ReplyOfCount ==
  ASSUME NEW c, NEW a, NEW s, NEW n \in Nat, NEW f, f = ReplyFrame(c, a, Result(s, <<n>>))
  PROVE  f.data[2] = n
<1>1. f.data = <<Len(<<n>>)>> \o <<n>>
  BY DEF ReplyFrame, Result, Frame
<1>2. QED
  BY <1>1

LEMMA MasterFrame ==
  ASSUME NEW a \in Nat, NEW n \in Nat, NEW d \in Seq(Nat), NEW f, f = Frame(Master, a, n, d)
  PROVE  f \in Frames /\ f # NoFrame /\ f.from = Master /\ ~ f.short
<1>1. f \in Frames
  BY DEF Frame, Frames
<1>2. QED
  BY <1>1, ChildBusAssumption DEF Frame

\* The requests.
LEMMA RequestFields ==
  ASSUME Types, Running, Visiting, ~ OwnPin
  PROVE  /\ RequestFrame \in Frames /\ RequestFrame # NoFrame
         /\ RequestFrame.from = Master /\ ~ RequestFrame.short
         /\ RequestFrame.address # 0
<1>1. ASSUME NEW a \in Nat, NEW n \in Nat, NEW d \in Seq(Nat)
      PROVE  Frame(Master, a, n, d) \in Frames /\ Frame(Master, a, n, d) # NoFrame
  <2>1. Frame(Master, a, n, d) \in Frames
    BY DEF Frame, Frames
  <2>2. QED
    BY <2>1, ChildBusAssumption
<1>2. connector[1] \in Nat /\ connector[2] \in Nat
  BY DEF Types, ChildTypes, WireTypes, MasterTypes
<1>3. /\ Assigning => NewAddress \in Nat /\ NewAddress # 0
      /\ step = "count" => addressOf[connector] \in Nat /\ addressOf[connector] # 0
  BY Numbers DEF Types, ChildTypes, WireTypes, MasterTypes, Running, Map, AtHand, Given, Assigning
<1>4. InitialAddress \in Nat /\ InitialAddress # 0
  BY Numbers
<1>5. /\ \A i \in Nat : <<i, 1>> \in Seq(Nat) /\ <<i, 0>> \in Seq(Nat)
      /\ << >> \in Seq(Nat)
  OBVIOUS
<1>6. /\ SET_CHILD_SELECT \in Nat /\ GET_PROTOCOL_VERSION \in Nat /\ SET_ADDRESS \in Nat
      /\ GET_NUM_CHILDREN \in Nat
  BY DEF SET_CHILD_SELECT, GET_PROTOCOL_VERSION, SET_ADDRESS, GET_NUM_CHILDREN
<1>7. CASE step \in {"select", "deselect"}
  <2>1. connector[1] # 0
    BY <1>7 DEF OwnPin
  <2>2. RequestFrame = Frame(Master, connector[1], SET_CHILD_SELECT,
                             <<connector[2], IF step = "select" THEN 1 ELSE 0>>)
    BY <1>7 DEF RequestFrame
  <2>3. QED
    BY <1>1, <1>2, <1>5, <1>6, <1>7, <2>1, <2>2 DEF Frame
<1>8. CASE step = "discover"
  <2>1. RequestFrame = Frame(Master, InitialAddress, GET_PROTOCOL_VERSION, << >>)
    BY <1>8 DEF RequestFrame
  <2>2. QED
    BY <1>1, <1>4, <1>5, <1>6, <2>1 DEF Frame
<1>9. CASE step = "assign"
  <2>1. RequestFrame = Frame(Master, InitialAddress, SET_ADDRESS, <<NewAddress, 0>>)
    BY <1>9 DEF RequestFrame
  <2>2. QED
    BY <1>1, <1>3, <1>4, <1>5, <1>6, <1>9, <2>1 DEF Frame, Assigning
<1>10. CASE step = "look"
  <2>1. RequestFrame = Frame(Master, NewAddress, GET_PROTOCOL_VERSION, << >>)
    BY <1>10 DEF RequestFrame
  <2>2. QED
    BY <1>1, <1>3, <1>5, <1>6, <1>10, <2>1 DEF Frame, Assigning
<1>11. CASE step = "count"
  <2>1. RequestFrame = Frame(Master, addressOf[connector], GET_NUM_CHILDREN, << >>)
    BY <1>11 DEF RequestFrame
  <2>2. QED
    BY <1>1, <1>3, <1>5, <1>6, <1>11, <2>1 DEF Frame
<1>12. QED
  BY <1>7, <1>8, <1>9, <1>10, <1>11 DEF Visiting

\* Nobody but the child that sends it hears a reply as something to act on.
LEMMA RepliesIgnored ==
  ASSUME Types, Running, hearers # {}, FromChild, NEW c \in Children, c \in hearers,
         Addressed(c)
  PROVE  /\ wire.address = 0 /\ ~ wire.short /\ wire.data # << >>
         /\ wire.code = INVALID_TRANSFER
<1>1. c # wire.from /\ wire.from \in Children /\ ReplyOf(wire.from, wire)
  BY DEF FromChild
<1>2. Types /\ Addresses /\ PinsOnly
  BY DEF Running, Map
<1>3. wire.address = 0
  <2>1. SUFFICES ASSUME wire.address # 0 PROVE FALSE
    OBVIOUS
  <2>2. \/ configuredAddress[c] = wire.address
        \/ configuredAddress[c] = 0 /\ wire.address \in InitialAddresses /\ Visiting /\ Here(c)
    BY <1>2, <2>1, WhoActs
  <2>3. CASE wire.address = configuredAddress[wire.from]
    <3>1. wire.address \notin InitialAddresses
      BY <1>1, <2>1, <2>3, Numbers DEF Types, ChildTypes, WireTypes, MasterTypes
    <3>2. configuredAddress[c] = configuredAddress[wire.from]
      BY <2>2, <2>3, <3>1
    <3>3. QED
      BY <1>1, <1>2, <2>1, <2>3, <3>2 DEF Addresses
  <2>4. CASE wire.address \in InitialAddresses /\ Here(wire.from)
    <3>1. configuredAddress[c] # wire.address
      BY <2>4, <2>1, Numbers DEF Types, ChildTypes, WireTypes, MasterTypes
    <3>2. Here(c) /\ Here(wire.from)
      BY <2>2, <2>4, <3>1
    <3>3. QED
      BY <1>1, <1>2, <3>2, OnePerConnector DEF Here
  <2>5. QED
    BY <1>1, <2>1, <2>3, <2>4 DEF ReplyOf
<1>4. QED
  BY <1>1, <1>3, ChildBusAssumption, Numbers DEF ReplyOf, Types, ChildTypes, WireTypes, MasterTypes

-----------------------------------------------------------------------------
(***************************************************************************)
(* What a command does.                                                    *)
(***************************************************************************)
\* The child that acts on the master's request is the one it is for.
LEMMA WhoIsAsked ==
  ASSUME Types, Running, asking, wire = RequestFrame, NEW c \in Children, Addressed(c)
  PROVE  /\ Asked(c)
         /\ step \in {"discover", "assign"} => configuredAddress[c] = 0
         /\ step = "look" => configuredAddress[c] = NewAddress
         /\ step = "count" => configuredAddress[c] = addressOf[connector]
         /\ step \in {"select", "deselect"} => connector[2] < NumChildren[c]
<1>1. Visiting /\ ~ OwnPin /\ Addresses /\ Mapped /\ Known /\ AtHand /\ PinsOnly
  BY DEF Running, Traffic, Map
<1>2. wire.address # 0
  BY <1>1, RequestFields
<1>3. \/ configuredAddress[c] = wire.address
      \/ configuredAddress[c] = 0 /\ wire.address \in InitialAddresses /\ Here(c)
  BY <1>1, <1>2, WhoActs
<1>4. \A d \in Children : configuredAddress[d] \notin InitialAddresses
  BY Numbers DEF Types, ChildTypes, WireTypes, MasterTypes
<1>5. CASE step \in {"select", "deselect"}
  <2>1. wire.address = connector[1] /\ connector[1] # 0
    BY <1>1, <1>5 DEF RequestFrame, Frame, OwnPin
  <2>2. PICK p \in Children : /\ connector[1] = configuredAddress[p]
                              /\ connector[2] \in 0 .. NumChildren[p] - 1
    BY <1>1, <2>1 DEF AtHand, Place
  <2>3. configuredAddress[c] = connector[1]
    BY <1>3, <1>4, <2>1, <2>2
  <2>4. p = c
    BY <1>1, <2>1, <2>2, <2>3 DEF Addresses
  <2>5. connector[2] < NumChildren[c]
    BY <2>2, <2>4, Plugs
  <2>6. QED
    BY <1>5, <2>1, <2>3, <2>5 DEF Asked
<1>6. CASE step \in {"discover", "assign"}
  <2>1. wire.address = InitialAddress
    BY <1>6 DEF RequestFrame, Frame
  <2>2. configuredAddress[c] = 0 /\ Here(c)
    BY <1>3, <1>4, <2>1, Numbers
  <2>3. QED
    BY <1>6, <2>2 DEF Asked
<1>7. CASE step = "look"
  <2>1. wire.address = NewAddress /\ NewAddress \in Pool /\ NewAddress \notin Given
    BY <1>1, <1>7 DEF RequestFrame, Frame, AtHand, Assigning
  <2>2. configuredAddress[c] = NewAddress /\ configuredAddress[c] # 0
    BY <1>3, <2>1, Numbers
  <2>3. Here(c)
    BY <1>1, <2>1, <2>2 DEF Mapped, Given
  <2>4. QED
    BY <1>7, <2>2, <2>3 DEF Asked
<1>8. CASE step = "count"
  <2>1. wire.address = addressOf[connector] /\ connector \in DOMAIN addressOf
    BY <1>1, <1>8 DEF RequestFrame, Frame, AtHand
  <2>2. PICK d \in Children : /\ configuredAddress[d] # 0 /\ ConnectorOf(d) = connector
                              /\ addressOf[connector] = configuredAddress[d]
    BY <1>1, <2>1 DEF Known
  <2>3. configuredAddress[c] = configuredAddress[d]
    BY <1>3, <1>4, <2>1, <2>2
  <2>4. c = d
    BY <1>1, <2>2, <2>3 DEF Addresses
  <2>5. Here(c)
    BY <1>1, <2>2, <2>4 DEF Addresses, Here
  <2>6. QED
    BY <1>8, <2>2, <2>4, <2>5 DEF Asked
<1>9. QED
  BY <1>1, <1>5, <1>6, <1>7, <1>8 DEF Visiting

\* What the child asked does.
Obeys(c) ==
  /\ mode' = mode
  /\ configuredAddress' = IF step = "assign" THEN [configuredAddress EXCEPT ![c] = NewAddress]
                          ELSE configuredAddress
  /\ childPins' = IF step = "select"
                    THEN [childPins EXCEPT ![c] = childPins[c] \cup {connector[2]}]
                  ELSE IF step = "deselect"
                    THEN [childPins EXCEPT ![c] = childPins[c] \ {connector[2]}]
                  ELSE childPins
  /\ \E r \in Seq(Nat) :
       /\ step = "count" => r = <<NumChildren[c]>>
       /\ pending' = [pending EXCEPT ![c] =
            ReplyFrame(c, RequestFrame.address, Result(COMMAND_OK, r))]

LEMMA ObeysRequest ==
  ASSUME Types, Running, asking, wire = RequestFrame, NEW c \in Children, Command(c)
  PROVE  Obeys(c)
<1>1. Addressed(c) /\ Visiting /\ ~ OwnPin
  BY DEF Command, Running, Traffic
<1>2. connector[2] \in Nat /\ (Assigning => NewAddress \in Nat)
  BY Numbers DEF Types, ChildTypes, WireTypes, MasterTypes, Running, Map, AtHand
<1> DEFINE res == handleCommand(c, wire.code, wire.data)
<1>3. /\ CommandEffect(c, wire.code, wire.data)
      /\ res.status # NO_REPLY => pending' = [pending EXCEPT ![c] = ReplyFrame(c, wire.address, res)]
  BY DEF Command
<1> USE DEF COMMAND_OK, NO_REPLY, GET_PROTOCOL_VERSION, SET_ADDRESS, START_APPLICATION,
            GET_NUM_CHILDREN, SET_CHILD_SELECT, Result
<1>4. CASE step \in {"select", "deselect"}
  <2> DEFINE on == IF step = "select" THEN 1 ELSE 0
  <2>1. wire.code = SET_CHILD_SELECT /\ wire.data = <<connector[2], on>>
    BY <1>4 DEF RequestFrame, Frame
  <2>2. Len(wire.data) = 2 /\ wire.data[1] = connector[2] /\ wire.data[2] = on
    BY <2>1
  <2>3. SetChildSelectValid(c, wire.data)
    BY <1>1, <1>4, <2>2, WhoIsAsked DEF SetChildSelectValid
  <2>4. res = Result(COMMAND_OK, << >>)
    BY <2>1, <2>3 DEF handleCommand
  <2>5. /\ configuredAddress' = configuredAddress /\ mode' = mode
        /\ childPins' = [childPins EXCEPT ![c] = SelectPins(c, wire.data)]
    BY <1>3, <2>1, <2>3 DEF CommandEffect
  <2>6. pending' = [pending EXCEPT ![c] = ReplyFrame(c, RequestFrame.address, Result(COMMAND_OK, << >>))]
    BY <1>3, <2>4
  <2>7. SelectPins(c, wire.data) = IF step = "select" THEN childPins[c] \cup {connector[2]}
                                   ELSE childPins[c] \ {connector[2]}
    BY <1>4, <2>2 DEF SelectPins
  <2>8. << >> \in Seq(Nat)
    OBVIOUS
  <2>9. QED
    BY <1>4, <2>5, <2>6, <2>7, <2>8 DEF Obeys
<1>5. CASE step \in {"discover", "look"}
  <2>1. wire.code = GET_PROTOCOL_VERSION
    BY <1>5 DEF RequestFrame, Frame
  <2>2. res = Result(COMMAND_OK, <<2, 1>>)
    BY <2>1 DEF handleCommand
  <2>3. configuredAddress' = configuredAddress /\ mode' = mode /\ childPins' = childPins
    BY <1>3, <2>1 DEF CommandEffect
  <2>4. pending' = [pending EXCEPT ![c] = ReplyFrame(c, RequestFrame.address, Result(COMMAND_OK, <<2, 1>>))]
    BY <1>3, <2>2
  <2>5. <<2, 1>> \in Seq(Nat)
    OBVIOUS
  <2>6. QED
    BY <1>5, <2>3, <2>4, <2>5 DEF Obeys
<1>6. CASE step = "assign"
  <2>1. wire.code = SET_ADDRESS /\ wire.data = <<NewAddress, 0>>
    BY <1>6 DEF RequestFrame, Frame
  <2>2. Len(wire.data) = 2 /\ wire.data[1] = NewAddress /\ wire.data[2] = 0
    BY <2>1
  <2>3. ~ SetAddressRefused(c, wire.data)
    BY <2>2 DEF SetAddressRefused
  <2>4. res = Result(COMMAND_OK, << >>)
    BY <2>1, <2>2, <2>3 DEF handleCommand
  <2>5. /\ configuredAddress' = [configuredAddress EXCEPT ![c] = NewAddress]
        /\ mode' = mode /\ childPins' = childPins
    BY <1>3, <2>1, <2>2, <2>3 DEF CommandEffect
  <2>6. pending' = [pending EXCEPT ![c] = ReplyFrame(c, RequestFrame.address, Result(COMMAND_OK, << >>))]
    BY <1>3, <2>4
  <2>7. << >> \in Seq(Nat)
    OBVIOUS
  <2>8. QED
    BY <1>6, <2>5, <2>6, <2>7 DEF Obeys
<1>7. CASE step = "count"
  <2>1. wire.code = GET_NUM_CHILDREN /\ wire.data = << >>
    BY <1>7 DEF RequestFrame, Frame
  <2>2. Len(wire.data) = 0
    BY <2>1
  <2>3. res = Result(COMMAND_OK, <<NumChildren[c]>>)
    BY <2>1, <2>2 DEF handleCommand
  <2>4. configuredAddress' = configuredAddress /\ mode' = mode /\ childPins' = childPins
    BY <1>3, <2>1 DEF CommandEffect
  <2>5. pending' = [pending EXCEPT ![c] =
                      ReplyFrame(c, RequestFrame.address, Result(COMMAND_OK, <<NumChildren[c]>>))]
    BY <1>3, <2>3
  <2>6. <<NumChildren[c]>> \in Seq(Nat)
    BY Plugs
  <2>7. QED
    BY <1>7, <2>4, <2>5, <2>6 DEF Obeys
<1>8. QED
  BY <1>1, <1>4, <1>5, <1>6, <1>7 DEF Visiting

\* A command is the master's request, or the last one of all.
LEMMA CommandOf ==
  ASSUME Types, Running, NEW c \in Children, Command(c)
  PROVE  /\ c \in hearers /\ FromMaster /\ pending[c] = NoFrame /\ Addressed(c)
         /\ \/ asking /\ wire = RequestFrame /\ Asked(c) /\ Obeys(c)
            \/ /\ step = "done" /\ UNCHANGED <<configuredAddress, childPins, pending>>
               /\ mode' = [mode EXCEPT ![c] = "application"]
<1>1. c \in hearers /\ Addressed(c) /\ ~ wire.short /\ wire.address # 0
  BY DEF Command, Heard
<1>2. FromMaster
  BY <1>1, RepliesIgnored DEF Running, Traffic
<1>3. CASE asking /\ wire = RequestFrame
  BY <1>1, <1>2, <1>3, WhoIsAsked, ObeysRequest DEF Addressed
<1>4. ASSUME NEW a \in ShortAddresses, wire = ShortFrame(a) PROVE FALSE
  BY <1>1, <1>4 DEF ShortFrame
<1>5. ASSUME step = "done", NEW a \in Given, wire = Frame(Master, a, START_APPLICATION, << >>)
      PROVE  /\ UNCHANGED <<configuredAddress, childPins, pending>>
             /\ mode' = [mode EXCEPT ![c] = "application"]
  <2>1. wire.code = START_APPLICATION /\ wire.data = << >>
    BY <1>5 DEF Frame
  <2>2. Len(wire.data) = 0
    BY <2>1
  <2>3. handleCommand(c, wire.code, wire.data) = Result(NO_REPLY, << >>)
    BY <2>1, <2>2 DEF handleCommand, GET_PROTOCOL_VERSION, SET_ADDRESS, START_APPLICATION,
                      GET_NUM_CHILDREN, SET_CHILD_SELECT
  <2>4. pending' = pending
    BY <2>3 DEF Command, Result
  <2>5. QED
    BY <2>1, <2>2, <2>4 DEF Command, CommandEffect, START_APPLICATION, SET_ADDRESS,
                            SET_CHILD_SELECT
<1>6. QED
  BY <1>1, <1>2, <1>3, <1>4, <1>5 DEF FromMaster, Addressed

-----------------------------------------------------------------------------
(***************************************************************************)
(* What the steps of the enumeration have in common.                       *)
(***************************************************************************)
places == <<configuredAddress, step, connector, addressOf>>
mapVars == <<places, mode, childPins, masterPins, open>>

LEMMA SamePlaces ==
  ASSUME UNCHANGED <<configuredAddress, connector>>
  PROVE  \A c \in Children :
           /\ Reached(c)' = Reached(c) /\ ConnectorOf(c)' = ConnectorOf(c)
           /\ Here(c)' = Here(c)
<1>1. \A c \in Children : Reached(c)' = Reached(c) /\ ConnectorOf(c)' = ConnectorOf(c)
  BY DEF Reached, ConnectorOf
<1>2. QED
  BY <1>1 DEF Here

LEMMA SameMap ==
  ASSUME Map, UNCHANGED mapVars
  PROVE  Map'
<1>1. UNCHANGED <<configuredAddress, step, connector, addressOf, mode, childPins, masterPins, open>>
  BY DEF mapVars, places
<1>2. \A c \in Children : /\ Reached(c)' = Reached(c) /\ ConnectorOf(c)' = ConnectorOf(c)
                          /\ Here(c)' = Here(c)
  BY <1>1, SamePlaces
<1>3. NewAddress' = NewAddress /\ Given' = Given
  BY <1>1 DEF NewAddress, Given
<1>4. Visiting' = Visiting /\ Occupied' = Occupied /\ Assigning' = Assigning
  BY <1>1 DEF Visiting, Occupied, Assigning
<1>5. \A k : Place(k)' = Place(k)
  BY <1>1 DEF Place
<1>6. Addresses' /\ Mapped'
  BY <1>1, <1>2, <1>3, <1>4 DEF Map, Addresses, Mapped
<1>7. Known' /\ Ahead'
  BY <1>1, <1>2, <1>3, <1>4, <1>5 DEF Map, Known, Ahead
<1>8. AtHand' /\ PinsOnly'
  BY <1>1, <1>2, <1>3, <1>4, <1>5 DEF Map, AtHand, PinsOnly
<1>9. PinOn' /\ Covered'
  BY <1>1, <1>2, <1>3, <1>4, Plugs DEF Map, PinOn, Covered
<1>10. QED
  BY <1>6, <1>7, <1>8, <1>9 DEF Map

LEMMA SameAsked ==
  ASSUME UNCHANGED places
  PROVE  /\ Given' = Given /\ NewAddress' = NewAddress /\ RequestFrame' = RequestFrame
         /\ Visiting' = Visiting /\ Occupied' = Occupied /\ Assigning' = Assigning
         /\ OwnPin' = OwnPin
         /\ \A c \in Children : Asked(c)' = Asked(c) /\ Here(c)' = Here(c)
         /\ \A c \in Children : \A f : ReplyOf(c, f)' = ReplyOf(c, f)
         /\ Taken' = Taken
<1>1. UNCHANGED <<configuredAddress, step, connector, addressOf>>
  BY DEF places
<1>2. Given' = Given
  BY <1>1 DEF Given
<1>3. NewAddress' = NewAddress
  BY <1>2 DEF NewAddress
<1>4. RequestFrame' = RequestFrame
  BY <1>1, <1>3 DEF RequestFrame
<1>5. /\ Visiting' = Visiting /\ Occupied' = Occupied /\ Assigning' = Assigning
      /\ OwnPin' = OwnPin
  BY <1>1 DEF Visiting, Occupied, Assigning, OwnPin
<1>6. \A c \in Children : Here(c)' = Here(c)
  BY <1>1, SamePlaces
<1>7. \A c \in Children : Asked(c)' = Asked(c)
  BY <1>1, <1>6 DEF Asked
<1>8. \A c \in Children : \A f : ReplyOf(c, f)' = ReplyOf(c, f)
  BY <1>1, <1>6 DEF ReplyOf
<1>9. Taken' = Taken
  BY <1>1, <1>6 DEF Taken
<1>10. QED
  BY <1>2, <1>3, <1>4, <1>5, <1>6, <1>7, <1>8, <1>9

\* A hearer leaves.
LEMMA HeardLess ==
  ASSUME Types, NEW h, Heard(h)
  PROVE  /\ h \in hearers /\ hearers # {}
         /\ hearers' \subseteq hearers /\ h \notin hearers'
         /\ \A g \in hearers : g # h => g \in hearers'
         /\ hearers' \subseteq Children \cup {Master}
         /\ wire' \in Frames \cup {NoFrame}
         /\ hearers' # {} => wire' = wire /\ wire' # NoFrame
BY DEF Types, ChildTypes, WireTypes, MasterTypes, Heard

\* There is always an address left for a child without one.
LEMMA FreeAddress ==
  ASSUME Types, Known, NEW c \in Children, configuredAddress[c] = 0
  PROVE  NewAddress \in Pool \ Given
<1>1. SUFFICES ASSUME Pool \subseteq Given PROVE FALSE
  BY DEF NewAddress
<1> DEFINE S == Children \ {c}
           f == [a \in Pool |-> CHOOSE d \in S : configuredAddress[d] = a]
<1>2. \A a \in Pool : f[a] \in S /\ configuredAddress[f[a]] = a
  <2>1. TAKE a \in Pool
  <2>2. PICK k \in DOMAIN addressOf : addressOf[k] = a
    BY <1>1 DEF Given
  <2>3. PICK d \in Children : configuredAddress[d] # 0 /\ addressOf[k] = configuredAddress[d]
    BY DEF Known
  <2>4. \E e \in S : configuredAddress[e] = a
    BY <2>2, <2>3
  <2>5. QED
    BY <2>4
<1>3. f \in [Pool -> S]
  BY <1>2
<1>4. f \in Injection(Pool, S)
  <2> HIDE DEF f
  <2>1. \A a, b \in Pool : f[a] = f[b] => a = b
    BY <1>2
  <2>2. QED
    BY <1>3, <2>1 DEF Injection, IsInjective
<1>5. IsFiniteSet(S) /\ Cardinality(S) = Cardinality(Children) - 1
  BY FS_RemoveElement, TreeAssumption
<1>6. IsFiniteSet(Pool) /\ Cardinality(Pool) <= Cardinality(S)
  <2> HIDE DEF f, S
  <2>1. QED
    BY <1>4, <1>5, FS_Injection
<1>7. Cardinality(Pool) \in Nat /\ Cardinality(Children) \in Nat
  BY <1>6, TreeAssumption, FS_CardinalityType
<1>8. QED
  BY <1>5, <1>6, <1>7, TreeAssumption

\* Every request is for some child, and for one only.
LEMMA SomeoneAsked ==
  ASSUME Types, Map, Visiting, ~ OwnPin, step = "discover" => \E c \in Children : Here(c)
  PROVE  \E t \in Children : Asked(t)
<1>1. CASE step \in {"select", "deselect"}
  BY <1>1 DEF Map, AtHand, Place, OwnPin, Asked
<1>2. CASE step = "discover"
  BY <1>2 DEF Asked
<1>3. CASE Occupied
  BY <1>3 DEF Map, AtHand, Asked, Occupied
<1>4. QED
  BY <1>1, <1>2, <1>3 DEF Visiting, Occupied

LEMMA AskedOnce ==
  ASSUME Types, Map, NEW c \in Children, NEW d \in Children, Asked(c), Asked(d)
  PROVE  c = d
<1>1. CASE step \in {"select", "deselect"}
  BY <1>1 DEF Asked, Map, Addresses
<1>2. CASE step \in {"discover", "assign", "look", "count"}
  BY <1>2, OnePerConnector DEF Asked, Map, Here
<1>3. QED
  BY <1>1, <1>2 DEF Asked

\* What is known about the child asked.
LEMMA AskedState ==
  ASSUME Types, Map, NEW c \in Children, Asked(c)
  PROVE  /\ Visiting
         /\ step \in {"select", "deselect"} =>
              configuredAddress[c] = connector[1] /\ connector[1] # 0
         /\ step \in {"discover", "assign", "look", "count"} => Here(c)
         /\ step = "discover" => configuredAddress[c] = 0
         /\ Assigning => configuredAddress[c] \in {0, NewAddress}
         /\ step = "count" => /\ configuredAddress[c] = addressOf[connector]
                              /\ configuredAddress[c] # 0
<1>1. CASE step \in {"select", "deselect"}
  BY <1>1 DEF Asked, Visiting, Assigning
<1>2. CASE step = "discover"
  BY <1>2 DEF Asked, Visiting, Assigning, Map, AtHand, Here
<1>3. CASE Assigning
  BY <1>3 DEF Asked, Visiting, Assigning, Map, Mapped
<1>4. CASE step = "count"
  <2>1. Here(c) /\ connector \in DOMAIN addressOf
    BY <1>4 DEF Asked, Map, AtHand
  <2>2. PICK d \in Children : /\ configuredAddress[d] # 0 /\ ConnectorOf(d) = connector
                              /\ addressOf[connector] = configuredAddress[d]
    BY <2>1 DEF Map, Known
  <2>3. c = d
    BY <2>1, <2>2, OnePerConnector DEF Here, Map, Addresses
  <2>4. QED
    BY <1>4, <2>1, <2>2, <2>3 DEF Visiting, Assigning
<1>5. QED
  BY <1>1, <1>2, <1>3, <1>4 DEF Asked, Assigning

\* The child asked acts on the request, but for one that has its address already.
LEMMA AskedActs ==
  ASSUME Types, Running, asking, wire = RequestFrame, NEW c \in Children, Asked(c),
         pending[c] = NoFrame, step = "look" => Taken
  PROVE  Addressed(c) \/ (step = "assign" /\ Taken)
<1>1. Map /\ ~ OwnPin /\ Visiting
  BY DEF Running, Traffic
<1>2. mode[c] = "bootloader"
  BY <1>1 DEF Map, Addresses, Visiting
<1>3. CASE step \in {"discover", "assign"} /\ configuredAddress[c] = 0
  <2>1. wire.address \in InitialAddresses
    BY <1>3, Numbers DEF RequestFrame, Frame
  <2>2. Here(c) /\ ConnectorOf(c) = connector
    BY <1>1, <1>3, AskedState DEF Here
  <2>3. CASE Plug[c][1] = Master
    <3>1. connector[1] = 0 /\ connector[2] = Plug[c][2]
      BY <2>2, <2>3 DEF ConnectorOf
    <3>2. connector[2] \in masterPins
      BY <1>1, <1>3, <3>1 DEF Map, PinOn
    <3>3. QED
      BY <1>2, <1>3, <2>1, <2>3, <3>1, <3>2
      DEF Addressed, matchAddress, shouldRespondToAddress, Selected
  <2>4. CASE Plug[c][1] # Master
    <3>1. Plug[c][1] \in Children
      BY <2>4, Plugs
    <3>2. connector[1] = configuredAddress[Plug[c][1]] /\ connector[2] = Plug[c][2] /\ connector[1] # 0
      BY <2>2, <2>4 DEF ConnectorOf, Here, Reached
    <3>3. connector[2] \in childPins[Plug[c][1]]
      BY <1>1, <1>3, <3>1, <3>2 DEF Map, PinOn
    <3>4. QED
      BY <1>2, <1>3, <2>1, <2>4, <3>2, <3>3
      DEF Addressed, matchAddress, shouldRespondToAddress, Selected
  <2>5. QED
    BY <2>3, <2>4
<1>4. CASE step = "assign" /\ configuredAddress[c] # 0
  BY <1>4 DEF Taken, Asked
<1>5. CASE configuredAddress[c] = wire.address
  <2>1. wire.address # 0
    BY <1>1, RequestFields
  <2>2. QED
    BY <1>2, <1>5, <2>1 DEF Addressed, matchAddress, shouldRespondToAddress
<1>6. CASE step \in {"select", "deselect"}
  <2>1. wire.address = connector[1]
    BY <1>6 DEF RequestFrame, Frame
  <2>2. QED
    BY <1>1, <1>5, <1>6, <2>1, AskedState
<1>7. CASE step = "look" /\ Taken
  <2>1. PICK t \in Children : Here(t) /\ configuredAddress[t] # 0
    BY <1>7 DEF Taken
  <2>2. t = c
    BY <1>1, <1>7, <2>1, AskedState, OnePerConnector DEF Here, Map
  <2>3. wire.address = NewAddress
    BY <1>7 DEF RequestFrame, Frame
  <2>4. QED
    BY <1>1, <1>5, <1>7, <2>1, <2>2, <2>3, AskedState DEF Assigning
<1>8. CASE step = "count"
  <2>1. wire.address = addressOf[connector]
    BY <1>8 DEF RequestFrame, Frame
  <2>2. QED
    BY <1>1, <1>5, <1>8, <2>1, AskedState
<1>9. QED
  BY <1>1, <1>3, <1>4, <1>5, <1>6, <1>7, <1>8, AskedState DEF Visiting

-----------------------------------------------------------------------------
(***************************************************************************)
(* The reset.                                                              *)
(***************************************************************************)
LEMMA ResetFrames ==
  /\ ResetFrame \in Frames /\ ResetAddressFrame \in Frames
  /\ ResetFrame # NoFrame /\ ResetAddressFrame # NoFrame
  /\ ResetFrame.address = 0 /\ ResetFrame.code = RESET /\ ~ ResetFrame.short
  /\ ResetFrame.data = << >>
  /\ ResetAddressFrame.address = 0 /\ ResetAddressFrame.code = RESET_ADDRESS
  /\ ~ ResetAddressFrame.short /\ ResetAddressFrame.data = << >>
  /\ RESET # RESET_ADDRESS /\ ResetFrame # ResetAddressFrame
<1>1. << >> \in Seq(Nat)
  OBVIOUS
<1>2. ResetFrame \in Frames /\ ResetAddressFrame \in Frames
  BY <1>1 DEF ResetFrame, ResetAddressFrame, Frame, Frames, RESET, RESET_ADDRESS
<1>3. ResetFrame # NoFrame /\ ResetAddressFrame # NoFrame
  BY <1>2, ChildBusAssumption
<1>4. QED
  BY <1>2, <1>3 DEF ResetFrame, ResetAddressFrame, Frame, RESET, RESET_ADDRESS

LEMMA ResetAsks ==
  ASSUME Types, Resetting, step = "reset", MasterAsks
  PROVE  IInv'
<1>1. /\ wire' = ResetFrame /\ hearers' = Children
      /\ tries' = tries + 1 /\ tries < MaxTries /\ asking' = FALSE /\ step' = "reset"
      /\ UNCHANGED <<configuredAddress, mode, childPins, pending, masterPins, losses,
                     connector, open, addressOf>>
  BY DEF MasterAsks, Send, RequestFrame, ResetFrame, childVars
<1>2. Types'
  <2>1. ChildTypes'
    BY <1>1 DEF Types, ChildTypes
  <2>2. WireTypes'
    BY <1>1, ResetFrames DEF Types, WireTypes
  <2>3. MasterTypes'
    BY <1>1, Numbers DEF Types, MasterTypes, Given, Steps
  <2>4. asking' \in BOOLEAN
    BY <1>1
  <2>5. QED
    BY <2>1, <2>2, <2>3, <2>4 DEF Types
<1>3. hearers = {}
  BY DEF MasterAsks, Quiet
<1>4. Resetting'
  BY <1>1, <1>3, Numbers DEF Resetting, Types, ChildTypes, WireTypes, MasterTypes, Fresh, Talkers
<1>5. QED
  BY <1>1, <1>2, <1>4 DEF IInv

LEMMA ResetLose ==
  ASSUME Types, Resetting, step = "reset", NEW h, Lose(h), UNCHANGED masterVars
  PROVE  IInv'
<1>1. /\ losses' = losses + 1 /\ losses < MaxLosses
      /\ UNCHANGED <<configuredAddress, mode, childPins, pending, masterPins>>
      /\ UNCHANGED <<step, connector, open, addressOf, tries, asking>>
      /\ Heard(h)
  BY DEF Lose, childVars, masterVars
<1>2. Types'
  BY <1>1, HeardLess, Numbers DEF Types, ChildTypes, WireTypes, MasterTypes, Given
<1>3. Resetting'
  BY <1>1, HeardLess, Numbers DEF Resetting, Types, ChildTypes, WireTypes, MasterTypes, Fresh, Talkers
<1>4. QED
  BY <1>1, <1>2, <1>3 DEF IInv

\* What a child does with a general call.
LEMMA ResetChild ==
  ASSUME Types, Resetting, step = "reset", NEW c \in Children, ChildStep(c)
  PROVE  /\ Heard(c) /\ UNCHANGED <<pending, masterPins, losses>>
         /\ \/ resetSystem(c) /\ wire = ResetFrame
            \/ /\ wire = ResetAddressFrame
               /\ UNCHANGED <<mode, childPins>>
               /\ configuredAddress' \in
                    {configuredAddress, [configuredAddress EXCEPT ![c] = 0]}
<1>1. Heard(c)
  BY DEF ChildStep, Ignore, AnswerShort, GeneralCall, Command, ApplicationReset
<1>2. wire \in {ResetFrame, ResetAddressFrame}
  BY <1>1 DEF Heard, Resetting
<1>3. wire.address = 0 /\ ~ wire.short /\ wire.data = << >>
  BY <1>2, ResetFrames
<1>4. pending[c] = NoFrame
  BY DEF Resetting, Talkers
<1>5. CASE Ignore(c)
  <2>1. ~ Addressed(c) => mode[c] # "bootloader"
    BY <1>3, <1>4 DEF Addressed, matchAddress, shouldRespondToAddress
  <2>2. wire.code # RESET
    BY <1>3, <1>5, <2>1 DEF Ignore
  <2>3. wire = ResetAddressFrame
    BY <1>2, <2>2, ResetFrames
  <2>4. QED
    BY <1>1, <1>5, <2>3 DEF Ignore, childVars
<1>6. CASE GeneralCall(c)
  <2>1. handleGeneralCall(c, wire.code, wire.data) /\ UNCHANGED <<pending, masterPins, losses>>
    BY <1>6 DEF GeneralCall
  <2>2. CASE wire = ResetFrame
    BY <1>1, <2>1, <2>2, ResetFrames DEF handleGeneralCall
  <2>3. CASE wire = ResetAddressFrame
    BY <1>1, <2>1, <2>3, ResetFrames DEF handleGeneralCall
  <2>4. QED
    BY <1>2, <2>2, <2>3
<1>7. CASE ApplicationReset(c)
  <2>1. wire = ResetFrame
    BY <1>2, <1>7, ResetFrames DEF ApplicationReset
  <2>2. QED
    BY <1>1, <1>7, <2>1 DEF ApplicationReset
<1>8. QED
  BY <1>3, <1>5, <1>6, <1>7 DEF ChildStep, AnswerShort, Command

LEMMA ResetChildStep ==
  ASSUME Types, Resetting, step = "reset", NEW c \in Children, ChildStep(c),
         UNCHANGED masterVars
  PROVE  IInv'
<1>1. /\ Heard(c) /\ UNCHANGED <<pending, masterPins, losses>>
      /\ \/ resetSystem(c) /\ wire = ResetFrame
         \/ /\ wire = ResetAddressFrame
            /\ UNCHANGED <<mode, childPins>>
            /\ configuredAddress' \in {configuredAddress, [configuredAddress EXCEPT ![c] = 0]}
  BY ResetChild
<1>2. UNCHANGED <<step, connector, open, addressOf, tries, asking>>
  BY DEF masterVars
<1>3. /\ configuredAddress' \in [Children -> {0} \cup Pool]
      /\ mode' \in [Children -> {"bootloader", "application"}]
      /\ childPins' \in [Children -> SUBSET Nat]
      /\ \A d \in Children : childPins'[d] \subseteq 0 .. NumChildren[d] - 1
      /\ \A d \in Children : Fresh(d) => Fresh(d)'
      /\ wire = ResetFrame => Fresh(c)'
  <2>1. CASE resetSystem(c) /\ wire = ResetFrame
    BY <2>1 DEF Types, ChildTypes, WireTypes, MasterTypes, resetSystem, Fresh
  <2>2. CASE wire = ResetAddressFrame /\ configuredAddress' = configuredAddress
    BY <1>1, <2>2, ResetFrames DEF Types, ChildTypes, WireTypes, MasterTypes, resetSystem, Fresh
  <2>3. CASE wire = ResetAddressFrame /\ configuredAddress' = [configuredAddress EXCEPT ![c] = 0]
    BY <1>1, <2>3, ResetFrames DEF Types, ChildTypes, WireTypes, MasterTypes, resetSystem, Fresh
  <2>4. QED
    BY <1>1, <2>1, <2>2, <2>3
<1>4. Types'
  BY <1>1, <1>2, <1>3, HeardLess DEF Types, ChildTypes, WireTypes, MasterTypes, Given
<1>5. Resetting'
  BY <1>1, <1>2, <1>3, HeardLess DEF Resetting, Talkers
<1>6. QED
  BY <1>2, <1>4, <1>5 DEF IInv

LEMMA ResetEnds ==
  ASSUME Persistent, Types, Resetting, ResetDone
  PROVE  IInv'
<1>1. /\ step = "reset" /\ tries = MaxTries /\ hearers = {}
      /\ step' = "pick" /\ tries' = 0 /\ asking' = FALSE
      /\ open' = { <<0, i>> : i \in MasterPins } /\ addressOf' = << >>
      /\ UNCHANGED <<configuredAddress, mode, childPins, pending, masterPins, wire, hearers,
                     losses, connector>>
  BY DEF ResetDone, GoTo, Quiet, busVars, childVars, wireVars
<1>2. \A c \in Children : Fresh(c)
  BY <1>1, Numbers DEF Resetting, Persistent, Types, ChildTypes, WireTypes, MasterTypes
<1>3. DOMAIN addressOf' = {}
  BY <1>1
<1>4. Given' = {}
  BY <1>3 DEF Given
<1>5. Types'
  <2>1. ChildTypes'
    BY <1>1 DEF Types, ChildTypes
  <2>2. WireTypes'
    BY <1>1 DEF Types, WireTypes
  <2>3. open' \subseteq Nat \X Nat
    BY <1>1, EnumerationAssumption
  <2>4. MasterTypes'
    BY <1>1, <1>4, <2>3, Numbers DEF Types, MasterTypes, Steps
  <2>5. asking' \in BOOLEAN
    BY <1>1
  <2>6. QED
    BY <2>1, <2>2, <2>4, <2>5 DEF Types
<1>6. ~ Visiting' /\ ~ Occupied' /\ ~ Assigning'
  BY <1>1 DEF Visiting, Occupied, Assigning
<1>7. \A c \in Children : configuredAddress'[c] = 0 /\ childPins'[c] = {} /\ mode'[c] = "bootloader"
  BY <1>1, <1>2 DEF Fresh
<1>8. Addresses' /\ Mapped'
  BY <1>7 DEF Addresses, Mapped
<1>9. Known' /\ PinsOnly' /\ PinOn'
  BY <1>1, <1>3, <1>7 DEF Known, PinsOnly, PinOn, Resetting
<1>10. \A k \in open' : Place(k)'
  BY <1>1 DEF Place
<1>11. Ahead' /\ AtHand'
  BY <1>1, <1>6, <1>7, <1>10 DEF Ahead, AtHand
<1>12. Covered'
  <2>1. SUFFICES ASSUME NEW c \in Children, Reached(c)' PROVE ConnectorOf(c)' \in open'
    BY DEF Covered
  <2>2. Plug[c][1] = Master
    BY <1>7, <2>1, Plugs DEF Reached
  <2>3. ConnectorOf(c)' = <<0, Plug[c][2]>> /\ Plug[c][2] \in MasterPins
    BY <2>2, TreeAssumption DEF ConnectorOf
  <2>4. QED
    BY <1>1, <2>3
<1>13. Traffic' /\ Budget'
  BY <1>1, <1>6, Numbers DEF Traffic, Budget, Resetting, Talkers
<1>14. QED
  BY <1>1, <1>5, <1>8, <1>9, <1>11, <1>12, <1>13 DEF IInv, Running, Map

LEMMA ResetStep ==
  ASSUME Persistent, IInv, step = "reset", Next
  PROVE  IInv'
<1>1. Types /\ Resetting
  BY DEF IInv
<1>2. CASE MasterAsks
  BY <1>1, <1>2, ResetAsks
<1>3. CASE ResetDone
  BY <1>1, <1>3, ResetEnds
<1>4. ~ Pick /\ ~ SwitchOwnPin /\ ~ MasterStartsApplication /\ ~ MasterRestarts /\ ~ Noise
  BY DEF Pick, SwitchOwnPin, OwnPin, MasterStartsApplication, MasterRestarts, Noise
<1>5. ~ MasterHears /\ ~ MasterTimesOut /\ ~ MasterIsTooEarly
  BY <1>1, ChildBusAssumption DEF MasterHears, Heard, MasterTimesOut, MasterIsTooEarly, Resetting
<1>6. ASSUME NEW c \in Children, ChildStep(c), UNCHANGED masterVars PROVE IInv'
  BY <1>1, <1>6, ResetChildStep
<1>7. ASSUME NEW c \in Children PROVE ~ Transmit(c)
  BY <1>1 DEF Transmit, Resetting
<1>8. ASSUME NEW h, Lose(h), UNCHANGED masterVars PROVE IInv'
  BY <1>1, <1>8, ResetLose
<1>9. QED
  BY <1>2, <1>3, <1>4, <1>5, <1>6, <1>7, <1>8 DEF Next, MasterStep

-----------------------------------------------------------------------------
(***************************************************************************)
(* The enumeration: one hearer is done with a frame.                       *)
(***************************************************************************)
\* IInv during the enumeration.
Enumerating == Types /\ Running

LEMMA EnumeratingNext ==
  ASSUME Types', Running', step' # "reset"
  PROVE  IInv'
BY DEF IInv

LEMMA SameTypes ==
  ASSUME Types, UNCHANGED mapVars, WireTypes', tries' \in 0 .. MaxTries, asking' \in BOOLEAN
  PROVE  Types'
<1>1. UNCHANGED <<configuredAddress, step, connector, addressOf, mode, childPins, masterPins, open>>
  BY DEF mapVars, places
<1>2. ChildTypes'
  BY <1>1 DEF Types, ChildTypes
<1>3. MasterTypes'
  BY <1>1 DEF Types, MasterTypes, Given
<1>4. QED
  BY <1>2, <1>3 DEF Types

LEMMA LeaveTypes ==
  ASSUME Types, NEW h, Heard(h), UNCHANGED <<mapVars, pending, tries, asking>>,
         losses' \in 0 .. MaxLosses
  PROVE  Types'
<1>1. WireTypes'
  BY HeardLess DEF Types, WireTypes
<1>2. tries' \in 0 .. MaxTries
  BY DEF Types, MasterTypes
<1>3. asking' \in BOOLEAN
  BY DEF Types
<1>4. QED
  BY <1>1, <1>2, <1>3, SameTypes

LEMMA LeaveTraffic ==
  ASSUME Types, Traffic, NEW h, Heard(h), UNCHANGED <<places, childPins, pending, asking>>
  PROVE  Traffic'
<1>1. /\ Given' = Given /\ RequestFrame' = RequestFrame /\ Visiting' = Visiting
      /\ OwnPin' = OwnPin /\ step' = step /\ asking' = asking /\ pending' = pending
      /\ connector' = connector /\ configuredAddress' = configuredAddress /\ childPins' = childPins
      /\ Assigning' = Assigning /\ NewAddress' = NewAddress /\ Talkers' = Talkers
  BY SameAsked DEF places, Talkers
<1>2. \A c \in Children : \A f : ReplyOf(c, f)' = ReplyOf(c, f)
  BY SameAsked
<1>3. \A c \in Children : \A f : Truthful(c, f) => Truthful(c, f)'
  <2>1. \A c \in Children : Asked(c)' = Asked(c)
    BY SameAsked
  <2>2. QED
    BY <1>1, <2>1 DEF Truthful
<1>4. hearers' # {} => FromMaster' \/ FromChild'
  <2>1. SUFFICES ASSUME hearers' # {} PROVE FromMaster' \/ FromChild'
    OBVIOUS
  <2>2. wire' = wire /\ hearers # {} /\ hearers' \subseteq hearers
    BY <2>1, HeardLess
  <2>3. CASE FromMaster
    BY <1>1, <2>2, <2>3 DEF FromMaster
  <2>4. CASE FromChild
    BY <1>1, <1>2, <1>3, <2>2, <2>4 DEF FromChild
  <2>5. QED
    BY <2>2, <2>3, <2>4 DEF Traffic
<1>5. \A c \in Talkers' : ReplyOf(c, pending[c])' /\ Truthful(c, pending[c])'
  <2>1. SUFFICES ASSUME NEW c \in Talkers
                 PROVE  ReplyOf(c, pending[c])' /\ Truthful(c, pending[c])'
    BY <1>1
  <2>2. c \in Children
    BY DEF Talkers
  <2>3. ReplyOf(c, pending[c])'
    BY <1>1, <2>2 , SameAsked DEF Traffic, ReplyOf
  <2>4. Asked(c)' = Asked(c)
    BY <2>2, SameAsked
  <2>5. Truthful(c, pending[c])'
    BY <1>1, <2>2, <2>4 DEF Traffic, Truthful
  <2>6. QED
    BY <2>3, <2>5
<1>6. asking' => Visiting' /\ ~ OwnPin'
  BY <1>1 DEF Traffic
<1>7. QED
  BY <1>1, <1>4, <1>5, <1>6 DEF Traffic

\* The request, or the reply, is still on its way to the others.
LEMMA StillAlive ==
  ASSUME Types, NEW h, Heard(h), UNCHANGED <<places, pending>>, NEW t \in Children, AliveFor(t),
         h # Master, wire = RequestFrame => h # t
  PROVE  AliveFor(t)'
<1>1. RequestFrame' = RequestFrame
  BY SameAsked
<1>2. QED
  BY <1>1, HeardLess DEF AliveFor

LEMMA StillQuiet ==
  ASSUME Types, NEW h, Heard(h), UNCHANGED pending, Noisy'
  PROVE  Noisy
BY HeardLess DEF Noisy, Talkers

\* No child has missed a request, or there is a loss for it.
LEMMA SameBudget ==
  ASSUME Budget, UNCHANGED <<places, tries, losses, asking>>, Noisy' => Noisy,
         Hope => Hope'
  PROVE  Budget'
<1>1. Visiting' = Visiting /\ step' = step /\ tries' = tries /\ losses' = losses
      /\ \A c \in Children : Here(c)' = Here(c)
  BY SameAsked DEF places
<1>2. QED
  BY <1>1 DEF Budget

LEMMA SameHope ==
  ASSUME Hope, UNCHANGED <<places, asking>>,
         Alive /\ asking => (Alive' \/ (step = "assign" /\ Taken))
  PROVE  Hope'
<1>1. Assigning' = Assigning /\ step' = step /\ asking' = asking /\ Taken' = Taken
  BY SameAsked DEF places
<1>2. QED
  BY <1>1 DEF Hope, Assigning

LEMMA LossBudget ==
  ASSUME Types, Budget, UNCHANGED <<places, tries>>, losses' = losses + 1
  PROVE  Budget'
<1>1. Visiting' = Visiting /\ step' = step /\ tries' = tries
      /\ \A c \in Children : Here(c)' = Here(c)
  BY SameAsked DEF places
<1>2. tries \in Nat /\ losses \in Nat
  BY Numbers DEF Types, WireTypes, MasterTypes
<1>3. QED
  BY <1>1, <1>2 DEF Budget

LEMMA LoseStep ==
  ASSUME Enumerating, step # "reset", NEW h, Lose(h), UNCHANGED masterVars
  PROVE  IInv'
<1>1. Types /\ Running /\ Map /\ Traffic /\ Budget
  BY DEF Enumerating, Running
<1>2. /\ losses' = losses + 1 /\ losses < MaxLosses
      /\ UNCHANGED <<configuredAddress, mode, childPins, pending, masterPins>>
      /\ UNCHANGED <<step, connector, open, addressOf, tries, asking>>
      /\ Heard(h)
  BY DEF Lose, childVars, masterVars
<1>3. UNCHANGED places /\ UNCHANGED mapVars
  BY <1>2 DEF places, mapVars
<1>4. losses' \in 0 .. MaxLosses
  BY <1>1, <1>2, Numbers DEF Types, WireTypes
<1>5. Types'
  BY <1>1, <1>2, <1>3, <1>4, LeaveTypes
<1>6. Map'
  BY <1>1, <1>3, SameMap
<1>7. Traffic'
  BY <1>1, <1>2, <1>3, LeaveTraffic
<1>8. Budget'
  BY <1>1, <1>2, <1>3, LossBudget
<1>9. QED
  BY <1>1, <1>2, <1>5, <1>6, <1>7, <1>8, EnumeratingNext DEF Running

LEMMA IgnoreStep ==
  ASSUME Enumerating, step # "reset", NEW c \in Children, Ignore(c), UNCHANGED masterVars
  PROVE  IInv'
<1>1. Types /\ Running /\ Map /\ Traffic /\ Budget
  BY DEF Enumerating, Running
<1>2. /\ UNCHANGED <<configuredAddress, mode, childPins, pending, masterPins, losses>>
      /\ UNCHANGED <<step, connector, open, addressOf, tries, asking>>
      /\ Heard(c)
  BY DEF Ignore, childVars, masterVars
<1>3. UNCHANGED places /\ UNCHANGED mapVars
  BY <1>2 DEF places, mapVars
<1>4. losses' \in 0 .. MaxLosses
  BY <1>1, <1>2 DEF Types, WireTypes
<1>5. Types'
  BY <1>1, <1>2, <1>3, <1>4, LeaveTypes
<1>6. Map'
  BY <1>1, <1>3, SameMap
<1>7. Traffic'
  BY <1>1, <1>2, <1>3, LeaveTraffic
<1>8. Noisy' => Noisy
  BY <1>1, <1>2, StillQuiet
<1>9. ASSUME Hope PROVE Hope'
  <2>1. ASSUME Alive, asking PROVE Alive' \/ (step = "assign" /\ Taken)
    <3>1. PICK t \in Children : Asked(t) /\ AliveFor(t)
      BY <2>1 DEF Alive
    <3>2. CASE wire = RequestFrame /\ c = t /\ t \in hearers /\ pending[t] = NoFrame
      <4>1. Map /\ Visiting
        BY <1>1, <2>1 DEF Traffic
      <4>2. mode[c] = "bootloader"
        BY <4>1 DEF Map, Addresses, Visiting
      <4>3. ~ Addressed(c)
        BY <4>2 DEF Ignore
      <4>4. step = "look" => Taken
        BY <1>9 DEF Hope
      <4>5. QED
        BY <1>1, <2>1, <3>1, <3>2, <4>3, <4>4, AskedActs
    <3>3. CASE ~ (wire = RequestFrame /\ c = t /\ t \in hearers /\ pending[t] = NoFrame)
      <4>1. AliveFor(t)'
        <5>1. RequestFrame' = RequestFrame
          BY <1>3, SameAsked
        <5>2. c # Master
          BY ChildBusAssumption
        <5>3. QED
          BY <1>1, <1>2, <3>1, <3>3, <5>1, <5>2, HeardLess DEF AliveFor
      <4>2. Asked(t)'
        BY <1>3, <3>1, SameAsked
      <4>3. QED
        BY <4>1, <4>2 DEF Alive
    <3>4. QED
      BY <3>2, <3>3
  <2>2. QED
    BY <1>2, <1>3, <1>9, <2>1, SameHope
<1>10. Budget'
  BY <1>1, <1>2, <1>3, <1>8, <1>9, SameBudget
<1>11. QED
  BY <1>1, <1>2, <1>5, <1>6, <1>7, <1>10, EnumeratingNext DEF Running

\* The other replies of children concern no one.
LEMMA GeneralCallStep ==
  ASSUME Enumerating, step # "reset", NEW c \in Children, GeneralCall(c), UNCHANGED masterVars
  PROVE  IInv'
<1>1. Types /\ Running /\ Map /\ Traffic /\ Budget
  BY DEF Enumerating, Running
<1>2. Heard(c) /\ c \in hearers /\ Addressed(c) /\ ~ wire.short /\ wire.address = 0
  BY DEF GeneralCall, Heard
<1>3. ~ FromMaster
  <2>1. SUFFICES ASSUME FromMaster PROVE FALSE
    OBVIOUS
  <2>2. CASE asking /\ wire = RequestFrame
    BY <1>1, <1>2, <2>2, RequestFields DEF Traffic
  <2>3. ASSUME NEW a \in ShortAddresses, wire = ShortFrame(a) PROVE FALSE
    BY <1>2, <2>3 DEF ShortFrame
  <2>4. ASSUME NEW a \in Given, wire = Frame(Master, a, START_APPLICATION, << >>) PROVE FALSE
    BY <1>1, <1>2, <2>4, Numbers DEF Frame, Types, MasterTypes
  <2>5. QED
    BY <2>1, <2>2, <2>3, <2>4 DEF FromMaster
<1>4. FromChild
  BY <1>1, <1>2, <1>3 DEF Traffic
<1>5. wire.code = INVALID_TRANSFER /\ wire.data # << >>
  BY <1>1, <1>2, <1>4, RepliesIgnored
<1>6. /\ UNCHANGED <<configuredAddress, mode, childPins, pending, masterPins, losses>>
      /\ UNCHANGED <<step, connector, open, addressOf, tries, asking>>
  BY <1>5 DEF GeneralCall, handleGeneralCall, masterVars
<1>7. UNCHANGED places /\ UNCHANGED mapVars
  BY <1>6 DEF places, mapVars
<1>8. Types'
  <2>1. losses' \in 0 .. MaxLosses
    BY <1>1, <1>6 DEF Types, WireTypes
  <2>2. QED
    BY <1>1, <1>2, <1>6, <1>7, <2>1, LeaveTypes
<1>9. Map'
  BY <1>1, <1>7, SameMap
<1>10. Traffic'
  BY <1>1, <1>2, <1>6, <1>7, LeaveTraffic
<1>11. Noisy' => Noisy
  BY <1>1, <1>2, <1>6, StillQuiet
<1>12. ASSUME Hope PROVE Hope'
  <2>1. ~ (Alive /\ asking)
    <3>1. ASSUME NEW t \in Children, AliveFor(t), asking PROVE FALSE
      <4>1. wire # RequestFrame
        BY <1>1, <1>2, <3>1, RequestFields DEF Traffic
      <4>2. pending[t] = NoFrame
        BY <1>4 DEF FromChild, Talkers
      <4>3. wire.code # COMMAND_OK
        BY <1>5 DEF INVALID_TRANSFER, COMMAND_OK
      <4>4. QED
        BY <3>1, <4>1, <4>2, <4>3 DEF AliveFor
    <3>2. QED
      BY <3>1 DEF Alive
  <2>2. QED
    BY <1>6, <1>7, <1>12, <2>1, SameHope
<1>13. Budget'
  BY <1>1, <1>6, <1>7, <1>11, <1>12, SameBudget
<1>14. QED
  BY <1>1, <1>6, <1>8, <1>9, <1>10, <1>13, EnumeratingNext DEF Running

-----------------------------------------------------------------------------
(***************************************************************************)
(* The enumeration: replies.                                               *)
(***************************************************************************)
\* A child takes noise for a request to it.
LEMMA AnswerShortStep ==
  ASSUME Enumerating, step # "reset", NEW c \in Children, AnswerShort(c), UNCHANGED masterVars
  PROVE  IInv'
<1>1. Types /\ Running /\ Map /\ Traffic /\ Budget
  BY DEF Enumerating, Running
<1>2. /\ Heard(c) /\ c \in hearers /\ Addressed(c) /\ wire.short /\ pending[c] = NoFrame
      /\ hearers # {} /\ wire \in Frames /\ wire.address \in Nat
  BY <1>1 DEF AnswerShort, Heard, Addressed, Types, WireTypes, Frames
<1>3. /\ UNCHANGED <<configuredAddress, mode, childPins, masterPins, losses>>
      /\ UNCHANGED <<step, connector, open, addressOf, tries, asking>>
  BY DEF AnswerShort, masterVars
<1>4. UNCHANGED places /\ UNCHANGED mapVars
  BY <1>3 DEF places, mapVars
<1> DEFINE f == ReplyFrame(c, wire.address, Result(INVALID_TRANSFER, << >>))
<1>5. /\ f \in Frames /\ f # NoFrame /\ f.from = c /\ f.address = wire.address
      /\ f.code = INVALID_TRANSFER /\ ~ f.short /\ f.data # << >>
  <2>1. << >> \in Seq(Nat) /\ INVALID_TRANSFER \in Nat /\ wire.address \in Nat
    BY <1>2 DEF INVALID_TRANSFER
  <2>2. PICK r \in Seq(Nat) : f = ReplyFrame(c, wire.address, Result(INVALID_TRANSFER, r))
    BY <2>1
  <2> HIDE DEF f
  <2>3. QED
    BY <2>1, <2>2, ReplyFields
<1>6. pending' = [pending EXCEPT ![c] = f]
  BY DEF AnswerShort
<1> HIDE DEF f
<1>7. ~ FromChild
  BY <1>2 DEF FromChild, ReplyOf
<1>8. FromMaster
  BY <1>1, <1>2, <1>7 DEF Traffic
<1>9. Types'
  <2>1. WireTypes'
    BY <1>1, <1>2, <1>3, <1>5, <1>6, HeardLess DEF Types, WireTypes
  <2>2. asking' \in BOOLEAN
    BY <1>1, <1>3 DEF Types
  <2>3. tries' \in 0 .. MaxTries
    BY <1>1, <1>3 DEF Types, MasterTypes
  <2>4. QED
    BY <1>1, <1>4, <2>1, <2>2, <2>3, SameTypes
<1>10. Map'
  BY <1>1, <1>4, SameMap
<1>11. ReplyOf(c, f)
  <2>1. CASE wire.address = 0
    BY <1>5, <2>1 DEF ReplyOf
  <2>2. CASE wire.address # 0
    <3>1. \/ configuredAddress[c] = wire.address
          \/ /\ configuredAddress[c] = 0 /\ wire.address \in InitialAddresses
             /\ Visiting /\ Here(c)
      BY <1>1, <1>2, <2>2, WhoActs DEF Map
    <3>2. ASSUME step = "deselect", configuredAddress[c] = 0, Here(c) PROVE FALSE
      <4>1. ConnectorOf(c) \in open /\ ConnectorOf(c) = connector
        BY <1>1, <3>2 DEF Map, Covered, Here, Occupied
      <4>2. QED
        BY <1>1, <3>2, <4>1 DEF Map, Ahead, Visiting
    <3>3. QED
      BY <1>5, <2>2, <3>1, <3>2 DEF ReplyOf, Visiting
  <2>3. QED
    BY <2>1, <2>2
<1>12. Truthful(c, f)
  BY <1>5 DEF Truthful, COMMAND_OK, INVALID_TRANSFER
<1>13. Traffic'
  <2>1. hearers' # {} => FromMaster'
    <3>1. Given' = Given /\ RequestFrame' = RequestFrame
      BY <1>4, SameAsked
    <3>2. QED
      BY <1>1, <1>2, <1>3, <1>8, <3>1, HeardLess DEF FromMaster
  <2>2. ASSUME NEW d \in Talkers' PROVE ReplyOf(d, pending[d])' /\ Truthful(d, pending[d])'
    <3>1. d \in Children /\ (d = c \/ d \in Talkers)
      BY <1>1, <1>6, <2>2 DEF Talkers, Types, WireTypes
    <3>2. pending'[d] = IF d = c THEN f ELSE pending[d]
      BY <1>1, <1>6, <3>1 DEF Types, WireTypes
    <3>3. ReplyOf(d, pending'[d]) /\ Truthful(d, pending'[d])
      BY <1>1, <1>11, <1>12, <3>1, <3>2 DEF Traffic
    <3>4. /\ Asked(d)' = Asked(d) /\ Here(d)' = Here(d) /\ NewAddress' = NewAddress
          /\ Assigning' = Assigning
      BY <1>4, <3>1, SameAsked
    <3>5. QED
      BY <1>3, <3>3, <3>4 DEF ReplyOf, Truthful
  <2>3. asking' => Visiting' /\ ~ OwnPin'
    BY <1>1, <1>3, <1>4, SameAsked DEF Traffic
  <2>4. QED
    BY <2>1, <2>2, <2>3 DEF Traffic
<1>14. Budget'
  <2>1. Noisy
    BY <1>2, <1>8 DEF Noisy, FromMaster
  <2>2. Visiting' = Visiting /\ step' = step /\ \A d \in Children : Here(d)' = Here(d)
    BY <1>3, <1>4, SameAsked
  <2>3. QED
    BY <1>1, <1>3, <2>1, <2>2 DEF Budget
<1>15. QED
  BY <1>1, <1>3, <1>9, <1>10, <1>13, <1>14, EnumeratingNext DEF Running

LEMMA ApplicationResetNever ==
  ASSUME Enumerating, NEW c \in Children, ApplicationReset(c)
  PROVE  FALSE
<1>1. Types /\ Map /\ Traffic
  BY DEF Enumerating, Running
<1>2. c \in hearers /\ mode[c] # "bootloader" /\ wire.address = 0 /\ wire.code = RESET
  BY DEF ApplicationReset, Heard
<1>3. step = "done"
  BY <1>1, <1>2 DEF Map, Addresses
<1>4. ~ asking
  BY <1>1, <1>3 DEF Traffic, Visiting
<1>5. ~ FromChild
  BY <1>2 DEF FromChild, ReplyOf, RESET, COMMAND_OK, INVALID_TRANSFER
<1>6. ASSUME NEW a \in ShortAddresses, wire = ShortFrame(a) PROVE FALSE
  BY <1>2, <1>6 DEF ShortFrame, RESET
<1>7. ASSUME NEW a \in Given, wire = Frame(Master, a, START_APPLICATION, << >>) PROVE FALSE
  BY <1>2, <1>7 DEF Frame, RESET, START_APPLICATION
<1>8. QED
  BY <1>1, <1>2, <1>4, <1>5, <1>6, <1>7 DEF Traffic, FromMaster

\* The reply gets on the wire, or is lost in a collision.
LEMMA TransmitStep ==
  ASSUME Enumerating, step # "reset", NEW c \in Children, Transmit(c), UNCHANGED masterVars
  PROVE  IInv'
<1>1. Types /\ Running /\ Map /\ Traffic /\ Budget
  BY DEF Enumerating, Running
<1>2. /\ UNCHANGED <<configuredAddress, mode, childPins, masterPins, losses>>
      /\ UNCHANGED <<step, connector, open, addressOf, tries, asking>>
      /\ hearers = {} /\ c \in Talkers
  BY DEF Transmit, masterVars
<1>3. UNCHANGED places /\ UNCHANGED mapVars
  BY <1>2 DEF places, mapVars
<1>4. pending' = [d \in Children |-> NoFrame]
  BY DEF Transmit
<1>5. Talkers' = {}
  BY <1>4 DEF Talkers
<1>6. pending[c] \in Frames /\ pending[c] # NoFrame /\ pending[c].from = c
  BY <1>1, <1>2 DEF Talkers, Types, WireTypes
<1>7. Map'
  BY <1>1, <1>3, SameMap
<1>8. asking' \in BOOLEAN /\ tries' \in 0 .. MaxTries
  BY <1>1, <1>2 DEF Types, MasterTypes
<1>9. asking' => Visiting' /\ ~ OwnPin'
  BY <1>1, <1>2, <1>3, SameAsked DEF Traffic
<1>10. CASE Talkers = {c}
  <2>1. wire' = pending[c] /\ hearers' = (Children \cup {Master}) \ {c}
    BY <1>10 DEF Transmit
  <2>2. Types'
    <3>1. WireTypes'
      BY <1>1, <1>2, <1>4, <1>6, <2>1 DEF Types, WireTypes
    <3>2. QED
      BY <1>1, <1>3, <1>8, <3>1, SameTypes
  <2>3. Traffic'
    <3>1. ReplyOf(c, pending[c]) /\ Truthful(c, pending[c])
      BY <1>1, <1>2 DEF Traffic
    <3>2. /\ Asked(c)' = Asked(c) /\ Here(c)' = Here(c) /\ NewAddress' = NewAddress
          /\ Assigning' = Assigning
      BY <1>2, <1>3, SameAsked DEF Talkers
    <3>3. ReplyOf(c, wire)' /\ Truthful(c, wire)'
      BY <1>2, <2>1, <3>1, <3>2 DEF ReplyOf, Truthful
    <3>4. wire'.from = c /\ c \in Children /\ c \notin hearers'
      BY <1>2, <1>6, <2>1 DEF Talkers
    <3>5. FromChild'
      BY <1>5, <3>3, <3>4 DEF FromChild
    <3>6. QED
      BY <1>5, <1>9, <3>5 DEF Traffic
  <2>4. Noisy' => Noisy
    BY <1>2, <1>5, <1>6, <2>1, ChildBusAssumption DEF Noisy, Talkers
  <2>5. ASSUME Hope PROVE Hope'
    <3>1. ASSUME Alive PROVE Alive'
      <4>1. PICK t \in Children : Asked(t) /\ AliveFor(t)
        BY <3>1 DEF Alive
      <4>2. t \in Talkers /\ pending[t].code = COMMAND_OK /\ pending[t].address = RequestFrame.address
        BY <1>2, <4>1 DEF AliveFor, Talkers
      <4>3. t = c
        BY <1>10, <4>2
      <4>4. RequestFrame' = RequestFrame /\ Asked(t)'
        BY <1>3, <4>1, SameAsked
      <4>5. Master \in hearers'
        BY <2>1, ChildBusAssumption
      <4>6. QED
        BY <1>6, <2>1, <4>2, <4>3, <4>4, <4>5 DEF Alive, AliveFor
    <3>2. QED
      BY <1>2, <1>3, <2>5, <3>1, SameHope
  <2>6. Budget'
    BY <1>1, <1>2, <1>3, <2>4, <2>5, SameBudget
  <2>7. QED
    BY <1>1, <1>2, <1>7, <2>2, <2>3, <2>6, EnumeratingNext DEF Running
<1>11. CASE Talkers # {c}
  <2>1. wire' = wire /\ hearers' = {}
    BY <1>2, <1>11 DEF Transmit
  <2>2. Types'
    <3>1. WireTypes'
      BY <1>1, <1>2, <1>4, <2>1 DEF Types, WireTypes
    <3>2. QED
      BY <1>1, <1>3, <1>8, <3>1, SameTypes
  <2>3. Traffic'
    BY <1>5, <1>9, <2>1 DEF Traffic
  <2>4. Noisy
    <3>1. SUFFICES ASSUME ~ Noisy PROVE FALSE
      OBVIOUS
    <3>2. PICK d \in Talkers : d # c
      BY <1>2, <1>11
    <3>3. \A e \in Talkers : e \in Children /\ Asked(e)
      BY <1>1, <3>1 DEF Traffic, ReplyOf, Truthful, Noisy, Talkers
    <3>4. QED
      BY <1>1, <1>2, <3>2, <3>3, AskedOnce
  <2>5. Budget'
    <3>1. Visiting' = Visiting /\ step' = step /\ \A d \in Children : Here(d)' = Here(d)
      BY <1>2, <1>3, SameAsked
    <3>2. QED
      BY <1>1, <1>2, <2>4, <3>1 DEF Budget
  <2>6. QED
    BY <1>1, <1>2, <1>7, <2>2, <2>3, <2>5, EnumeratingNext DEF Running
<1>12. QED
  BY <1>10, <1>11

-----------------------------------------------------------------------------
(***************************************************************************)
(* The enumeration: requests, noise and timeouts.                          *)
(***************************************************************************)
LEMMA AskStep ==
  ASSUME Enumerating, step # "reset", MasterAsks
  PROVE  IInv'
<1>1. Types /\ Running /\ Map /\ Traffic /\ Budget
  BY DEF Enumerating, Running
<1>2. /\ wire' = RequestFrame /\ hearers' = Children /\ Talkers = {}
      /\ ~ asking /\ asking' = TRUE
      /\ step = "look" => tries' = tries
      /\ step # "look" => tries < MaxTries /\ tries' = tries + 1
      /\ UNCHANGED <<configuredAddress, mode, childPins, pending, masterPins, losses,
                     step, connector, open, addressOf>>
  BY DEF MasterAsks, Send, childVars, Quiet
<1>3. UNCHANGED places /\ UNCHANGED mapVars
  BY <1>2 DEF places, mapVars
<1>4. Visiting /\ ~ OwnPin
  BY <1>1 DEF MasterAsks, Running, Visiting, Types, MasterTypes, Steps
<1>5. /\ RequestFrame \in Frames /\ RequestFrame # NoFrame
      /\ RequestFrame.from = Master /\ ~ RequestFrame.short
  BY <1>1, <1>4, RequestFields
<1>6. Types'
  <2>1. WireTypes'
    BY <1>1, <1>2, <1>5 DEF Types, WireTypes
  <2>2. asking' \in BOOLEAN
    BY <1>2
  <2>3. tries' \in 0 .. MaxTries
    BY <1>1, <1>2, Numbers DEF Types, MasterTypes
  <2>4. QED
    BY <1>1, <1>3, <2>1, <2>2, <2>3, SameTypes
<1>7. Map'
  BY <1>1, <1>3, SameMap
<1>8. RequestFrame' = RequestFrame /\ Visiting' /\ ~ OwnPin'
  BY <1>3, <1>4, SameAsked
<1>9. Talkers' = {}
  BY <1>2 DEF Talkers
<1>10. Traffic'
  <2>1. FromMaster'
    BY <1>2, <1>5, <1>8 DEF FromMaster
  <2>2. QED
    BY <1>8, <1>9, <2>1 DEF Traffic
<1>11. Budget'
  <2>1. SUFFICES ASSUME (step = "discover" => \E c \in Children : Here(c))'
                 PROVE  tries' <= losses' \/ (tries' <= losses' + 1 /\ Hope' /\ ~ Noisy')
    BY DEF Budget
  <2>2. step = "discover" => \E c \in Children : Here(c)
    BY <1>2, <1>3, <2>1, SameAsked
  <2>3. tries <= losses \/ (tries <= losses + 1 /\ Hope)
    BY <1>1, <1>4, <2>2 DEF Budget
  <2>4. step # "look" => tries <= losses
    BY <1>2, <2>3 DEF Hope, Assigning
  <2>5. tries' <= losses' \/ tries' <= losses' + 1
    BY <1>1, <1>2, <2>3, <2>4, Numbers DEF Types, WireTypes, MasterTypes
  <2>6. ~ Noisy'
    BY <1>2, <1>5, <1>9 DEF Noisy
  <2>7. Alive'
    <3>1. PICK t \in Children : Asked(t)
      BY <1>1, <1>4, <2>2, SomeoneAsked
    <3>2. Asked(t)' /\ t \in hearers' /\ pending'[t] = NoFrame
      BY <1>2, <1>3, <3>1, SameAsked DEF Talkers
    <3>3. QED
      BY <1>2, <1>8, <3>2 DEF Alive, AliveFor
  <2>8. step = "look" /\ ~ (tries <= losses) => Taken
    BY <2>3 DEF Hope
  <2>9. Assigning' = Assigning /\ Taken' = Taken
    BY <1>3, SameAsked
  <2>10. CASE step = "look" /\ tries <= losses
    BY <1>2, <2>10
  <2>11. CASE step = "look" /\ ~ (tries <= losses)
    <3>1. Hope'
      BY <1>2, <2>7, <2>8, <2>9, <2>11 DEF Hope, Assigning
    <3>2. QED
      BY <1>2, <2>3, <2>6, <2>11, <3>1
  <2>12. CASE step # "look"
    <3>1. Hope'
      BY <1>2, <2>7, <2>9, <2>12 DEF Hope, Assigning
    <3>2. QED
      BY <2>5, <2>6, <3>1
  <2>13. QED
    BY <2>10, <2>11, <2>12
<1>12. QED
  BY <1>1, <1>2, <1>6, <1>7, <1>10, <1>11, EnumeratingNext DEF Running

\* Frames that are no request.
LEMMA OtherFrame ==
  ASSUME Enumerating, step # "reset", Quiet, UNCHANGED <<mapVars, pending, tries, asking>>,
         wire' \in Frames, wire'.from = Master, hearers' = Children,
         \/ \E a \in ShortAddresses : wire' = ShortFrame(a)
         \/ step = "done" /\ \E a \in Given : wire' = Frame(Master, a, START_APPLICATION, << >>),
         losses' \in 0 .. MaxLosses, Budget'
  PROVE  IInv'
<1>1. Types /\ Running /\ Map /\ Traffic
  BY DEF Enumerating, Running
<1>2. UNCHANGED places /\ step' = step /\ asking' = asking
  BY DEF mapVars, places
<1>3. wire' # NoFrame
  BY ChildBusAssumption
<1>4. Types'
  <2>1. WireTypes'
    BY <1>1, <1>3 DEF Types, WireTypes
  <2>2. asking' \in BOOLEAN
    BY <1>1, <1>2 DEF Types
  <2>3. tries' \in 0 .. MaxTries
    BY <1>1 DEF Types, MasterTypes
  <2>4. QED
    BY <1>1, <2>1, <2>2, <2>3, SameTypes
<1>5. Map'
  BY <1>1, SameMap
<1>6. FromMaster'
  <2>1. Given' = Given
    BY <1>2, SameAsked
  <2>2. QED
    BY <1>2, <2>1 DEF FromMaster
<1>7. Talkers' = {}
  BY DEF Quiet, Talkers
<1>8. asking' => Visiting' /\ ~ OwnPin'
  BY <1>1, <1>2, SameAsked DEF Traffic
<1>9. Traffic'
  BY <1>6, <1>7, <1>8 DEF Traffic
<1>10. QED
  BY <1>1, <1>2, <1>4, <1>5, <1>9, EnumeratingNext DEF Running

LEMMA StartStep ==
  ASSUME Enumerating, MasterStartsApplication
  PROVE  IInv'
<1>1. Types /\ Running /\ Budget
  BY DEF Enumerating, Running
<1>2. PICK a \in Given : wire' = Frame(Master, a, START_APPLICATION, << >>)
  BY DEF MasterStartsApplication, Send
<1>3. /\ step = "done" /\ Quiet /\ hearers' = Children
      /\ UNCHANGED <<configuredAddress, mode, childPins, pending, masterPins, losses>>
      /\ UNCHANGED <<step, connector, open, addressOf, tries, asking>>
  BY DEF MasterStartsApplication, Send, masterVars, childVars
<1>4. a \in Nat
  BY <1>1, Numbers DEF Types, MasterTypes
<1>5. wire' \in Frames /\ wire'.from = Master
  <2>1. << >> \in Seq(Nat) /\ START_APPLICATION \in Nat
    BY DEF START_APPLICATION
  <2>2. QED
    BY <1>2, <1>4, <2>1 DEF Frame, Frames
<1>6. UNCHANGED <<mapVars, pending, tries, asking>>
  BY <1>3 DEF mapVars, places
<1>7. losses' \in 0 .. MaxLosses
  BY <1>1, <1>3 DEF Types, WireTypes
<1>8. Budget'
  BY <1>3 DEF Budget, Visiting
<1>9. QED
  BY <1>2, <1>3, <1>5, <1>6, <1>7, <1>8, OtherFrame

LEMMA NoiseStep ==
  ASSUME Enumerating, Noise
  PROVE  IInv'
<1>1. Types /\ Running /\ Budget
  BY DEF Enumerating, Running
<1>2. PICK a \in ShortAddresses : wire' = ShortFrame(a)
  BY DEF Noise
<1>3. /\ step # "reset" /\ Quiet /\ hearers' = Children /\ losses < MaxLosses /\ losses' = losses + 1
      /\ UNCHANGED <<configuredAddress, mode, childPins, pending, masterPins>>
      /\ UNCHANGED <<step, connector, open, addressOf, tries, asking>>
  BY DEF Noise, masterVars, childVars
<1>4. wire' \in Frames /\ wire'.from = Master
  <2>1. << >> \in Seq(Nat) /\ a \in Nat
    BY EnumerationAssumption
  <2>2. QED
    BY <1>2, <2>1 DEF ShortFrame, Frames
<1>5. UNCHANGED <<mapVars, pending, tries, asking>> /\ UNCHANGED <<places, tries>>
  BY <1>3 DEF mapVars, places
<1>6. losses' \in 0 .. MaxLosses
  BY <1>1, <1>3, Numbers DEF Types, WireTypes
<1>7. Budget'
  BY <1>1, <1>3, <1>5, LossBudget
<1>8. QED
  BY <1>2, <1>3, <1>4, <1>5, <1>6, <1>7, OtherFrame

\* Between SET_ADDRESS and the look at the new address.
LEMMA AssignOrLook ==
  ASSUME Types, Map, Assigning, step' \in {"assign", "look"},
         UNCHANGED <<configuredAddress, connector, addressOf, mode, childPins, masterPins, open>>
  PROVE  /\ Map' /\ Visiting /\ Visiting' /\ ~ OwnPin'
         /\ Assigning' /\ NewAddress' = NewAddress /\ Given' = Given
         /\ \A c \in Children : Here(c)' = Here(c) /\ Asked(c)' = Asked(c)
         /\ Taken' = Taken
         /\ RequestFrame' \in Frames /\ RequestFrame'.from = Master /\ ~ RequestFrame'.short
<1>1. \A c \in Children : /\ Reached(c)' = Reached(c) /\ ConnectorOf(c)' = ConnectorOf(c)
                          /\ Here(c)' = Here(c)
  BY SamePlaces
<1>2. NewAddress' = NewAddress /\ Given' = Given
  BY DEF NewAddress, Given
<1>3. step \in {"assign", "look"}
  BY DEF Assigning
<1>4. /\ Visiting' /\ Occupied' /\ Assigning' /\ ~ OwnPin' /\ Visiting /\ Occupied
  BY <1>3 DEF Visiting, Occupied, Assigning, OwnPin
<1>5. \A k : Place(k)' = Place(k)
  BY DEF Place
<1>6. Addresses' /\ Mapped'
  BY <1>1, <1>2, <1>3, <1>4 DEF Map, Addresses, Mapped
<1>7. Known' /\ Ahead'
  BY <1>1, <1>2, <1>3, <1>4, <1>5 DEF Map, Known, Ahead
<1>8. AtHand' /\ PinsOnly'
  BY <1>1, <1>2, <1>3, <1>4, <1>5 DEF Map, AtHand, PinsOnly
<1>9. PinOn' /\ Covered'
  BY <1>1, <1>2, <1>3, <1>4, Plugs DEF Map, PinOn, Covered
<1>10. \A c \in Children : Asked(c)' = Asked(c)
  BY <1>1, <1>3 DEF Asked
<1>11. Taken' = Taken
  BY <1>1 DEF Taken
<1>12. RequestFrame' \in Frames /\ RequestFrame'.from = Master /\ ~ RequestFrame'.short
  <2>1. NewAddress \in Nat
    BY Numbers DEF Map, AtHand
  <2>2. << >> \in Seq(Nat) /\ <<NewAddress, 0>> \in Seq(Nat)
    BY <2>1
  <2>3. GET_PROTOCOL_VERSION \in Nat /\ SET_ADDRESS \in Nat /\ InitialAddress \in Nat
    BY Numbers DEF GET_PROTOCOL_VERSION, SET_ADDRESS
  <2>4. \/ RequestFrame' = Frame(Master, InitialAddress, SET_ADDRESS, <<NewAddress, 0>>)
        \/ RequestFrame' = Frame(Master, NewAddress, GET_PROTOCOL_VERSION, << >>)
    BY <1>2 DEF RequestFrame
  <2>5. \E a \in Nat, n \in Nat, d \in Seq(Nat) : RequestFrame' = Frame(Master, a, n, d)
    BY <2>1, <2>2, <2>3, <2>4
  <2>6. QED
    BY <2>5, MasterFrame
<1>13. QED
  BY <1>1, <1>2, <1>4, <1>6, <1>7, <1>8, <1>9, <1>10, <1>11, <1>12 DEF Map

\* Nobody is on the connector.
LEMMA NobodyHere ==
  ASSUME Types, Map, step = "discover", \A c \in Children : ~ Here(c), step' = "deselect",
         UNCHANGED <<configuredAddress, connector, addressOf, mode, childPins, masterPins, open>>
  PROVE  Map'
<1>1. \A c \in Children : /\ Reached(c)' = Reached(c) /\ ConnectorOf(c)' = ConnectorOf(c)
                          /\ Here(c)' = Here(c)
  BY SamePlaces
<1>2. /\ Visiting' /\ ~ Occupied' /\ ~ Assigning' /\ Visiting /\ ~ Occupied /\ ~ Assigning
  BY DEF Visiting, Occupied, Assigning
<1>3. \A k : Place(k)' = Place(k)
  BY DEF Place
<1>4. Addresses' /\ Mapped'
  BY <1>1, <1>2 DEF Map, Addresses, Mapped
<1>5. Known' /\ Ahead'
  BY <1>1, <1>2, <1>3 DEF Map, Known, Ahead
<1>6. AtHand' /\ PinsOnly'
  BY <1>1, <1>2, <1>3 DEF Map, AtHand, PinsOnly
<1>7. PinOn' /\ Covered'
  BY <1>1, <1>2 DEF Map, PinOn, Covered
<1>8. QED
  BY <1>4, <1>5, <1>6, <1>7 DEF Map

\* The types, when the master goes on.
LEMMA MasterTypesNext ==
  ASSUME Types, UNCHANGED <<configuredAddress, mode, childPins, masterPins, pending>>,
         UNCHANGED <<connector, open, addressOf>>, WireTypes',
         step' \in Steps, tries' \in 0 .. MaxTries, asking' \in BOOLEAN
  PROVE  Types'
<1>1. ChildTypes'
  BY DEF Types, ChildTypes
<1>2. MasterTypes'
  BY DEF Types, MasterTypes, Given
<1>3. QED
  BY <1>1, <1>2 DEF Types

LEMMA TimeOutStep ==
  ASSUME Persistent, Enumerating, step # "reset", MasterTimesOut
  PROVE  IInv'
<1>1. Types /\ Running /\ Map /\ Traffic /\ Budget /\ Visiting /\ ~ OwnPin
  BY DEF Enumerating, Running, MasterTimesOut, Traffic
<1>2. /\ asking /\ asking' = FALSE /\ hearers = {} /\ Talkers = {}
      /\ UNCHANGED <<configuredAddress, mode, childPins, pending, masterPins, wire, hearers, losses>>
      /\ UNCHANGED <<connector, open, addressOf>>
  BY DEF MasterTimesOut, Quiet, busVars, childVars, wireVars
<1>3. /\ tries \in 0 .. MaxTries /\ losses \in 0 .. MaxLosses
  BY <1>1 DEF Types, WireTypes, MasterTypes
<1>4. ~ Alive
  BY <1>2 DEF Alive, AliveFor, Talkers
<1>5. (step = "discover" => \E c \in Children : Here(c)) =>
        \/ tries <= losses
        \/ tries <= losses + 1 /\ step = "assign" /\ Taken
  BY <1>1, <1>2, <1>4 DEF Budget, Hope, Assigning
<1>6. Traffic'
  BY <1>2 DEF Traffic, Talkers
<1>7. Talkers' = {} /\ hearers' = {}
  BY <1>2 DEF Talkers
<1>8. ~ Noisy'
  BY <1>7 DEF Noisy
<1>9. WireTypes' /\ asking' \in BOOLEAN
  BY <1>1, <1>2 DEF Types, WireTypes
<1>10. CASE step = "assign"
  <2>1. step' = "look" /\ tries' = tries
    BY <1>10 DEF MasterTimesOut
  <2>2. Types'
    BY <1>1, <1>2, <1>3, <1>9, <2>1, MasterTypesNext DEF Steps
  <2>3. Assigning
    BY <1>10 DEF Assigning
  <2>4. Map' /\ Taken' = Taken
    BY <1>1, <1>2, <2>1, <2>3, AssignOrLook
  <2>5. Taken => Hope'
    BY <1>2, <2>1, <2>4 DEF Hope, Assigning
  <2>6. Budget'
    BY <1>2, <1>5, <1>8, <1>10, <2>1, <2>5 DEF Budget
  <2>7. QED
    BY <1>6, <2>1, <2>2, <2>4, <2>6, EnumeratingNext DEF Running
<1>11. CASE step # "assign" /\ tries < MaxTries
  <2>1. step' = (IF step = "look" THEN "assign" ELSE step) /\ tries' = tries
    BY <1>11 DEF MasterTimesOut
  <2>2. Types'
    <3>1. step' \in Steps
      BY <1>1, <2>1 DEF Types, MasterTypes, Steps
    <3>2. QED
      BY <1>1, <1>2, <1>3, <1>9, <2>1, <3>1, MasterTypesNext
  <2>3. CASE step = "look"
    <3>1. Map'
      BY <1>1, <1>2, <2>1, <2>3, AssignOrLook DEF Assigning
    <3>2. Budget'
      BY <1>2, <1>5, <2>1, <2>3 DEF Budget
    <3>3. QED
      BY <1>6, <2>1, <2>2, <2>3, <3>1, <3>2, EnumeratingNext DEF Running
  <2>4. CASE step # "look"
    <3>1. UNCHANGED places /\ UNCHANGED mapVars /\ step' = step
      BY <1>2, <2>1, <2>4 DEF places, mapVars
    <3>2. Map'
      BY <1>1, <3>1, SameMap
    <3>3. \A c \in Children : Here(c)' = Here(c)
      BY <3>1, SameAsked
    <3>4. Budget'
      BY <1>2, <1>5, <1>11, <2>1, <3>1, <3>3 DEF Budget
    <3>5. QED
      BY <1>1, <1>6, <2>2, <3>1, <3>2, <3>4, EnumeratingNext DEF Running
  <2>5. QED
    BY <2>3, <2>4
<1>12. CASE step # "assign" /\ ~ (tries < MaxTries)
  <2>1. step' = (IF step = "discover" THEN "deselect" ELSE "failed") /\ tries' = 0
    BY <1>12 DEF MasterTimesOut
  <2>2. ~ (tries <= losses)
    BY <1>3, <1>12, Numbers DEF Persistent
  <2>3. step = "discover" /\ \A c \in Children : ~ Here(c)
    BY <1>5, <1>12, <2>2
  <2>4. Map'
    BY <1>1, <1>2, <2>1, <2>3, NobodyHere
  <2>5. Types'
    BY <1>1, <1>2, <1>9, <2>1, <2>3, Numbers, MasterTypesNext DEF Steps
  <2>6. Budget'
    BY <1>2, <1>3, <2>1, Numbers DEF Budget
  <2>7. QED
    BY <1>6, <2>1, <2>3, <2>4, <2>5, <2>6, EnumeratingNext DEF Running
<1>13. QED
  BY <1>10, <1>11, <1>12

\* The master repeats a request that has been heard.
LEMMA TooEarlyStep ==
  ASSUME Enumerating, step # "reset", MasterIsTooEarly
  PROVE  IInv'
<1>1. Types /\ Running /\ Map /\ Traffic /\ Budget /\ Visiting /\ ~ OwnPin
  BY DEF Enumerating, Running, MasterIsTooEarly, Traffic
<1>2. /\ asking /\ asking' = asking /\ hearers = {}
      /\ UNCHANGED <<configuredAddress, mode, childPins, masterPins>>
      /\ UNCHANGED <<connector, open, addressOf>>
      /\ losses' <= MaxLosses
      /\ \/ /\ losses' = losses + 1 /\ wire' = RequestFrame' /\ hearers' = Children
            /\ pending' = pending
         \/ /\ losses' = losses + 2 /\ pending' = [c \in Children |-> NoFrame]
            /\ wire' = wire /\ hearers' = hearers
  BY DEF MasterIsTooEarly
<1>3. \/ step = "assign" /\ step' = "look" /\ tries' = tries
      \/ step = "look" /\ step' = "assign" /\ tries' = tries + 1 /\ tries < MaxTries
      \/ ~ Assigning /\ step' = step /\ tries' = tries + 1 /\ tries < MaxTries
  BY DEF MasterIsTooEarly, Assigning
<1>4. tries \in 0 .. MaxTries /\ losses \in 0 .. MaxLosses
  BY <1>1 DEF Types, WireTypes, MasterTypes
<1>5. /\ Map' /\ Visiting' /\ ~ OwnPin' /\ Given' = Given
      /\ Assigning' = Assigning /\ NewAddress' = NewAddress /\ Taken' = Taken
      /\ \A c \in Children : Here(c)' = Here(c) /\ Asked(c)' = Asked(c)
      /\ RequestFrame' \in Frames /\ RequestFrame'.from = Master /\ ~ RequestFrame'.short
  <2>1. CASE Assigning
    BY <1>1, <1>2, <1>3, <2>1, AssignOrLook DEF Assigning
  <2>2. CASE ~ Assigning
    <3>1. UNCHANGED places /\ UNCHANGED mapVars
      BY <1>2, <1>3, <2>2 DEF places, mapVars, Assigning
    <3>2. QED
      BY <1>1, <3>1, SameAsked, SameMap, RequestFields
  <2>3. QED
    BY <2>1, <2>2
<1>6. step' \in Steps /\ step' # "reset" /\ step' # "failed" /\ tries' \in 0 .. MaxTries
  BY <1>1, <1>3, <1>4, Numbers DEF Types, MasterTypes, Steps, Running
<1>7. losses' \in 0 .. MaxLosses
  BY <1>2, <1>4, Numbers
<1>8. asking' \in BOOLEAN
  BY <1>1, <1>2 DEF Types
<1>9. Types'
  <2>1. ChildTypes'
    BY <1>1, <1>2 DEF Types, ChildTypes
  <2>2. MasterTypes'
    BY <1>1, <1>2, <1>5, <1>6 DEF Types, MasterTypes
  <2>3. WireTypes'
    <3>1. CASE wire' = RequestFrame' /\ hearers' = Children /\ pending' = pending
      <4>1. RequestFrame' # NoFrame
        BY <1>5, ChildBusAssumption
      <4>2. QED
        BY <1>1, <1>5, <1>7, <3>1, <4>1 DEF Types, WireTypes
    <3>2. CASE pending' = [c \in Children |-> NoFrame] /\ wire' = wire /\ hearers' = hearers
      BY <1>1, <1>7, <3>2 DEF Types, WireTypes
    <3>3. QED
      BY <1>2, <3>1, <3>2
  <2>4. QED
    BY <1>8, <2>1, <2>2, <2>3 DEF Types
<1>10. \A c \in Talkers' : c \in Talkers /\ pending'[c] = pending[c]
  BY <1>2 DEF Talkers
<1>11. Traffic'
  <2>1. hearers' # {} => FromMaster'
    BY <1>2, <1>5 DEF FromMaster
  <2>2. ASSUME NEW c \in Talkers' PROVE ReplyOf(c, pending[c])' /\ Truthful(c, pending[c])'
    <3>1. c \in Talkers /\ c \in Children /\ pending'[c] = pending[c]
      BY <1>10 DEF Talkers
    <3>2. ReplyOf(c, pending[c]) /\ Truthful(c, pending[c])
      BY <1>1, <3>1 DEF Traffic
    <3>3. ReplyOf(c, pending[c])'
      BY <1>2, <1>3, <1>5, <3>1, <3>2 DEF ReplyOf, Assigning
    <3>4. Truthful(c, pending[c])'
      BY <1>2, <1>3, <1>5, <3>1, <3>2 DEF Truthful, Assigning
    <3>5. QED
      BY <3>3, <3>4
  <2>3. QED
    BY <1>5, <2>1, <2>2 DEF Traffic
<1>12. Noisy' => Noisy
  BY <1>2, <1>5, <1>10 DEF Noisy
<1>13. Budget'
  <2>1. SUFFICES ASSUME (step = "discover" => \E c \in Children : Here(c))'
                 PROVE  tries' <= losses' \/ (tries' <= losses' + 1 /\ Hope' /\ ~ Noisy')
    BY DEF Budget
  <2>2. step = "discover" => \E c \in Children : Here(c)
    BY <1>3, <1>5, <2>1 DEF Assigning
  <2>3. tries <= losses \/ (tries <= losses + 1 /\ Hope /\ ~ Noisy)
    BY <1>1, <2>2 DEF Budget
  <2>4. CASE tries <= losses \/ losses' = losses + 2 \/ step = "assign"
    <3>1. tries' <= losses' \/ tries' = tries + 1
      BY <1>2, <1>3, <1>4, <2>3
    <3>2. tries <= losses => tries' <= losses'
      BY <1>2, <1>3, <1>4
    <3>3. losses' = losses + 2 => tries' <= losses'
      BY <1>3, <1>4, <2>3
    <3>4. step = "assign" => tries' <= losses'
      BY <1>2, <1>3, <1>4, <2>3 DEF Assigning
    <3>5. QED
      BY <2>4, <3>2, <3>3, <3>4
  <2>5. CASE ~ (tries <= losses) /\ losses' = losses + 1 /\ step # "assign"
    <3>1. tries' <= losses' + 1 /\ Hope /\ ~ Noisy
      BY <1>3, <1>4, <2>3, <2>5
    <3>2. pending' = pending
      BY <1>2, <1>4, <2>5
    <3>3. CASE step = "look"
      <4>1. step' = "assign" /\ Taken
        BY <1>3, <3>1, <3>3 DEF Hope, Assigning
      <4>2. Hope'
        BY <1>2, <1>5, <4>1 DEF Hope, Assigning
      <4>3. QED
        BY <1>12, <3>1, <4>2
    <3>4. CASE step # "look"
      <4>1. step' = step /\ ~ Assigning /\ UNCHANGED places
        BY <1>2, <1>3, <2>5, <3>4 DEF Assigning, places
      <4>2. PICK t \in Children : Asked(t) /\ AliveFor(t)
        BY <3>1, <4>1 DEF Hope, Alive
      <4>3. RequestFrame' = RequestFrame /\ Asked(t)'
        BY <1>5, <4>1, <4>2, SameAsked
      <4>4. AliveFor(t)'
        BY <1>2, <3>2, <4>2, <4>3 DEF AliveFor
      <4>5. Hope'
        BY <1>2, <1>5, <4>1, <4>3, <4>4 DEF Hope, Alive, Assigning
      <4>6. QED
        BY <1>12, <3>1, <4>5
    <3>5. QED
      BY <3>3, <3>4
  <2>6. QED
    BY <1>2, <2>4, <2>5
<1>14. QED
  BY <1>5, <1>6, <1>9, <1>11, <1>13, EnumeratingNext DEF Running

-----------------------------------------------------------------------------
(***************************************************************************)
(* The enumeration: the next connector, and the master's own pins.         *)
(***************************************************************************)
\* Nothing has been asked, nor can a reply be taken for one.
LEMMA OtherStepTraffic ==
  ASSUME Types, Traffic, ~ asking, asking' = FALSE, step # "done",
         UNCHANGED <<configuredAddress, pending, wire, hearers>>,
         step \in {"select", "discover", "assign", "look", "count"} =>
           /\ step' \in {"select", "discover", "assign", "look", "count"}
           /\ connector' = connector
  PROVE  Traffic'
<1>1. step \in {"select", "discover", "assign", "look", "count"} =>
        \A c \in Children : Here(c)' = Here(c)
  BY SamePlaces
<1>2. \A c \in Children : \A f : ReplyOf(c, f) => ReplyOf(c, f)'
  BY <1>1 DEF ReplyOf
<1>3. \A c \in Children : \A f : ReplyOf(c, f) /\ Truthful(c, f) => f.code = INVALID_TRANSFER
  BY DEF ReplyOf, Truthful
<1>4. \A c \in Children : \A f : f.code = INVALID_TRANSFER => Truthful(c, f)'
  BY DEF Truthful, COMMAND_OK, INVALID_TRANSFER
<1>5. Talkers' = Talkers
  BY DEF Talkers
<1>6. hearers' # {} => FromMaster' \/ FromChild'
  <2>1. SUFFICES ASSUME hearers # {} PROVE FromMaster' \/ FromChild'
    OBVIOUS
  <2>2. CASE FromMaster
    BY <2>2 DEF FromMaster
  <2>3. CASE FromChild
    <3>1. wire.from \in Children /\ wire.from \notin hearers /\ Talkers = {} /\ ReplyOf(wire.from, wire)
      BY <2>3 DEF FromChild
    <3>2. ReplyOf(wire.from, wire)'
      BY <3>1, <1>1 DEF ReplyOf
    <3>3. Master \in hearers => Truthful(wire.from, wire)'
      <4>1. SUFFICES ASSUME Master \in hearers PROVE Truthful(wire.from, wire)'
        OBVIOUS
      <4>2. wire.code = INVALID_TRANSFER
        BY <1>3, <2>3, <3>1, <4>1 DEF FromChild
      <4>3. QED
        BY <4>2 DEF Truthful, COMMAND_OK, INVALID_TRANSFER
    <3>4. QED
      BY <1>5, <3>1, <3>2, <3>3 DEF FromChild
  <2>4. QED
    BY <2>1, <2>2, <2>3 DEF Traffic
<1>7. ASSUME NEW c \in Talkers' PROVE ReplyOf(c, pending[c])' /\ Truthful(c, pending[c])'
  <2>1. c \in Talkers /\ c \in Children
    BY <1>5 DEF Talkers
  <2>2. ReplyOf(c, pending[c]) /\ pending[c].code = INVALID_TRANSFER
    BY <1>3, <2>1 DEF Traffic
  <2>3. ReplyOf(c, pending[c])'
    BY <2>1, <2>2, <1>1 DEF ReplyOf
  <2>4. Truthful(c, pending[c])'
    BY <2>2 DEF Truthful, COMMAND_OK, INVALID_TRANSFER
  <2>5. QED
    BY <2>3, <2>4
<1>8. QED
  BY <1>6, <1>7 DEF Traffic

LEMMA FirstTry ==
  ASSUME Types, tries' = 0, losses' = losses
  PROVE  Budget' /\ tries' \in 0 .. MaxTries
BY Numbers DEF Budget, Types, WireTypes

LEMMA PickStep ==
  ASSUME Enumerating, Pick
  PROVE  IInv'
<1>1. Types /\ Running /\ Map /\ Traffic
  BY DEF Enumerating, Running
<1>2. /\ step = "pick" /\ tries' = 0 /\ asking' = FALSE
      /\ UNCHANGED <<configuredAddress, mode, childPins, pending, masterPins, wire, hearers, losses>>
      /\ addressOf' = addressOf
      /\ \/ open = {} /\ step' = "done" /\ connector' = connector /\ open' = open
         \/ \E k \in open : connector' = k /\ open' = open \ {k} /\ step' = "select"
  BY DEF Pick, GoTo, busVars, childVars, wireVars
<1>3. ~ asking /\ ~ Visiting /\ ~ Occupied /\ ~ Assigning
  BY <1>1, <1>2 DEF Traffic, Visiting, Occupied, Assigning
<1>4. ~ Occupied' /\ ~ Assigning' /\ step' # "reset" /\ step' # "failed"
  BY <1>2 DEF Occupied, Assigning
<1>5. \A c \in Children : Reached(c)' = Reached(c) /\ ConnectorOf(c)' = ConnectorOf(c)
  BY <1>2 DEF Reached, ConnectorOf
<1>6. \A k : Place(k)' = Place(k)
  BY <1>2 DEF Place
<1>7. Types'
  <2>1. ChildTypes'
    BY <1>1, <1>2 DEF Types, ChildTypes
  <2>2. WireTypes'
    BY <1>1, <1>2 DEF Types, WireTypes
  <2>3. connector' \in Nat \X Nat /\ open' \subseteq Nat \X Nat
    BY <1>1, <1>2 DEF Types, MasterTypes
  <2>4. MasterTypes'
    BY <1>1, <1>2, <2>3, Numbers DEF Types, MasterTypes, Given, Steps
  <2>5. asking' \in BOOLEAN
    BY <1>2
  <2>6. QED
    BY <2>1, <2>2, <2>4, <2>5 DEF Types
<1>8. Addresses'
  BY <1>1, <1>2, <1>5 DEF Map, Addresses
<1>9. Mapped' /\ Known'
  BY <1>1, <1>2, <1>3, <1>4, <1>5 DEF Map, Mapped, Known
<1>10. Ahead'
  BY <1>1, <1>2, <1>4, <1>5, <1>6 DEF Map, Ahead
<1>11. AtHand'
  <2>1. Visiting' => step' = "select" /\ connector' \in open
    BY <1>2 DEF Visiting
  <2>2. QED
    BY <1>1, <1>2, <1>4, <1>5, <1>6, <2>1 DEF Map, AtHand, Ahead
<1>12. PinsOnly' /\ PinOn'
  BY <1>1, <1>2, <1>3 DEF Map, PinsOnly, PinOn
<1>13. Covered'
  <2>1. SUFFICES ASSUME NEW c \in Children, Reached(c)', configuredAddress'[c] = 0,
                        ConnectorOf(c)' \notin open'
                 PROVE  Here(c)' /\ step' = "select"
    BY <1>4 DEF Covered
  <2>2. ConnectorOf(c) \in open
    BY <1>1, <1>2, <1>3, <1>5, <2>1 DEF Map, Covered
  <2>3. QED
    BY <1>2, <1>5, <2>1, <2>2 DEF Here
<1>14. Traffic'
  BY <1>1, <1>2, <1>3, OtherStepTraffic
<1>15. Budget'
  BY <1>1, <1>2, FirstTry
<1>16. QED
  BY <1>4, <1>7, <1>8, <1>9, <1>10, <1>11, <1>12, <1>13, <1>14, <1>15, EnumeratingNext
  DEF Running, Map

\* The map, when the master goes on to the next step at the same connector.
LEMMA NextStepMap ==
  ASSUME Types, Map, Visiting, ~ Assigning, ~ Assigning', ~ Occupied, ~ Occupied',
         step' \in {"discover", "pick"}, step = "select" <=> step' = "discover",
         step = "deselect" <=> step' = "pick",
         UNCHANGED <<configuredAddress, connector, addressOf, mode, open>>,
         Addresses', PinsOnly', PinOn'
  PROVE  Map'
<1>1. \A c \in Children : /\ Reached(c)' = Reached(c) /\ ConnectorOf(c)' = ConnectorOf(c)
                          /\ Here(c)' = Here(c)
  BY SamePlaces
<1>2. \A k : Place(k)' = Place(k)
  BY DEF Place
<1>3. Mapped' /\ Known'
  BY <1>1 DEF Map, Mapped, Known
<1>4. Ahead' /\ AtHand'
  BY <1>1, <1>2 DEF Map, Ahead, AtHand, Visiting
<1>5. Covered'
  BY <1>1 DEF Map, Covered
<1>6. QED
  BY <1>3, <1>4, <1>5 DEF Map

LEMMA OwnPinStep ==
  ASSUME Enumerating, SwitchOwnPin
  PROVE  IInv'
<1>1. Types /\ Running /\ Map /\ Traffic
  BY DEF Enumerating, Running
<1>2. /\ step \in {"select", "deselect"} /\ connector[1] = 0
      /\ tries' = 0 /\ asking' = FALSE
      /\ UNCHANGED <<configuredAddress, mode, childPins, pending, wire, hearers, losses>>
      /\ UNCHANGED <<connector, open, addressOf>>
      /\ step = "select" => step' = "discover" /\ masterPins' = masterPins \cup {connector[2]}
      /\ step = "deselect" => step' = "pick" /\ masterPins' = masterPins \ {connector[2]}
  BY DEF SwitchOwnPin, OwnPin, GoTo, childVars, wireVars
<1>3. ~ asking
  BY <1>1 DEF Traffic, SwitchOwnPin
<1>4. /\ connector = <<0, connector[2]>> /\ connector[2] \in Nat
      /\ Visiting /\ ~ Assigning /\ ~ Assigning' /\ ~ Occupied /\ ~ Occupied'
  BY <1>1, <1>2 DEF Types, MasterTypes, Visiting, Assigning, Occupied
<1>5. Types'
  <2>1. ChildTypes'
    BY <1>1, <1>2, <1>4 DEF Types, ChildTypes
  <2>2. WireTypes'
    BY <1>1, <1>2 DEF Types, WireTypes
  <2>3. MasterTypes'
    BY <1>1, <1>2, Numbers DEF Types, MasterTypes, Given, Steps
  <2>4. asking' \in BOOLEAN
    BY <1>2
  <2>5. QED
    BY <2>1, <2>2, <2>3, <2>4 DEF Types
<1>6. PinsOnly' /\ PinOn'
  <2>1. CASE step = "select"
    BY <1>1, <1>2, <1>4, <2>1 DEF Map, PinsOnly, PinOn, Visiting
  <2>2. CASE step = "deselect"
    <3>1. masterPins' = {}
      BY <1>1, <1>2, <2>2 DEF Map, PinsOnly
    <3>2. \A p \in Children : childPins[p] = {}
      <4>1. SUFFICES ASSUME NEW p \in Children, NEW i \in childPins[p] PROVE FALSE
        OBVIOUS
      <4>2. configuredAddress[p] = 0
        BY <1>1, <1>2, <4>1 DEF Map, PinsOnly
      <4>3. QED
        BY <1>1, <4>1, <4>2 DEF Map, Addresses
    <3>3. QED
      BY <1>2, <2>2, <3>1, <3>2 DEF PinsOnly, PinOn
  <2>3. QED
    BY <1>2, <2>1, <2>2
<1>7. Addresses'
  <2>1. \A c \in Children : Reached(c)' = Reached(c)
    BY <1>2, SamePlaces
  <2>2. QED
    BY <1>1, <1>2, <2>1 DEF Map, Addresses
<1>8. Map'
  BY <1>1, <1>2, <1>4, <1>6, <1>7, NextStepMap
<1>9. Traffic'
  BY <1>1, <1>2, <1>3, OtherStepTraffic
<1>10. Budget'
  BY <1>1, <1>2, FirstTry
<1>11. QED
  BY <1>2, <1>5, <1>8, <1>9, <1>10, EnumeratingNext DEF Running

\* Back to the reset.
LEMMA RestartStep ==
  ASSUME Enumerating, MasterRestarts
  PROVE  IInv'
<1>1. Types
  BY DEF Enumerating
<1>2. /\ hearers = {} /\ Talkers = {}
      /\ step' = "reset" /\ tries' = 0 /\ asking' = FALSE
      /\ masterPins' = {} /\ losses' = 0 /\ connector' = NoConnector /\ open' = {}
      /\ addressOf' = << >>
      /\ UNCHANGED <<configuredAddress, mode, childPins, pending>>
      /\ \/ wire' = wire /\ hearers' = hearers
         \/ wire' = ResetAddressFrame /\ hearers' = Children
  BY DEF MasterRestarts, GoTo, Quiet, childVars, ResetAddressFrame
<1>3. DOMAIN addressOf' = {}
  BY <1>2
<1>4. Given' = {}
  BY <1>3 DEF Given
<1>5. Types'
  <2>1. ChildTypes'
    BY <1>1, <1>2 DEF Types, ChildTypes
  <2>2. WireTypes'
    BY <1>1, <1>2, ResetFrames, Numbers DEF Types, WireTypes
  <2>3. connector' \in Nat \X Nat /\ open' \subseteq Nat \X Nat
    BY <1>2 DEF NoConnector
  <2>4. MasterTypes'
    BY <1>2, <1>4, <2>3, Numbers DEF MasterTypes, Steps
  <2>5. asking' \in BOOLEAN
    BY <1>2
  <2>6. QED
    BY <2>1, <2>2, <2>4, <2>5 DEF Types
<1>6. Talkers' = {}
  BY <1>2 DEF Talkers
<1>7. Resetting'
  BY <1>2, <1>6 DEF Resetting
<1>8. QED
  BY <1>2, <1>5, <1>7 DEF IInv

-----------------------------------------------------------------------------
(***************************************************************************)
(* The enumeration: what the master hears.                                 *)
(***************************************************************************)
\* The map, when the child on the connector at hand has been found.
LEMMA FoundMap ==
  ASSUME Types, Map, step = "discover", step' = "assign", NEW t \in Children, Here(t),
         UNCHANGED <<configuredAddress, connector, addressOf, mode, childPins, masterPins, open>>
  PROVE  Map'
<1>1. \A c \in Children : /\ Reached(c)' = Reached(c) /\ ConnectorOf(c)' = ConnectorOf(c)
                          /\ Here(c)' = Here(c)
  BY SamePlaces
<1>2. /\ Visiting /\ Visiting' /\ ~ Occupied /\ Occupied' /\ ~ Assigning /\ Assigning'
  BY DEF Visiting, Occupied, Assigning
<1>3. \A k : Place(k)' = Place(k)
  BY DEF Place
<1>4. \A c \in Children : Here(c) => configuredAddress[c] = 0
  BY DEF Map, AtHand, Here
<1>5. NewAddress \in Pool \ Given
  BY <1>4, FreeAddress DEF Map
<1>6. NewAddress' = NewAddress /\ Given' = Given
  BY DEF NewAddress, Given
<1>7. Addresses' /\ Known'
  BY <1>1 DEF Map, Addresses, Known
<1>8. Mapped'
  BY <1>1, <1>2, <1>4 DEF Map, Mapped
<1>9. Ahead'
  BY <1>1, <1>2, <1>3, <1>4 DEF Map, Ahead
<1>10. AtHand'
  <2>1. connector \notin DOMAIN addressOf
    BY DEF Map, AtHand, Known
  <2>2. \A c, d \in Children : Here(c) /\ Plug[d][1] = c => configuredAddress[d] = 0
    BY <1>4, ChildBusAssumption DEF Map, Addresses, Reached
  <2>3. QED
    BY <1>1, <1>2, <1>3, <1>5, <1>6, <2>1, <2>2 DEF Map, AtHand
<1>11. PinsOnly' /\ PinOn'
  BY <1>2 DEF Map, PinsOnly, PinOn
<1>12. Covered'
  BY <1>1, <1>2 DEF Map, Covered
<1>13. QED
  BY <1>7, <1>8, <1>9, <1>10, <1>11, <1>12 DEF Map

\* The map, when the child is known to have its address.
LEMMA AddressedMap ==
  ASSUME Types, Map, Assigning, step' = "count",
         NEW t \in Children, Here(t), configuredAddress[t] = NewAddress,
         UNCHANGED <<configuredAddress, connector, mode, childPins, masterPins, open>>,
         addressOf' = [k \in DOMAIN addressOf \cup {connector} |->
                        IF k = connector THEN NewAddress ELSE addressOf[k]]
  PROVE  Map' /\ Given' \subseteq Pool
<1>1. \A c \in Children : /\ Reached(c)' = Reached(c) /\ ConnectorOf(c)' = ConnectorOf(c)
                          /\ Here(c)' = Here(c)
  BY SamePlaces
<1>2. /\ Visiting /\ Visiting' /\ Occupied /\ Occupied' /\ ~ Assigning'
  BY DEF Visiting, Occupied, Assigning
<1>3. \A k : Place(k)' = Place(k)
  BY DEF Place
<1>4. connector \notin DOMAIN addressOf /\ NewAddress \in Pool /\ NewAddress # 0
  BY Numbers DEF Map, AtHand
<1>5. /\ DOMAIN addressOf' = DOMAIN addressOf \cup {connector}
      /\ addressOf'[connector] = NewAddress
      /\ \A k \in DOMAIN addressOf : addressOf'[k] = addressOf[k]
  BY <1>4
<1>6. ConnectorOf(t) = connector /\ \A c \in Children : Here(c) => c = t
  BY OnePerConnector DEF Map, Here
<1>7. Addresses'
  BY <1>1 DEF Map, Addresses, Assigning
<1>8. Mapped'
  BY <1>1, <1>2, <1>5, <1>6 DEF Map, Mapped
<1>9. Known'
  BY <1>1, <1>4, <1>5, <1>6 DEF Map, Known
<1>10. Ahead'
  BY <1>1, <1>2, <1>3 DEF Map, Ahead
<1>11. AtHand'
  BY <1>1, <1>2, <1>3, <1>5 DEF Map, AtHand
<1>12. PinsOnly' /\ PinOn'
  BY <1>2 DEF Map, PinsOnly, PinOn, Assigning
<1>13. Covered'
  BY <1>1, <1>2, <1>4, <1>6, Plugs DEF Map, Covered, Assigning
<1>14. Given' \subseteq Pool
  BY <1>4, <1>5 DEF Types, MasterTypes, Given
<1>15. QED
  BY <1>7, <1>8, <1>9, <1>10, <1>11, <1>12, <1>13, <1>14 DEF Map

\* The map, when the connectors of the child are known.
LEMMA CountedMap ==
  ASSUME Types, Map, step = "count", step' = "deselect", NEW t \in Children, Asked(t),
         UNCHANGED <<configuredAddress, connector, addressOf, mode, childPins, masterPins>>,
         open' = open \cup { <<addressOf[connector], i>> : i \in 0 .. NumChildren[t] - 1 }
  PROVE  Map' /\ open' \subseteq Nat \X Nat
<1>1. \A c \in Children : /\ Reached(c)' = Reached(c) /\ ConnectorOf(c)' = ConnectorOf(c)
                          /\ Here(c)' = Here(c)
  BY SamePlaces
<1>2. /\ Visiting /\ Visiting' /\ Occupied /\ ~ Occupied' /\ ~ Assigning /\ ~ Assigning'
  BY DEF Visiting, Occupied, Assigning
<1>3. \A k : Place(k)' = Place(k)
  BY DEF Place
<1>4. addressOf[connector] = configuredAddress[t] /\ configuredAddress[t] # 0 /\ Here(t)
  BY AskedState
<1>5. ConnectorOf(t) = connector /\ \A c \in Children : Here(c) => c = t
  BY <1>4, OnePerConnector DEF Map, Here
<1>6. NumChildren[t] \in Nat /\ configuredAddress[t] \in Nat
  BY Plugs, Numbers DEF Types, ChildTypes
<1> DEFINE found == { <<configuredAddress[t], i>> : i \in 0 .. NumChildren[t] - 1 }
<1>7. open' = open \cup found
  BY <1>4
<1>8. ASSUME NEW k \in found
      PROVE  /\ k[1] = configuredAddress[t] /\ k[2] \in 0 .. NumChildren[t] - 1
             /\ k \in Nat \X Nat /\ Place(k)
             /\ \A c \in Children : configuredAddress[c] # 0 => ConnectorOf(c) # k
             /\ k # connector
  <2>1. PICK i \in 0 .. NumChildren[t] - 1 : k = <<configuredAddress[t], i>>
    OBVIOUS
  <2>2. k[1] = configuredAddress[t] /\ k[2] = i
    BY <2>1
  <2>3. Place(k)
    BY <1>4, <2>2 DEF Place
  <2>4. ASSUME NEW c \in Children, configuredAddress[c] # 0, ConnectorOf(c) = k PROVE FALSE
    <3>1. Plug[c][1] # Master /\ configuredAddress[Plug[c][1]] = configuredAddress[t]
      BY <1>4, <2>2, <2>4 DEF ConnectorOf
    <3>2. Plug[c][1] = t
      BY <1>4, <3>1, Plugs DEF Map, Addresses
    <3>3. QED
      BY <1>2, <1>4, <2>4, <3>2 DEF Map, AtHand
  <2>5. k # connector
    BY <1>4, <1>5, <2>4
  <2>6. QED
    BY <1>6, <2>1, <2>2, <2>3, <2>4, <2>5
<1> HIDE DEF found
<1>9. Addresses'
  BY <1>1 DEF Map, Addresses
<1>10. Mapped' /\ Known'
  BY <1>1, <1>2 DEF Map, Mapped, Known
<1>11. Ahead'
  BY <1>1, <1>2, <1>3, <1>7, <1>8 DEF Map, Ahead
<1>12. AtHand'
  BY <1>1, <1>2, <1>3 DEF Map, AtHand
<1>13. PinsOnly' /\ PinOn'
  BY <1>2 DEF Map, PinsOnly, PinOn
<1>14. Covered'
  <2>1. SUFFICES ASSUME NEW c \in Children, Reached(c), configuredAddress[c] = 0
                 PROVE  ConnectorOf(c) \in open'
    BY <1>1 DEF Covered
  <2>2. CASE ConnectorOf(c) \in open
    BY <1>7, <2>2
  <2>3. CASE Plug[c][1] # Master /\ Here(Plug[c][1])
    <3>1. Plug[c][1] = t /\ Plug[c][2] \in Nat /\ Plug[c][2] < NumChildren[t]
      BY <1>5, <2>3, Plugs
    <3>2. ConnectorOf(c) = <<configuredAddress[t], Plug[c][2]>>
      BY <2>3, <3>1 DEF ConnectorOf
    <3>3. Plug[c][2] \in 0 .. NumChildren[t] - 1
      BY <1>6, <3>1
    <3>4. QED
      BY <1>7, <3>2, <3>3 DEF found
  <2>4. QED
    BY <2>1, <2>2, <2>3 DEF Map, Covered
<1>15. open' \subseteq Nat \X Nat
  BY <1>7, <1>8 DEF Types, MasterTypes
<1>16. QED
  BY <1>9, <1>10, <1>11, <1>12, <1>13, <1>14, <1>15 DEF Map

\* The reply the master was waiting for.
LEMMA AnsweredStep ==
  ASSUME Enumerating, MasterHears, asking, wire.code = COMMAND_OK,
         wire.address = RequestFrame.address
  PROVE  IInv'
<1>1. Types /\ Running /\ Map /\ Traffic /\ Visiting /\ ~ OwnPin
  BY DEF Enumerating, Running, Traffic
<1>2. /\ Heard(Master) /\ Master \in hearers /\ hearers # {}
      /\ UNCHANGED <<configuredAddress, mode, childPins, pending, masterPins, losses>>
      /\ Answered(wire.data) /\ connector' = connector
  BY DEF MasterHears, Heard, childVars
<1>3. FromChild
  BY <1>1, <1>2, ChildBusAssumption DEF Traffic, FromMaster
<1>4. PICK t \in Children :
        /\ t = wire.from /\ t \notin hearers /\ Talkers = {}
        /\ ReplyOf(t, wire) /\ Truthful(t, wire) /\ Asked(t)
  BY <1>2, <1>3 DEF FromChild, Truthful
<1>5. /\ step' \in {"discover", "assign", "count", "deselect", "pick"}
      /\ tries' = 0 /\ asking' = FALSE
      /\ step = "select" => step' = "discover" /\ UNCHANGED <<open, addressOf>>
      /\ step = "discover" => step' = "assign" /\ UNCHANGED <<open, addressOf>>
      /\ Assigning => /\ step' = "count" /\ open' = open
                      /\ addressOf' = [k \in DOMAIN addressOf \cup {connector} |->
                                        IF k = connector THEN NewAddress ELSE addressOf[k]]
      /\ step = "count" =>
           /\ step' = "deselect" /\ addressOf' = addressOf
           /\ open' = open \cup { <<addressOf[connector], i>> : i \in 0 .. wire.data[2] - 1 }
      /\ step = "deselect" => step' = "pick" /\ UNCHANGED <<open, addressOf>>
  BY <1>1, <1>2 DEF Answered, GoTo, Visiting, Assigning
<1>6. WireTypes'
  BY <1>1, <1>2, HeardLess DEF Types, WireTypes
<1>7. asking' \in BOOLEAN /\ tries' \in 0 .. MaxTries /\ step' \in Steps
  <2>1. asking' \in BOOLEAN
    BY <1>5
  <2>2. tries' \in 0 .. MaxTries /\ step' \in Steps
    BY <1>5, Numbers DEF Steps
  <2>3. QED
    BY <2>1, <2>2
<1>8. ChildTypes'
  BY <1>1, <1>2 DEF Types, ChildTypes
<1>9. Map' /\ open' \subseteq Nat \X Nat /\ Given' \subseteq Pool
  <2>1. open \subseteq Nat \X Nat /\ Given \subseteq Pool /\ (addressOf' = addressOf => Given' = Given)
    BY <1>1 DEF Types, MasterTypes, Given
  <2>2. CASE step \in {"select", "deselect"}
    <3>1. connector[1] # 0 /\ configuredAddress[t] = connector[1]
      BY <1>4, <2>2 DEF Asked
    <3>2. /\ ~ Assigning /\ ~ Assigning' /\ ~ Occupied /\ ~ Occupied'
      BY <1>5, <2>2 DEF Assigning, Occupied
    <3>3. \A p \in Children : configuredAddress[p] = connector[1] => p = t
      BY <1>1, <1>4, <3>1 DEF Map, Addresses
    <3>4. Addresses'
      <4>1. \A c \in Children : Reached(c)' = Reached(c)
        BY <1>2, SamePlaces
      <4>2. QED
        BY <1>1, <1>2, <1>5, <2>2, <4>1 DEF Map, Addresses
    <3>5. PinsOnly' /\ PinOn'
      <4>1. CASE step = "select"
        <5>1. connector[2] \in childPins[t]
          BY <1>2, <1>4, <4>1 DEF Truthful
        <5>2. QED
          BY <1>1, <1>2, <1>5, <3>1, <3>3, <4>1, <5>1 DEF Map, PinsOnly, PinOn, Visiting
      <4>2. CASE step = "deselect"
        <5>1. connector[2] \notin childPins[t]
          BY <1>2, <1>4, <4>2 DEF Truthful
        <5>2. masterPins = {}
          BY <1>1, <3>1 DEF Map, PinsOnly
        <5>3. \A p \in Children : childPins[p] = {}
          BY <1>1, <3>1, <3>3, <5>1 DEF Map, PinsOnly
        <5>4. QED
          BY <1>2, <1>5, <4>2, <5>2, <5>3 DEF PinsOnly, PinOn
      <4>3. QED
        BY <2>2, <4>1, <4>2
    <3>6. Map'
      BY <1>1, <1>2, <1>5, <2>2, <3>2, <3>4, <3>5, NextStepMap
    <3>7. QED
      BY <1>5, <2>1, <2>2, <3>6
  <2>3. CASE step = "discover"
    <3>1. Here(t)
      BY <1>4, <2>3 DEF Asked
    <3>2. Map'
      BY <1>1, <1>2, <1>4, <1>5, <2>3, <3>1, FoundMap
    <3>3. QED
      BY <1>5, <2>1, <2>3, <3>2
  <2>4. CASE Assigning
    <3>1. Here(t) /\ configuredAddress[t] = NewAddress
      BY <1>4, <2>4 DEF Asked, Truthful, Assigning
    <3>2. Map' /\ Given' \subseteq Pool
      BY <1>1, <1>2, <1>4, <1>5, <2>4, <3>1, AddressedMap
    <3>3. QED
      BY <1>5, <2>1, <2>4, <3>2
  <2>5. CASE step = "count"
    <3>1. wire.data[2] = NumChildren[t]
      BY <1>4, <2>5 DEF Truthful
    <3>2. Map' /\ open' \subseteq Nat \X Nat
      BY <1>1, <1>2, <1>4, <1>5, <2>5, <3>1, CountedMap
    <3>3. QED
      BY <1>5, <2>1, <2>5, <3>2
  <2>6. QED
    BY <1>1, <2>2, <2>3, <2>4, <2>5 DEF Visiting, Assigning
<1>10. Types'
  <2>1. MasterTypes'
    BY <1>1, <1>2, <1>7, <1>9 DEF Types, MasterTypes
  <2>2. QED
    BY <1>6, <1>7, <1>8, <2>1 DEF Types
<1>11. Traffic'
  <2>1. Talkers' = {}
    BY <1>2, <1>4 DEF Talkers
  <2>2. SUFFICES ASSUME hearers' # {} PROVE FromChild'
    BY <1>5, <2>1 DEF Traffic
  <2>3. wire' = wire /\ t \notin hearers' /\ Master \notin hearers'
    BY <1>1, <1>2, <1>4, <2>2, HeardLess
  <2>4. \A c \in Children : Here(c)' = Here(c)
    BY <1>2, SamePlaces
  <2>5. wire.address \in InitialAddresses => step \in {"select", "discover", "assign"}
    <3>1. step = "count" => wire.address \in Pool
      <4>1. step = "count" => wire.address = addressOf[connector]
        BY DEF RequestFrame, Frame
      <4>2. step = "count" => addressOf[connector] \in Pool
        BY <1>1 DEF Types, MasterTypes, Given, Map, AtHand
      <4>3. QED
        BY <4>1, <4>2
    <3>2. step = "look" => wire.address \in Pool
      <4>1. step = "look" => wire.address = NewAddress
        BY DEF RequestFrame, Frame
      <4>2. QED
        BY <1>1, <4>1 DEF Map, AtHand, Assigning
    <3>3. step = "deselect" => wire.address \in Pool
      <4>1. step = "deselect" => wire.address = configuredAddress[t] /\ wire.address # 0
        BY <1>4 DEF RequestFrame, Frame, Asked
      <4>2. QED
        BY <1>1, <1>4, <4>1 DEF Types, ChildTypes
    <3>4. QED
      BY <1>1, <3>1, <3>2, <3>3, Numbers DEF Visiting
  <2>6. ReplyOf(t, wire)'
    <3>1. ReplyOf(t, wire) /\ t \in Children
      BY <1>4
    <3>2. wire.address \in InitialAddresses => step' \in {"discover", "assign", "count"}
      BY <1>5, <2>5 DEF Assigning
    <3>3. QED
      BY <1>2, <2>3, <2>4, <3>1, <3>2 DEF ReplyOf, COMMAND_OK, INVALID_TRANSFER
  <2>7. QED
    BY <1>4, <2>1, <2>3, <2>6 DEF FromChild
<1>12. Budget'
  BY <1>1, <1>2, <1>5, FirstTry
<1>13. QED
  BY <1>5, <1>9, <1>10, <1>11, <1>12, EnumeratingNext DEF Running

\* Any other reply.
LEMMA OtherReplyStep ==
  ASSUME Enumerating, step # "reset", MasterHears,
         ~ (asking /\ wire.address = RequestFrame.address /\ wire.code = COMMAND_OK)
  PROVE  IInv'
<1>1. Types /\ Running /\ Map /\ Traffic /\ Budget
  BY DEF Enumerating, Running
<1>2. /\ Heard(Master) /\ Master \in hearers /\ hearers # {}
      /\ UNCHANGED <<configuredAddress, mode, childPins, pending, masterPins, losses>>
      /\ UNCHANGED <<step, connector, open, addressOf, tries, asking>>
  BY DEF MasterHears, Heard, childVars, masterVars
<1>3. UNCHANGED places /\ UNCHANGED mapVars
  BY <1>2 DEF places, mapVars
<1>4. FromChild
  BY <1>1, <1>2, ChildBusAssumption DEF Traffic, FromMaster
<1>5. losses' \in 0 .. MaxLosses
  BY <1>1, <1>2 DEF Types, WireTypes
<1>6. Types'
  BY <1>1, <1>2, <1>3, <1>5, LeaveTypes
<1>7. Map'
  BY <1>1, <1>3, SameMap
<1>8. Traffic'
  BY <1>1, <1>2, <1>3, LeaveTraffic
<1>9. Noisy' => Noisy
  BY <1>1, <1>2, StillQuiet
<1>10. ASSUME Hope PROVE Hope'
  <2>1. ~ (Alive /\ asking)
    <3>1. ASSUME NEW t \in Children, AliveFor(t), asking PROVE FALSE
      <4>1. wire # RequestFrame
        BY <1>1, <1>4, <3>1, RequestFields, ChildBusAssumption DEF Traffic, FromChild
      <4>2. pending[t] = NoFrame
        BY <1>4 DEF FromChild, Talkers
      <4>3. QED
        BY <3>1, <4>1, <4>2 DEF AliveFor
    <3>2. QED
      BY <3>1 DEF Alive
  <2>2. QED
    BY <1>2, <1>3, <1>10, <2>1, SameHope
<1>11. Budget'
  BY <1>1, <1>2, <1>3, <1>9, <1>10, SameBudget
<1>12. QED
  BY <1>1, <1>2, <1>6, <1>7, <1>8, <1>11, EnumeratingNext DEF Running

-----------------------------------------------------------------------------
(***************************************************************************)
(* The enumeration: the child asked.                                       *)
(***************************************************************************)
\* The map, when a pin is switched.
LEMMA SwitchedMap ==
  ASSUME Types, Map, step \in {"select", "deselect"}, NEW c \in Children, Asked(c),
         UNCHANGED <<configuredAddress, mode, masterPins, step, connector, open, addressOf>>,
         connector[2] < NumChildren[c],
         childPins' = [childPins EXCEPT ![c] =
           IF step = "select" THEN childPins[c] \cup {connector[2]}
           ELSE childPins[c] \ {connector[2]}]
  PROVE  Map' /\ ChildTypes'
<1>1. \A d \in Children : /\ Reached(d)' = Reached(d) /\ ConnectorOf(d)' = ConnectorOf(d)
                          /\ Here(d)' = Here(d)
  BY SamePlaces
<1>2. /\ ~ Assigning /\ ~ Assigning' /\ ~ Occupied /\ ~ Occupied' /\ Visiting /\ Visiting'
  BY DEF Visiting, Assigning, Occupied
<1>3. \A k : Place(k)' = Place(k)
  BY DEF Place
<1>4. connector[1] # 0 /\ configuredAddress[c] = connector[1]
  BY DEF Asked
<1>5. connector = <<connector[1], connector[2]>> /\ connector[2] \in Nat
  BY DEF Types, MasterTypes
<1>6. /\ \A d \in Children : d # c => childPins'[d] = childPins[d]
      /\ childPins'[c] \subseteq childPins[c] \cup {connector[2]}
  BY DEF Types, ChildTypes
<1>7. Addresses'
  BY <1>1, <1>4, <1>6 DEF Map, Addresses
<1>8. Mapped' /\ Known'
  BY <1>1, <1>2 DEF Map, Mapped, Known
<1>9. Ahead' /\ AtHand'
  BY <1>1, <1>2, <1>3 DEF Map, Ahead, AtHand
<1>10. PinsOnly'
  BY <1>2, <1>4, <1>5, <1>6 DEF Map, PinsOnly
<1>11. PinOn' /\ Covered'
  BY <1>1, <1>2 DEF Map, PinOn, Covered
<1>12. ChildTypes'
  <2>1. childPins' \in [Children -> SUBSET Nat]
    BY <1>5 DEF Types, ChildTypes
  <2>2. connector[2] \in 0 .. NumChildren[c] - 1
    BY <1>5, Plugs
  <2>3. \A d \in Children : childPins'[d] \subseteq 0 .. NumChildren[d] - 1
    BY <1>6, <2>2 DEF Types, ChildTypes
  <2>4. QED
    BY <2>1, <2>3 DEF Types, ChildTypes
<1>13. QED
  BY <1>7, <1>8, <1>9, <1>10, <1>11, <1>12 DEF Map

\* The map, when the child takes its address.
LEMMA AssignedMap ==
  ASSUME Types, Map, step = "assign", NEW c \in Children, Here(c), configuredAddress[c] = 0,
         UNCHANGED <<mode, childPins, masterPins, step, connector, open, addressOf>>,
         configuredAddress' = [configuredAddress EXCEPT ![c] = NewAddress]
  PROVE  /\ Map' /\ ChildTypes'
         /\ \A d \in Children : Here(d)' = Here(d)
         /\ \A d \in Children : d # c => configuredAddress'[d] = configuredAddress[d]
         /\ NewAddress' = NewAddress /\ configuredAddress'[c] = NewAddress
<1>1. NewAddress \in Pool /\ NewAddress \notin Given /\ NewAddress # 0
  BY Numbers DEF Map, AtHand, Assigning
<1>2. NewAddress' = NewAddress /\ Given' = Given
  BY DEF NewAddress, Given
<1>3. /\ \A d \in Children : d # c => configuredAddress'[d] = configuredAddress[d]
      /\ configuredAddress'[c] = NewAddress
  BY DEF Types, ChildTypes
<1>4. \A d \in Children : Here(d) => d = c
  BY OnePerConnector DEF Map, Here
<1>5. \A d \in Children : configuredAddress[d] # 0 =>
        /\ ConnectorOf(d) \in DOMAIN addressOf /\ addressOf[ConnectorOf(d)] = configuredAddress[d]
        /\ configuredAddress[d] # NewAddress /\ d # c /\ Reached(d)
  <2>1. SUFFICES ASSUME NEW d \in Children, configuredAddress[d] # 0
                 PROVE  /\ ConnectorOf(d) \in DOMAIN addressOf
                        /\ addressOf[ConnectorOf(d)] = configuredAddress[d]
                        /\ configuredAddress[d] # NewAddress /\ d # c /\ Reached(d)
    OBVIOUS
  <2>2. ~ Here(d)
    BY <1>4, <2>1
  <2>3. ConnectorOf(d) \in DOMAIN addressOf /\ addressOf[ConnectorOf(d)] = configuredAddress[d]
    BY <2>1, <2>2 DEF Map, Mapped
  <2>4. QED
    BY <1>1, <2>1, <2>3 DEF Given, Map, Addresses
<1>6. /\ \A d \in Children : Plug[d][1] # c =>
           /\ Reached(d)' = Reached(d) /\ ConnectorOf(d)' = ConnectorOf(d)
           /\ Here(d)' = Here(d)
      /\ Plug[c][1] # c
  <2>1. ASSUME NEW d \in Children, Plug[d][1] # c
        PROVE  Reached(d)' = Reached(d) /\ ConnectorOf(d)' = ConnectorOf(d)
    BY <1>3, <2>1, Plugs DEF Reached, ConnectorOf
  <2>2. QED
    BY <2>1, Plugs DEF Here
<1>7. \A d \in Children : Plug[d][1] = c =>
        /\ ~ Reached(d) /\ configuredAddress[d] = 0 /\ d # c
        /\ Reached(d)' /\ ConnectorOf(d)' = <<NewAddress, Plug[d][2]>>
  <2>1. SUFFICES ASSUME NEW d \in Children, Plug[d][1] = c
                 PROVE  /\ ~ Reached(d) /\ configuredAddress[d] = 0 /\ d # c
                        /\ Reached(d)' /\ ConnectorOf(d)' = <<NewAddress, Plug[d][2]>>
    OBVIOUS
  <2>2. c # Master
    BY ChildBusAssumption
  <2>3. ~ Reached(d) /\ configuredAddress[d] = 0 /\ d # c
    BY <1>5, <1>6, <2>1, <2>2 DEF Reached
  <2>4. Reached(d)' /\ ConnectorOf(d)' = <<NewAddress, Plug[d][2]>>
    BY <1>1, <1>3, <2>1, <2>2 DEF Reached, ConnectorOf
  <2>5. QED
    BY <2>3, <2>4
<1>8. /\ Visiting /\ Visiting' /\ Occupied /\ Occupied' /\ Assigning /\ Assigning'
  BY DEF Visiting, Assigning, Occupied
<1>9. ASSUME NEW k, Place(k) PROVE Place(k)' /\ k[1] # NewAddress
  <2>1. CASE k[1] = 0
    BY <1>1, <1>9, <2>1 DEF Place
  <2>2. CASE k[1] # 0
    <3>1. PICK p \in Children : k[1] = configuredAddress[p] /\ k[2] \in 0 .. NumChildren[p] - 1
      BY <1>9, <2>2 DEF Place
    <3>2. p # c /\ k[1] # NewAddress
      BY <1>5, <2>2, <3>1
    <3>3. k[1] = configuredAddress'[p]
      BY <1>3, <3>1, <3>2
    <3>4. QED
      BY <2>2, <3>1, <3>2, <3>3 DEF Place
  <2>3. QED
    BY <2>1, <2>2
<1>10. Place(connector) /\ connector[1] # NewAddress
  BY <1>8, <1>9 DEF Map, AtHand
<1>11. \A d \in Children : Here(d)' = Here(d)
  <2>1. SUFFICES ASSUME NEW d \in Children, Plug[d][1] = c PROVE ~ Here(d) /\ ~ Here(d)'
    BY <1>6 DEF Here
  <2>2. ~ Here(d)
    BY <1>7, <2>1 DEF Here
  <2>3. ~ Here(d)'
    BY <1>7, <1>10, <2>1 DEF Here
  <2>4. QED
    BY <2>2, <2>3
<1>12. Addresses'
  BY <1>3, <1>5, <1>6, <1>7 DEF Map, Addresses, Here
<1>13. Mapped'
  <2>1. SUFFICES ASSUME NEW d \in Children, configuredAddress'[d] # 0, d # c
                 PROVE  /\ ConnectorOf(d)' \in DOMAIN addressOf
                        /\ addressOf[ConnectorOf(d)'] = configuredAddress'[d] /\ ~ Here(d)'
    BY <1>2, <1>3, <1>8, <1>11 DEF Mapped
  <2>2. configuredAddress[d] = configuredAddress'[d] /\ Plug[d][1] # c /\ ~ Here(d)
    BY <1>3, <1>4, <1>7, <2>1
  <2>3. QED
    BY <1>5, <1>6, <2>1, <2>2
<1>14. Known'
  <2>1. SUFFICES ASSUME NEW k \in DOMAIN addressOf
                 PROVE  \E d \in Children : /\ configuredAddress'[d] # 0 /\ ConnectorOf(d)' = k
                                            /\ addressOf[k] = configuredAddress'[d]
    BY DEF Known
  <2>2. PICK d \in Children : /\ configuredAddress[d] # 0 /\ ConnectorOf(d) = k
                              /\ addressOf[k] = configuredAddress[d]
    BY DEF Map, Known
  <2>3. d # c /\ Plug[d][1] # c
    BY <1>5, <1>7, <2>2
  <2>4. QED
    BY <1>3, <1>6, <2>2, <2>3
<1>15. Ahead'
  <2>1. SUFFICES ASSUME NEW k \in open
                 PROVE  /\ Place(k)' /\ k # connector
                        /\ \A d \in Children : configuredAddress'[d] # 0 => ConnectorOf(d)' # k
                        /\ \A d \in Children : Here(d)' /\ configuredAddress'[d] # 0
                                                 => k[1] # configuredAddress'[d]
    BY DEF Ahead
  <2>2. /\ Place(k) /\ k # connector
        /\ \A d \in Children : configuredAddress[d] # 0 => ConnectorOf(d) # k
    BY <1>8 DEF Map, Ahead
  <2>3. Place(k)' /\ k[1] # NewAddress
    BY <1>9, <2>2
  <2>4. ASSUME NEW d \in Children, configuredAddress'[d] # 0 PROVE ConnectorOf(d)' # k
    <3>1. CASE d = c
      BY <1>6, <2>2, <3>1 DEF Here
    <3>2. CASE d # c
      BY <1>3, <1>6, <1>7, <2>2, <2>4, <3>2
    <3>3. QED
      BY <3>1, <3>2
  <2>5. QED
    BY <1>3, <1>4, <1>11, <2>2, <2>3, <2>4
<1>16. AtHand'
  <2>1. Place(connector)'
    BY <1>9, <1>10
  <2>2. \A d, e \in Children : Here(d)' /\ Plug[e][1] = d => configuredAddress'[e] = 0
    BY <1>3, <1>4, <1>7, <1>11
  <2>3. QED
    BY <1>1, <1>2, <1>8, <1>11, <2>1, <2>2 DEF Map, AtHand
<1>17. childPins[c] = {}
  BY DEF Map, Addresses
<1>18. PinsOnly' /\ PinOn'
  BY <1>3, <1>8, <1>10, <1>17 DEF Map, PinsOnly, PinOn
<1>19. Covered'
  <2>1. SUFFICES ASSUME NEW d \in Children, Reached(d)', configuredAddress'[d] = 0,
                        ConnectorOf(d)' \notin open, ~ Here(d)'
                 PROVE  Plug[d][1] # Master /\ Here(Plug[d][1])'
    BY <1>8 DEF Covered
  <2>2. CASE Plug[d][1] = c
    BY <1>11, <2>2, ChildBusAssumption
  <2>3. CASE Plug[d][1] # c
    <3>1. Reached(d) /\ configuredAddress[d] = 0 /\ ConnectorOf(d) \notin open /\ ~ Here(d)
      BY <1>1, <1>3, <1>6, <2>1, <2>3
    <3>2. Plug[d][1] # Master /\ Here(Plug[d][1])
      BY <3>1 DEF Map, Covered
    <3>3. QED
      BY <1>11, <3>2, Plugs
  <2>4. QED
    BY <2>2, <2>3
<1>20. ChildTypes'
  BY <1>1 DEF Types, ChildTypes
<1>21. QED
  BY <1>2, <1>3, <1>11, <1>12, <1>13, <1>14, <1>15, <1>16, <1>18, <1>19, <1>20 DEF Map

\* The child does what the master asks, and is going to reply.
LEMMA ObeyStep ==
  ASSUME Enumerating, step # "reset", NEW c \in Children, Command(c), UNCHANGED masterVars,
         asking, wire = RequestFrame, Asked(c), Obeys(c), FromMaster
  PROVE  IInv'
<1>1. Types /\ Running /\ Map /\ Traffic /\ Budget /\ Visiting /\ ~ OwnPin
  BY DEF Enumerating, Running, Traffic
<1>2. /\ Heard(c) /\ Addressed(c) /\ pending[c] = NoFrame /\ hearers # {}
      /\ UNCHANGED <<masterPins, losses, step, connector, open, addressOf, tries, asking>>
      /\ mode' = mode
  BY DEF Command, Heard, Addressed, masterVars, Obeys
<1>3. PICK r \in Seq(Nat) :
        /\ step = "count" => r = <<NumChildren[c]>>
        /\ pending' = [pending EXCEPT ![c] =
                         ReplyFrame(c, RequestFrame.address, Result(COMMAND_OK, r))]
  BY DEF Obeys
<1> DEFINE f == ReplyFrame(c, RequestFrame.address, Result(COMMAND_OK, r))
<1>4. PICK a \in Nat : a = RequestFrame.address /\ a # 0
  BY <1>1, RequestFields DEF Frames
<1>5. PICK g : g = f
  OBVIOUS
<1>6. /\ g \in Frames /\ g # NoFrame /\ g.from = c /\ g.address = a /\ g.code = COMMAND_OK
      /\ ~ g.short /\ g.data # << >>
  <2>1. g = ReplyFrame(c, a, Result(COMMAND_OK, r)) /\ COMMAND_OK \in Nat
    BY <1>4, <1>5 DEF COMMAND_OK
  <2>2. QED
    BY <2>1, ReplyFields
<1>7. step = "count" => g.data[2] = NumChildren[c]
  BY <1>3, <1>5, ReplyOfCount, Plugs
<1>8. pending' = [pending EXCEPT ![c] = g]
  BY <1>3, <1>5
<1> HIDE DEF f
<1>9. WireTypes'
  BY <1>1, <1>2, <1>6, <1>8, HeardLess DEF Types, WireTypes
<1>10. step \in {"select", "deselect"} => connector[2] < NumChildren[c]
  BY <1>1, <1>2, WhoIsAsked
\* The state of the children.
<1>11. /\ Map' /\ ChildTypes'
       /\ \A d \in Children : Here(d)' = Here(d)
       /\ \A d \in Children : d # c => /\ configuredAddress'[d] = configuredAddress[d]
                                       /\ childPins'[d] = childPins[d]
       /\ step # "assign" => configuredAddress' = configuredAddress
       /\ step = "assign" => configuredAddress'[c] = NewAddress
       /\ step = "select" => connector[2] \in childPins'[c]
       /\ step = "deselect" => connector[2] \notin childPins'[c]
  <2>1. CASE step \in {"select", "deselect"}
    <3>1. /\ configuredAddress' = configuredAddress
          /\ childPins' = [childPins EXCEPT ![c] =
               IF step = "select" THEN childPins[c] \cup {connector[2]}
               ELSE childPins[c] \ {connector[2]}]
      BY <2>1 DEF Obeys
    <3>2. Map' /\ ChildTypes'
      BY <1>1, <1>2, <1>10, <2>1, <3>1, SwitchedMap
    <3>3. \A d \in Children : Here(d)' = Here(d)
      BY <1>2, <3>1, SamePlaces
    <3>4. QED
      BY <1>1, <2>1, <3>1, <3>2, <3>3 DEF Types, ChildTypes
  <2>2. CASE step = "assign"
    <3>1. /\ configuredAddress' = [configuredAddress EXCEPT ![c] = NewAddress]
          /\ childPins' = childPins
      BY <2>2 DEF Obeys
    <3>2. Here(c) /\ configuredAddress[c] = 0
      BY <1>1, <1>2, <2>2, WhoIsAsked DEF Asked
    <3>3. QED
      BY <1>1, <1>2, <2>2, <3>1, <3>2, AssignedMap
  <2>3. CASE step \in {"discover", "look", "count"}
    <3>1. configuredAddress' = configuredAddress /\ childPins' = childPins
      BY <2>3 DEF Obeys
    <3>2. UNCHANGED mapVars /\ UNCHANGED places
      BY <1>2, <3>1 DEF mapVars, places
    <3>3. Map'
      BY <1>1, <3>2, SameMap
    <3>4. ChildTypes'
      BY <1>1, <1>2, <3>1 DEF Types, ChildTypes
    <3>5. \A d \in Children : Here(d)' = Here(d)
      BY <1>2, <3>1, SamePlaces
    <3>6. QED
      BY <2>3, <3>1, <3>3, <3>4, <3>5
  <2>4. QED
    BY <1>1, <2>1, <2>2, <2>3 DEF Visiting
<1>12. Types'
  <2>1. MasterTypes'
    BY <1>1, <1>2 DEF Types, MasterTypes, Given
  <2>2. asking' \in BOOLEAN
    BY <1>1, <1>2 DEF Types
  <2>3. QED
    BY <1>9, <1>11, <2>1, <2>2 DEF Types
\* The request is the same, and so are the children it may be for.
<1>13. /\ Given' = Given /\ NewAddress' = NewAddress /\ RequestFrame' = RequestFrame
       /\ Visiting' = Visiting /\ OwnPin' = OwnPin /\ Assigning' = Assigning
  <2>1. Given' = Given
    BY <1>2 DEF Given
  <2>2. NewAddress' = NewAddress
    BY <2>1 DEF NewAddress
  <2>3. RequestFrame' = RequestFrame
    BY <1>2, <2>2 DEF RequestFrame
  <2>4. QED
    BY <1>2, <2>1, <2>2, <2>3 DEF Visiting, OwnPin, Assigning
<1>14. \A d \in Children : Asked(d)' = Asked(d)
  BY <1>2, <1>11 DEF Asked
<1>15. Talkers' = Talkers \cup {c}
  BY <1>1, <1>6, <1>8 DEF Talkers, Types, WireTypes
\* The new reply, and the others.
<1>16. ReplyOf(c, g)'
  <2>1. CASE step \in {"select", "deselect"}
    <3>1. a = connector[1] /\ configuredAddress'[c] = a
      BY <1>1, <1>4, <1>11, <2>1, AskedState DEF RequestFrame, Frame
    <3>2. QED
      BY <1>4, <1>6, <3>1 DEF ReplyOf
  <2>2. CASE step \in {"discover", "assign"}
    <3>1. a = InitialAddress /\ Here(c)'
      BY <1>1, <1>4, <1>11, <2>2, AskedState DEF RequestFrame, Frame
    <3>2. QED
      BY <1>2, <1>6, <2>2, <3>1, Numbers DEF ReplyOf
  <2>3. CASE step = "look"
    <3>1. a = NewAddress /\ configuredAddress'[c] = a
      BY <1>1, <1>2, <1>4, <1>11, <2>3, WhoIsAsked DEF RequestFrame, Frame
    <3>2. QED
      BY <1>4, <1>6, <3>1 DEF ReplyOf
  <2>4. CASE step = "count"
    <3>1. a = addressOf[connector] /\ configuredAddress'[c] = a
      BY <1>1, <1>2, <1>4, <1>11, <2>4, WhoIsAsked DEF RequestFrame, Frame
    <3>2. QED
      BY <1>4, <1>6, <3>1 DEF ReplyOf
  <2>5. QED
    BY <1>1, <2>1, <2>2, <2>3, <2>4 DEF Visiting
<1>17. Truthful(c, g)'
  <2>1. Assigning => configuredAddress'[c] = NewAddress
    BY <1>1, <1>2, <1>11, WhoIsAsked DEF Assigning
  <2>2. QED
    BY <1>2, <1>7, <1>11, <1>13, <1>14, <2>1 DEF Truthful
<1>18. ASSUME NEW d \in Talkers, d # c PROVE ReplyOf(d, pending[d])' /\ Truthful(d, pending[d])'
  <2>1. d \in Children /\ pending'[d] = pending[d]
    BY <1>1, <1>8, <1>18 DEF Talkers, Types, WireTypes
  <2>2. ReplyOf(d, pending[d]) /\ Truthful(d, pending[d])
    BY <1>1 DEF Traffic
  <2>3. ReplyOf(d, pending[d])'
    BY <1>2, <1>11, <1>18, <2>1, <2>2 DEF ReplyOf
  <2>4. pending[d].code # COMMAND_OK
    BY <1>1, <1>18, <2>1, <2>2, AskedOnce DEF Truthful
  <2>5. Truthful(d, pending[d])'
    BY <2>1, <2>4 DEF Truthful
  <2>6. QED
    BY <2>3, <2>5
<1>19. Traffic'
  <2>1. hearers' # {} => FromMaster'
    BY <1>1, <1>2, <1>13, HeardLess DEF FromMaster
  <2>2. pending'[c] = g
    BY <1>1, <1>8 DEF Types, WireTypes
  <2>3. ReplyOf(c, pending[c])' /\ Truthful(c, pending[c])'
    BY <1>16, <1>17, <2>2 DEF ReplyOf, Truthful
  <2>4. asking' => Visiting' /\ ~ OwnPin'
    BY <1>1, <1>13
  <2>5. QED
    BY <1>15, <1>18, <2>1, <2>3, <2>4 DEF Traffic
<1>20. Budget'
  <2>1. SUFFICES ASSUME (step = "discover" => \E d \in Children : Here(d))'
                 PROVE  tries' <= losses' \/ (tries' <= losses' + 1 /\ Hope' /\ ~ Noisy')
    BY DEF Budget
  <2>2. tries <= losses \/ (tries <= losses + 1 /\ Hope /\ ~ Noisy)
    BY <1>1, <1>2, <1>11, <2>1 DEF Budget
  <2>3. ASSUME Hope PROVE Hope'
    <3>1. pending'[c] = g
      BY <1>1, <1>8 DEF Types, WireTypes
    <3>2. Alive'
      BY <1>4, <1>6, <1>13, <1>14, <3>1 DEF Alive, AliveFor
    <3>3. step = "look" => Taken'
      BY <1>11, <2>3 DEF Hope, Taken
    <3>4. QED
      BY <1>2, <1>13, <3>2, <3>3 DEF Hope, Assigning
  <2>4. ASSUME ~ Noisy PROVE ~ Noisy'
    <3>1. hearers' # {} => wire' = wire
      BY <1>1, <1>2, HeardLess
    <3>2. ~ wire.short
      BY <1>1, RequestFields
    <3>3. \A d \in Talkers' : pending'[d].code # INVALID_TRANSFER
      BY <1>1, <1>6, <1>8, <1>15, <2>4 DEF Noisy, Talkers, Types, WireTypes, COMMAND_OK, INVALID_TRANSFER
    <3>4. QED
      BY <3>1, <3>2, <3>3 DEF Noisy
  <2>5. QED
    BY <1>2, <2>2, <2>3, <2>4
<1>21. QED
  BY <1>1, <1>2, <1>11, <1>12, <1>19, <1>20, EnumeratingNext DEF Running

\* An application is started.
LEMMA StartedStep ==
  ASSUME Enumerating, NEW c \in Children, Command(c), UNCHANGED masterVars, FromMaster,
         step = "done", UNCHANGED <<configuredAddress, childPins, pending>>,
         mode' = [mode EXCEPT ![c] = "application"]
  PROVE  IInv'
<1>1. Types /\ Running /\ Map /\ Traffic
  BY DEF Enumerating, Running
<1>2. /\ Heard(c)
      /\ UNCHANGED <<masterPins, losses, step, connector, open, addressOf, tries, asking>>
  BY DEF Command, masterVars
<1>3. UNCHANGED places
  BY <1>2 DEF places
<1>4. Types'
  <2>1. ChildTypes'
    BY <1>1, <1>2 DEF Types, ChildTypes
  <2>2. WireTypes'
    BY <1>1, <1>2, HeardLess DEF Types, WireTypes
  <2>3. MasterTypes'
    BY <1>1, <1>2 DEF Types, MasterTypes, Given
  <2>4. asking' \in BOOLEAN
    BY <1>1, <1>2 DEF Types
  <2>5. QED
    BY <2>1, <2>2, <2>3, <2>4 DEF Types
<1>5. Map'
  <2>1. \A d \in Children : /\ Reached(d)' = Reached(d) /\ ConnectorOf(d)' = ConnectorOf(d)
                            /\ Here(d)' = Here(d)
    BY <1>2, SamePlaces
  <2>2. /\ ~ Visiting /\ ~ Visiting' /\ ~ Occupied /\ ~ Occupied' /\ ~ Assigning /\ ~ Assigning'
    BY <1>2 DEF Visiting, Occupied, Assigning
  <2>3. \A k : Place(k)' = Place(k)
    BY DEF Place
  <2>4. Addresses' /\ Mapped' /\ Known'
    BY <1>1, <1>2, <2>1, <2>2 DEF Map, Addresses, Mapped, Known
  <2>5. Ahead' /\ AtHand'
    BY <1>1, <1>2, <2>1, <2>2, <2>3 DEF Map, Ahead, AtHand
  <2>6. PinsOnly' /\ PinOn' /\ Covered'
    BY <1>1, <1>2, <2>1, <2>2 DEF Map, PinsOnly, PinOn, Covered
  <2>7. QED
    BY <2>4, <2>5, <2>6 DEF Map
<1>6. Traffic'
  BY <1>1, <1>2, <1>3, LeaveTraffic
<1>7. Budget'
  BY <1>2 DEF Budget, Visiting
<1>8. QED
  BY <1>2, <1>4, <1>5, <1>6, <1>7, EnumeratingNext DEF Running

-----------------------------------------------------------------------------
(***************************************************************************)
(* The invariant.                                                          *)
(***************************************************************************)
LEMMA ChildrenStep ==
  ASSUME IInv, step # "reset", NEW c \in Children, ChildStep(c) \/ Transmit(c),
         UNCHANGED masterVars
  PROVE  IInv'
<1>1. Enumerating /\ Types /\ Running
  BY DEF IInv, Enumerating
<1>2. CASE Command(c)
  BY <1>1, <1>2, CommandOf, ObeyStep, StartedStep
<1>3. QED
  BY <1>1, <1>2, IgnoreStep, AnswerShortStep, GeneralCallStep, ApplicationResetNever, TransmitStep
  DEF ChildStep

LEMMA EnumerationStep ==
  ASSUME Persistent, IInv, step # "reset", Next
  PROVE  IInv'
<1>1. Enumerating
  BY DEF IInv, Enumerating
<1>2. ~ ResetDone
  BY DEF ResetDone
<1>3. CASE MasterAsks \/ Pick \/ SwitchOwnPin \/ MasterTimesOut
  BY <1>1, <1>3, AskStep, PickStep, OwnPinStep, TimeOutStep
<1>4. CASE MasterHears
  BY <1>1, <1>4, AnsweredStep, OtherReplyStep
<1>5. CASE MasterIsTooEarly \/ MasterStartsApplication \/ MasterRestarts \/ Noise
  BY <1>1, <1>5, TooEarlyStep, StartStep, RestartStep, NoiseStep
<1>6. CASE \E c \in Children : (ChildStep(c) \/ Transmit(c)) /\ UNCHANGED masterVars
  BY <1>6, ChildrenStep
<1>7. CASE \E h \in Children \cup {Master} : Lose(h) /\ UNCHANGED masterVars
  BY <1>1, <1>7, LoseStep
<1>8. QED
  BY <1>2, <1>3, <1>4, <1>5, <1>6, <1>7 DEF Next, MasterStep

LEMMA InvInit == EnumInit => IInv
<1> SUFFICES ASSUME EnumInit PROVE IInv
  OBVIOUS
<1>1. PICK asserting \in SUBSET Children :
        childPins = [c \in Children |-> IF c \in asserting THEN 0 .. NumChildren[c] - 1 ELSE {}]
  BY DEF EnumInit
<1>2. DOMAIN addressOf = {}
  BY DEF EnumInit
<1>3. Given = {}
  BY <1>2 DEF Given
<1>4. ChildTypes
  <2>1. \A c \in Children : NumChildren[c] \in Nat /\ 0 .. NumChildren[c] - 1 \subseteq Nat
    BY Plugs
  <2>2. childPins \in [Children -> SUBSET Nat]
    BY <1>1, <2>1
  <2>3. \A c \in Children : childPins[c] \subseteq 0 .. NumChildren[c] - 1
    BY <1>1
  <2>4. QED
    BY <2>2, <2>3 DEF EnumInit, ChildTypes
<1>5. WireTypes
  BY Numbers DEF EnumInit, WireTypes
<1>6. MasterTypes
  BY <1>3, Numbers DEF EnumInit, MasterTypes, Steps, NoConnector
<1>7. asking \in BOOLEAN
  BY DEF EnumInit
<1>8. Resetting
  BY DEF EnumInit, Resetting, Talkers
<1>9. step = "reset"
  BY DEF EnumInit
<1>10. QED
  BY <1>4, <1>5, <1>6, <1>7, <1>8, <1>9 DEF IInv, Types

LEMMA InvStutters == IInv /\ UNCHANGED enumVars => IInv'
<1> SUFFICES ASSUME IInv, UNCHANGED enumVars PROVE IInv'
  OBVIOUS
<1>1. /\ UNCHANGED <<configuredAddress, mode, childPins, pending, masterPins>>
      /\ UNCHANGED <<wire, hearers, losses>>
      /\ UNCHANGED <<step, connector, open, addressOf, tries, asking>>
  BY DEF enumVars, busVars, childVars, wireVars, masterVars
<1>2. Types'
  <2>1. ChildTypes'
    BY <1>1 DEF IInv, Types, ChildTypes
  <2>2. WireTypes'
    BY <1>1 DEF IInv, Types, WireTypes
  <2>3. MasterTypes' /\ asking' \in BOOLEAN
    BY <1>1 DEF IInv, Types, MasterTypes, Given
  <2>4. QED
    BY <2>1, <2>2, <2>3 DEF Types
<1>3. CASE step = "reset"
  <2>1. Resetting'
    BY <1>1, <1>3 DEF IInv, Resetting, Talkers, Fresh
  <2>2. QED
    BY <1>1, <1>2, <1>3, <2>1 DEF IInv
<1>4. CASE step # "reset"
  <2>1. UNCHANGED mapVars /\ UNCHANGED places
    BY <1>1 DEF mapVars, places
  <2>2. Types /\ Map /\ Traffic /\ Budget /\ step # "failed"
    BY <1>4 DEF IInv, Running
  <2>3. Map'
    BY <2>1, <2>2, SameMap
  <2>4. Talkers' = Talkers /\ RequestFrame' = RequestFrame /\ Given' = Given
    BY <1>1, <2>1, SameAsked DEF Talkers
  <2>5. \A c \in Children : Here(c)' = Here(c) /\ Asked(c)' = Asked(c)
    BY <2>1, SameAsked
  <2>6. Traffic'
    <3>1. Visiting' = Visiting /\ OwnPin' = OwnPin /\ Assigning' = Assigning /\ NewAddress' = NewAddress
      BY <2>1, SameAsked
    <3>2. hearers' # {} => FromMaster' \/ FromChild'
      <4>1. CASE FromMaster
        BY <1>1, <2>4, <4>1 DEF FromMaster
      <4>2. CASE FromChild
        BY <1>1, <2>4, <2>5, <3>1, <4>2 DEF FromChild, ReplyOf, Truthful
      <4>3. QED
        BY <1>1, <2>2, <4>1, <4>2 DEF Traffic
    <3>3. ASSUME NEW c \in Talkers PROVE ReplyOf(c, pending[c])' /\ Truthful(c, pending[c])'
      BY <1>1, <2>2, <2>5, <3>1 DEF Traffic, ReplyOf, Truthful, Talkers
    <3>4. QED
      BY <1>1, <2>2, <2>4, <3>1, <3>2, <3>3 DEF Traffic
  <2>7. Noisy' => Noisy
    BY <1>1, <2>4 DEF Noisy
  <2>8. Hope => Hope'
    <3>1. ASSUME NEW t \in Children, Asked(t), AliveFor(t) PROVE Asked(t)' /\ AliveFor(t)'
      BY <1>1, <2>4, <2>5, <3>1 DEF AliveFor
    <3>2. Alive => Alive'
      BY <3>1 DEF Alive
    <3>3. QED
      BY <1>1, <2>1, <3>2, SameHope
  <2>9. Budget'
    BY <1>1, <2>1, <2>2, <2>7, <2>8, SameBudget
  <2>10. QED
    BY <1>1, <1>2, <1>4, <2>2, <2>3, <2>6, <2>9, EnumeratingNext DEF Running
<1>5. QED
  BY <1>3, <1>4

LEMMA InvStep ==
  ASSUME Persistent
  PROVE  IInv /\ [Next]_enumVars => IInv'
BY ResetStep, EnumerationStep, InvStutters

\* IInv is an invariant of every behaviour.
THEOREM EnumerationInvariant ==
  ASSUME Persistent
  PROVE  Spec => []IInv
<1>1. IInv /\ [Next]_enumVars => IInv'
  BY InvStep
<1>2. QED
  BY <1>1, InvInit, PTL DEF Spec

-----------------------------------------------------------------------------
(***************************************************************************)
(* The properties.                                                         *)
(***************************************************************************)
LEMMA InvTypes == IInv => EnumTypeOK
<1> SUFFICES ASSUME IInv PROVE EnumTypeOK
  OBVIOUS
<1>1. Types
  BY DEF IInv
<1>2. configuredAddress \in [Children -> 0 .. 255]
  BY <1>1, Numbers DEF Types, ChildTypes
<1>3. wire = NoFrame \/ wire.from \in Children \cup {Master}
  BY <1>1 DEF Types, WireTypes, Frames
<1>4. BusTypeOK
  BY <1>1, <1>2, <1>3 DEF BusTypeOK, Types, ChildTypes, WireTypes
<1>5. QED
  BY <1>1, <1>4 DEF EnumTypeOK, Types, MasterTypes, Steps

LEMMA InvOneTalker == IInv => OneTalker
<1> SUFFICES ASSUME IInv PROVE OneTalker
  OBVIOUS
<1>1. \A c, d \in Repliers : c = d
  <2>1. CASE step = "reset"
    BY <2>1 DEF IInv, Resetting, Repliers
  <2>2. CASE step # "reset"
    <3>1. Types /\ Map /\ Traffic
      BY <2>2 DEF IInv, Running
    <3>2. \A c \in Repliers : c \in Children /\ Asked(c)
      BY <3>1 DEF Repliers, Talkers, Traffic, ReplyOf, Truthful
    <3>3. QED
      BY <3>1, <3>2, AskedOnce
  <2>3. QED
    BY <2>1, <2>2
<1>2. CASE Repliers = {}
  BY <1>2, FS_EmptySet DEF OneTalker
<1>3. CASE Repliers # {}
  <2>1. PICK c : Repliers = {c}
    BY <1>1, <1>3
  <2>2. Cardinality(Repliers) = 1
    BY <2>1, FS_Singleton
  <2>3. QED
    BY <2>2 DEF OneTalker
<1>4. QED
  BY <1>2, <1>3

LEMMA InvMapRight == IInv => MapRight
<1> SUFFICES ASSUME IInv, step = "done"
             PROVE  /\ DOMAIN addressOf = { ConnectorOf(c) : c \in Children }
                    /\ \A c \in Children : addressOf[ConnectorOf(c)] = configuredAddress[c]
                    /\ Cardinality(Given) = Cardinality(Children)
  BY DEF MapRight
<1>1. Types /\ Map
  BY DEF IInv, Running
<1>2. ~ Occupied /\ ~ Assigning /\ open = {}
  BY <1>1 DEF Occupied, Assigning, Map, Ahead
<1>3. \A c \in Children : configuredAddress[c] # 0
  <2> DEFINE S == { c \in Children : configuredAddress[c] = 0 }
  <2>1. SUFFICES ASSUME S # {} PROVE FALSE
    OBVIOUS
  <2>2. PICK c \in S : Plug[c][1] \notin S
    BY <2>1, TreeAssumption
  <2>3. Reached(c)
    BY <2>2, Plugs DEF Reached
  <2>4. QED
    BY <1>1, <1>2, <2>2, <2>3 DEF Map, Covered
<1>4. \A c \in Children : /\ ConnectorOf(c) \in DOMAIN addressOf
                          /\ addressOf[ConnectorOf(c)] = configuredAddress[c]
  BY <1>1, <1>2, <1>3 DEF Map, Mapped
<1>5. \A k \in DOMAIN addressOf : \E c \in Children :
        ConnectorOf(c) = k /\ addressOf[k] = configuredAddress[c]
  BY <1>1 DEF Map, Known
<1>6. Given = { configuredAddress[c] : c \in Children }
  BY <1>4, <1>5 DEF Given
<1>7. ExistsBijection(Children, Given)
  <2>1. configuredAddress \in [Children -> Given]
    BY <1>1, <1>6 DEF Types, ChildTypes
  <2>2. \A c, d \in Children : configuredAddress[c] = configuredAddress[d] => c = d
    BY <1>1, <1>3 DEF Map, Addresses
  <2>3. \A a \in Given : \E c \in Children : configuredAddress[c] = a
    BY <1>6
  <2>4. configuredAddress \in Bijection(Children, Given)
    BY <2>1, <2>2, <2>3 DEF Bijection, Injection, Surjection, IsInjective
  <2>5. QED
    BY <2>4 DEF ExistsBijection
<1>8. Cardinality(Given) = Cardinality(Children)
  BY <1>7, TreeAssumption, FS_Bijection
<1>9. QED
  BY <1>4, <1>5, <1>8

\* Whoever starts to reply has heard the master.
LEMMA InvReplies ==
  ASSUME IInv, [Next]_enumVars, NEW c \in Children, pending[c] = NoFrame, pending'[c] # NoFrame
  PROVE  wire.from = Master
<1>1. PICK d \in Children : AnswerShort(d) \/ Command(d)
  <2>1. pending' # pending
    OBVIOUS
  <2>2. ~ UNCHANGED enumVars
    BY <2>1 DEF enumVars, busVars, childVars
  <2>3. ~ MasterAsks /\ ~ ResetDone /\ ~ Pick /\ ~ SwitchOwnPin
    BY <2>1 DEF MasterAsks, Send, ResetDone, Pick, SwitchOwnPin, busVars, childVars
  <2>4. ~ MasterHears /\ ~ MasterTimesOut /\ ~ MasterStartsApplication
    BY <2>1 DEF MasterHears, MasterTimesOut, MasterStartsApplication, Send, busVars, childVars
  <2>5. ~ MasterIsTooEarly /\ ~ MasterRestarts /\ ~ Noise
    BY <2>1 DEF MasterIsTooEarly, MasterRestarts, Noise, childVars
  <2>6. \A h : ~ Lose(h)
    BY <2>1 DEF Lose, childVars
  <2>7. \A d \in Children : ~ Ignore(d) /\ ~ GeneralCall(d) /\ ~ ApplicationReset(d) /\ ~ Transmit(d)
    BY <2>1 DEF Ignore, GeneralCall, ApplicationReset, Transmit, childVars
  <2>8. QED
    BY <2>2, <2>3, <2>4, <2>5, <2>6, <2>7 DEF Next, MasterStep, ChildStep
<1>2. d \in hearers /\ Addressed(d) /\ (wire.short \/ wire.address # 0)
  BY <1>1 DEF AnswerShort, Command, Heard
<1>3. step # "reset"
  BY <1>2, ResetFrames DEF IInv, Resetting
<1>4. Types /\ Running /\ Traffic
  BY <1>3 DEF IInv, Running
<1>5. ~ FromChild
  <2>1. ASSUME FromChild PROVE wire.address = 0 /\ ~ wire.short
    BY <1>2, <1>4, <2>1, RepliesIgnored
  <2>2. QED
    BY <1>2, <2>1
<1>6. QED
  BY <1>2, <1>4, <1>5 DEF Traffic, FromMaster

\* The type invariant of the bus and of the master, for any number of children.
THEOREM EnumTypeCorrect ==
  ASSUME Persistent
  PROVE  Spec => []EnumTypeOK
BY EnumerationInvariant, InvTypes, PTL

\* No two children reply to a request of the master at the same time.
THEOREM OneTalkerCorrect ==
  ASSUME Persistent
  PROVE  Spec => []OneTalker
BY EnumerationInvariant, InvOneTalker, PTL

\* Whenever an enumeration ends, the master's map is right and complete.
THEOREM MapRightCorrect ==
  ASSUME Persistent
  PROVE  Spec => []MapRight
BY EnumerationInvariant, InvMapRight, PTL

\* No child takes the reply of another for a request to it.
THEOREM RepliesToMasterOnlyCorrect ==
  ASSUME Persistent
  PROVE  Spec => RepliesToMasterOnly
<1>1. IInv /\ [Next]_enumVars =>
        [\A c \in Children : pending[c] = NoFrame /\ pending'[c] # NoFrame =>
           wire.from = Master]_enumVars
  BY InvReplies
<1>2. QED
  BY <1>1, EnumerationInvariant, PTL DEF Spec, RepliesToMasterOnly

\* The master never gives up a child that is there: every request in vain has
\* cost a frame, and it has more tries than frames are lost.
THEOREM NeverGivesUp ==
  ASSUME Persistent
  PROVE  Spec => [](step # "failed")
<1>1. IInv => step # "failed"
  BY DEF IInv, Running
<1>2. QED
  BY <1>1, EnumerationInvariant, PTL
=============================================================================
