# A verification of the 3devo child bus bootloader

This directory models the bootloader of this repository in TLA+, checks the
models with TLC and proves theorems about them with TLAPS. It says what the
program keeps, for which it relies on what, and where it differs from what its
documentation says of it.

The bootloader is an event loop. `runBootloader` polls the bus driver
(`BusUpdate`) until START_APPLICATION comes; the driver assembles a request,
`BusCallback` checks it and has `processCommand` execute it, and the driver sends
the reply. All concurrency is outside: the master, the other children, noise,
the USART or I2C hardware that goes on while `BusCallback` programs flash, and
the power, which may fail between any two writes to flash.

## Inventory

| Part | State | Operations | What makes it correct |
|---|---|---|---|
| Flash upload (`bootloader.cpp`) | `writeBuffer`, `nextWriteAddress`; locals of `handleWriteFlash` and `commitToFlash` | WRITE_FLASH, FINALIZE_FLASH | what was answered OK is in flash; no erase without need; no write outside the application |
| STM32 self programming (`stm32/SelfProgram.cpp`) | flash, `eraseCount`, error bits of FLASH_SR | `writePage`, `readByte` | rows are programmed only when erased; errors are reported; the bootloader stays |
| ATtiny self programming (`attiny/SelfProgram.cpp`) | flash with reset vector and trampoline, `eraseCount` | `writePage`, `writeTrampoline`, `readByte`, `offsetRelativeJump` | the reset vector keeps entering the bootloader; the application's vector reads back as sent |
| Base protocol (`BaseProtocol.cpp`) | `configuredAddress` | general calls, SET_ADDRESS, GET_PROTOCOL_VERSION, GET_MAX_PACKET_LENGTH | exactly one child answers; only frames with a right CRC are executed |
| Child select and enumeration (`bootloader.cpp`, `BaseProtocol.cpp`, PROTOCOL.md) | downstream pins, `CHILD_SELECT_PIN` | GET_NUM_CHILDREN, SET_CHILD_SELECT | a master finds every child, and where it is |
| RS485 driver (`stm32/Rs485.cpp`) | `busState`, `busBuffer`, `busBufferLen`, `busTxPos`, `busAddress`; flags of the USART | `BusUpdate` | a frame is what came between two silences; the driver is ready for the next one |
| I2C drivers (`attiny/TwoWire.cpp`, `stm32/TwoWire.cpp`) | `twiState`, `twiBuffer`, `twiBufferLen`, `twiReadPos`, `twiAddress`; the address registers | `BusUpdate`, `BusSetDeviceAddress`, `BusResetDeviceAddress` | a reply can be read more than once; a read gets the reply of the last request; the child is found at its address, the old or the new one |
| CRC (`Crc.h`) | none | `Crc8Ccitt`, `Crc16Ibm` | a frame with few wrong bits is refused |
| Commands and replies (`bootloader.cpp`, `BaseProtocol.cpp`) | the buffer of the driver; versions and extra info, `bootloaderExit` | all commands, GET_HARDWARE_INFO, GET_HARDWARE_REVISION, GET_SERIAL_NUMBER, GET_EXTRA_INFO, READ_FLASH, READ_BOARD_INFO among them | the reply is one PROTOCOL.md allows, or there is none; no index leaves the buffer |
| Start up (`main.cpp`, `Clock.cpp`, `Gpio.h`, `Reset.cpp`, linker scripts) | hardware registers | reset, start of the application | |
| Display (`bootloader.cpp`) | pins of the display | POWER_UP_DISPLAY | |
| `BootloaderTest` | | a test sketch for an Arduino as master | |

A master talks to the children one request at a time, and repeats a request that
gets no reply. On RS485 every child hears every frame, replies of others
included. On I2C the master fetches the reply with a read of its own. Flash, pins
and addresses outlive a request; flash alone outlives a reset.

## Modules

| Module | Models | Built on |
|---|---|---|
| `WriteFlash` | `handleWriteFlash`, `commitToFlash`, `equalToFlash`, FINALIZE_FLASH: what both builds share | |
| `Stm32Flash` | `writePage` and `flash_program_row` of the STM32 | EXTENDS `WriteFlash` |
| `AttinyFlash` | `writePage`, `writeTrampoline`, `offsetRelativeJump`, `readByte` of the ATtiny | EXTENDS `WriteFlash` |
| `UploadPromise` | what WRITE_FLASH and FINALIZE_FLASH promise: a store of pages, without buffer, rows and erases | INSTANCE in `Stm32Flash`, `AttinyFlash` |
| `UploadMaster` | a master that uploads images over a bus that loses frames, to a child that may lose power | EXTENDS `WriteFlash` |
| `Stm32Upload`, `AttinyUpload` | whole uploads to either build | EXTENDS `UploadMaster` and `Stm32Flash` or `AttinyFlash` |
| `ChildBus` | several children on one RS485 bus: `BusCallback`, `matchAddress`, general calls, SET_ADDRESS, SET_CHILD_SELECT, START_APPLICATION | |
| `Enumeration` | a master that finds them all, by the procedure of PROTOCOL.md | EXTENDS `ChildBus` |
| `Rs485` | `BusUpdate` of the RS485 driver with the flags of the USART | |
| `I2CCallback` | `BusCallback` of I2C as a driver sees it: a reply, and calls that change the address or reset | |
| `I2CExchange` | the promise of an I2C driver, as the master sees it | EXTENDS `I2CCallback` |
| `AttinyTwoWire`, `Stm32TwoWire` | `BusUpdate` of both I2C drivers with the flags and address registers of the hardware | EXTENDS `I2CCallback`, INSTANCE `I2CExchange` |
| `Commands` | every command, from the frame to the reply, in the buffer both share | |
| `Crc` | the two CRCs, and whether `BusCallback` accepts a frame | |
| `WriteFlash_proofs` | lemmas about remainders, pages, rows and addresses that both builds need | EXTENDS `WriteFlash` |
| `Stm32_proofs` | theorems about `Stm32Flash` and `Stm32Upload` | EXTENDS `Stm32Upload`, `WriteFlash_proofs` |
| `Attiny_proofs` | theorems about `AttinyFlash` and `AttinyUpload` | EXTENDS `AttinyUpload`, `WriteFlash_proofs` |
| `Enumeration_proofs` | theorems about `ChildBus` and `Enumeration` | EXTENDS `Enumeration` |
| `Rs485_proofs` | theorems about `Rs485` | EXTENDS `Rs485` |
| `AttinyTwoWire_proofs`, `Stm32TwoWire_proofs` | theorems about the I2C drivers | EXTENDS `AttinyTwoWire` or `Stm32TwoWire` |
| `Commands_proofs` | theorems about `Commands`, and about `Crc` | EXTENDS `Commands`, `Crc` |

Each `MC` module gives the constants of the module it is named for, and a `.cfg`
is one run of it.

### Flash

`flash` is memory that survives `Reset`; every other variable is RAM. The state of
`bootloader.cpp` has the names of the source (`writeBuffer`, `nextWriteAddress`),
and so have the arguments and locals of the call chain: `address` is the loop
variable of `handleWriteFlash`, `base`, `offset` and `len` are those of
`commitToFlash`, `err` its result. `pc` says where in the chain the program is:
`copy` in the byte loop, `commit` before the comparison, `row` before a call of
`writePage`, `program` between erase and programming, `trampoline` and `vector`
at the same place for the two extra writes of the ATtiny, `return` before
`commitToFlash` returns. Each write to flash is a step of its own, and a reset may
come between any two. `received`, `clean`, `finalizes`, `fresh` and `cut` are
history: what the master sent, and what happened during the upload.

Addresses have the width of the code: `nextWriteAddress` is cut to `ADDR`, the
value of 2^16, where the code stores it in a `uint16_t`; `address + len` in
`writePage` is cut on the ATtiny, where `int` has 16 bits, and not on the STM32.

On the STM32, an erase fails with an error or succeeds, and programming a row
stops with an error after any number of bytes. On the ATtiny, programming can only
clear bits: what results from programming a byte over another is the constant
`Burn`, of which the model needs only that erased cells take any value; TLC uses
bitwise and.

`UploadPromise` knows pages, what was sent, and which page is open. A page changes
only while it is open, no other one changes with it, one that holds what was sent
is not opened, and OK means stored. Both builds implement it; the refinement mapping
opens a page while `pc` is between `row` and the end of `commitToFlash`, and
`stored` is what `readByte` returns. The STM32 keeps it for every address. The
ATtiny keeps it for all but `Exempt`, the reset vector and the page of the trampoline,
about which `LastPageDurable`, `VectorDurable` and `EntersApplication` say what is true.
`EntersApplication` is about the jump itself: the instruction in the trampoline goes where
the one that was sent would have gone from address 0, which reading it back
cannot show.

In `UploadMaster`, `frame` says where the exchange is: a request on the wire, with the
child, a reply on the wire, or lost. A child that restarts forgets its address
(`known`), so the master gets no reply until the machine starts again and a
new upload begins, of any image. `Stm32Upload` and `AttinyUpload` let `ChildReceives`
start `handleWriteFlash` or `FinalizeFlash` and take the child's steps until it is idle.
A cut of the power is a `Reset` at any of them. An ATtiny that lost its reset
vector (`cut`) answers no more. The images of `AttinyUpload` differ pairwise in page 0
and do not end there (`ImageAssumption`): the other ones are the subject of a finding and
of an observation below.

### Buses

In `ChildBus` a frame is on `wire` until everybody has heard it or lost it. Lost
stands for a wrong CRC, which `BusCallback` answers with silence on RS485. A child
that has a reply keeps it in `pending` until it sends. Who hears a frame is
every child and the master, for `BusCallback` of all children sees all frames;
`matchAddress` decides. `Plug` says in which connector of which parent a child is,
and `CHILD_SELECT_PIN` of a child is what its parent drives.

`Enumeration` is about the children. No code of the repository enumerates, so its
master is PROTOCOL.md's, and a master is needed to find out whether what the
children do is enough. After SET_ADDRESS without a reply it looks at the new
address. PROTOCOL.md says so for I2C only; without it, see the observations
below. Its timeout may be too short (`MasterIsTooEarly`): it repeats the request, or
looks, while the child still works on the first one, which the child does not hear, and the
reply then answers the second; or both talk at once, and nobody can read either.

In `Rs485` the bytes come one by one. The flags `rxne`, `rtof`, `error` and the
running timeout `timing` are the USART's; `calling` is the time `BusCallback`
takes, during which the hardware goes on and nobody looks. Every byte carries the
frame it belongs to as its `origin`, which the driver does not look at; the
properties do.

`I2CExchange` knows only transactions: what is written is a request, when
its transaction ends it has to be executed before anything is read, and what is
read is the reply from its beginning, however often. In `AttinyTwoWire` and
`Stm32TwoWire` the hardware sets flags and stretches the clock until the driver
has dealt with them, and `BusUpdate` reads the status first (`Poll`) and acts on it
later. The address registers are changed by `BusCallback`, so by the time a request
has been executed the next address may have been matched against the old ones; the
promise says that it gets the reply either way. The refinement mapping takes `phase` and `got` from the hardware and
`request`, `due` and `reply` from `twiBuffer` and `twiState`. The ATtiny may miss
an address (`MayMiss`): the status it has read is the one of the stop, and the
command written to the hardware for it acknowledges a start that came since. The
STM32 may not. What the STM32 may do, and the ATtiny may not, is to block the bus
when SET_ADDRESS changes OAR2 after the next start has matched (`MayHang`), as the
TODO at `stm32/TwoWire.cpp:65` says it does.

### Commands and CRC

In `Commands` the buffer `data` is the driver's. `BusCallback` hands `processCommand`
two pointers into it, `datain` and `dataout`, which overlap; a byte that is neither
of this request nor of this reply is `Stale`, which no correct reply contains.
Of the state of an upload it keeps what answers depend on, `nextWriteAddress` and
`eraseCount`. A commit has an outcome only: the pages erased on the way, an error or none, and
another content of flash, in which the board info is the same. START_APPLICATION ends the loop
of `runBootloader`, so its reply, although in the buffer, is not sent (`exited`).

`Promised` is the set of replies that PROTOCOL.md allows to a request, empty where it wants no
reply: by the bus, the command, its arguments, what the board info says, and the history of the
upload (`expected`, the address where WRITE_FLASH may go on, and `erased`, the pages erased
since the last FINALIZE_FLASH that was answered OK). It uses none of `versions`,
`nextWriteAddress`, `eraseCount`, and none of the operators that compute a reply. `AnswersAsPromised` demands a member of it, or silence when it
is empty. The code keeps this with one exception, which has a name in the property: `Excepted`,
the INVALID_TRANSFER on RS485 described under the findings.

In `Crc` a byte is the set of its bits, and the sender's and
the receiver's CRC are computed byte by byte while noise flips bits.

## Runs

Every run checks deadlock unless it says otherwise.

| Run | Shows | States |
|---|---|---|
| `stm32_flash` | what was answered OK is in flash, rows are programmed only when erased, the bootloader is never touched, no page is erased that holds what is sent; the build implements `UploadPromise` | 528 thousand |
| `attiny_flash` | `UploadPromise` for the ATtiny, and what is true of its exceptions: last page, reset vector, the jump into the application | 1.1 million |
| `stm32_upload` | when a master believes its upload done, it is; sending it again does not wear flash; neither losses nor power cuts stop uploads for good | 26 thousand |
| `attiny_upload` | the same for the ATtiny, whose last page is only erased with page 0 | 82 thousand |
| `rs485_driver` | frames that find the driver ready are delivered as sent, frames are never joined, silence makes it ready | 51 thousand |
| `enumeration` | at most one child replies to the master, no reply is answered by another child, the master's map is right, enumeration ends, also when replies are late | 87 thousand |
| `attiny_two_wire`, `stm32_two_wire` | each driver implements `I2CExchange`, through changes of the address | 690 thousand, 1.0 million |
| `commands` | each request gets a reply PROTOCOL.md allows to it on this bus, for its arguments and at its point of an upload, and none if it allows none, but for `Excepted`; no index leaves the buffer | 539 thousand |
| `crc` | damaged frames are refused, intact ones accepted; no deadlock is checked, as the frame ends | 68 thousand |
| `attiny_every_byte_durable` | violated: see the findings | |
| `upload_invalid_means_arrived` | violated: see the findings | |

### Bounds, and why they are enough

- **Flash.** Pages of two rows of two bytes: a page has a first row, which erases,
  and another one, which must not; a row has a byte that is first and one that is
  not. The STM32 has a page of bootloader and two of application, so there is a
  page behind the buffer, one in it, and an end of the application that coincides
  with the end of the addresses: uploads run past both. The ATtiny has page 0 with
  the reset vector, a page in the middle, and a page shared by application,
  trampoline and nothing else. Two images differ in every page (and, on the
  ATtiny, in the vector); a master that restarts may go on with the other one, and
  each write may take from either. `MaxData` = 2 bytes per write: writes end
  before, at and behind the end of a page. `MaxErase` caps the erase count. Bytes of
  the ATtiny have four bits, so that a word holds an opcode and a jump that just reaches
  all of flash, as the real one does.
- **Uploads.** Images of a page, a row and a byte (STM32) or of two pages and a byte
  (ATtiny), so there are full commits, a finalize with a partial row, and payloads
  of one to three bytes that cross the end of a page. The STM32 has two that differ
  in the second page. The ATtiny has three that all differ in the last page: one with
  another reset vector, and one whose page 0 is what a cut upload of the first leaves
  behind. `MaxCuts` = 2 power cuts: one leaves a half-written page, the other one
  hits the upload that follows. Losses are not bounded, nor is the number of uploads.
- **RS485.** Buffer of four bytes. Frames too short, ordinary, too long by one or
  more, for this child, for all and for another. `MaxUnheard` = 1 frame of others
  while nobody listens: PROTOCOL.md allows a master one request at a time, so this
  is a request repeated before the reply, once. With more, `ReadyAfterSilence` does not
  hold; see the findings.
- **Enumeration.** Two children in a chain and one beside them on a second
  connector: a parent with a child of its own, siblings, and a connector without
  a child. At the start children may have any address of the pool or none, run
  the bootloader or the application, and assert their pins or not. Two frames are
  lost or spoiled per enumeration, for one listener or several, and requests are
  sent three times (`MaxTries`): with no more tries than losses no master could
  succeed. A reply that is too late costs one loss, a collision two. Noise of one or two
  bytes may name every child (address 0), an initial address or one given out.
- **I2C.** A buffer of two bytes; requests of none to three bytes, reads of none to
  three bytes. Addresses 0, 15 (an initial address, not the one in the register) and 16
  (the one SET_ADDRESS gives, outside the initial range). The next transaction may begin at any step of the driver.
- **Commands.** 18 values per byte, so that the mask of GET_EXTRA_INFO (four bits) takes
  something away, and 10 bytes per packet, so that the longest fixed reply just fits, as
  `processCommand` assumes. 133 lists of arguments: none, one, two, three and four bytes, with
  the smallest and largest byte, addresses 0 and those where a WRITE_FLASH of up to two bytes
  ends, lengths around `maxLen` (7 on I2C, 5 on RS485), around the end of the board info (6
  bytes) and around 0. What a frame with a wrong CRC carries is not looked at. Pages have two
  bytes, so that a write ends before, at and behind the end of one. `MaxErased` = 2 pages are
  erased before a FINALIZE_FLASH that succeeds, and the erase count saturates at `MaxErase` = 1,
  so it is reached and passed. Flash holds a board info and either of two applications, or is
  erased; only commits change it.
- **CRC.** All patterns of up to three flipped bits in frames of one and two bytes,
  all of two in fourteen bytes, and all of one and three in the longest packet on I2C. On
  RS485 a packet may have 255 bytes, which is out of reach: there, frames have
  up to fourteen bytes.

Where the real numbers matter, they are parameters: page sizes, offsets, the
number of addresses and the packet length are constants of the modules, and the
theorems hold for all of them.

### Assumptions

- Time is not modelled. In uploads a master's timeout is long enough for every reply,
  in `Enumeration` it may be too short; in `Rs485`, `BusUpdate` is called at least once per byte unless `BusCallback` works.
- In `Rs485`, when the receiver hears its own reply, nobody else talks meanwhile.
- In `Enumeration`, addresses given out are none of the initial addresses, and noise
  before the first reset is not answered: then several children may have the same
  address, whatever the code does. `TreeAssumption`: the children are connected as a tree,
  below pins of the master, and there are enough addresses for them.
- No CRC error goes unnoticed in the modules that lose frames; `Crc` says for
  which errors.

### Fairness

All safety properties are checked without fairness. `UploadsFinish`,
`EnumerationEnds` and the liveness of `I2CExchange` need some:

- Weak fairness of what a child does: `runBootloader` is a loop that calls
  `BusUpdate` without waiting for anything, and the functions below it always
  return.
- Weak fairness of the master, in `Stm32Upload`, `AttinyUpload` and `Enumeration`: it goes
  on, times out, and uploads again when the machine starts.
- Strong fairness of receiving a frame in the uploads: a frame sent again
  and again gets through at last. In `Enumeration` losses are bounded instead.
- None of the masters of the I2C modules: a master may stop for good at any
  moment.

## Findings

Each is a run that TLC finds violated, on a statement of the documentation.

- **`attiny_every_byte_durable`.** `writePage` of the ATtiny does not erase the page of the
  trampoline when it writes that page, but when it writes page 0
  (`attiny/SelfProgram.cpp:96`). `commitToFlash` skips page 0 when it is identical to
  flash. An upload that changes only the last page is programmed over what is
  there, some bits stay 0, and every command answers OK.
- **`upload_invalid_means_arrived`.** `handleWriteFlash` advances `nextWriteAddress` before
  it commits. When a commit fails and the reply is lost, the retry is answered
  INVALID_ARGUMENTS, which PROTOCOL.md:778-780 tells the master to ignore, and
  FINALIZE_FLASH answers OK: it commits the last page only.

Also seen while modelling, without a run of their own:

- `BusCallback` of RS485 answers a frame of one or two bytes behind the address with
  INVALID_TRANSFER (`BaseProtocol.cpp:127`), before it looks for a CRC or a general call.
  PROTOCOL.md:237-239 wants replies only when the CRC is correct, so that no two children
  send conflicting ones. Noise behind address 0 makes all of them reply at once. Because of
  it `OneTalker` is about `Repliers`, the children that answer a request of the master: with
  three disturbances (a request heard late, its repetition, and noise) one child may answer
  the master while another one answers noise. Because of it, too, `AnswersAsPromised` has
  its exception `Excepted`.
- A second FINALIZE_FLASH after a lost reply, when the application ends in page 0:
  `writePage` has replaced the first two bytes of `writeBuffer` by the bootloader's
  reset vector (`attiny/SelfProgram.cpp:83`), so the second commit differs from
  flash and stores the bootloader's vector as the application's. `VectorDurable`
  is about one FINALIZE_FLASH for this reason.
- Power lost between the erase of page 0 and the programming of its first row
  (`attiny/SelfProgram.cpp:99`) leaves no reset vector. `ResetVectorKept` excepts
  exactly this moment.
- With two frames of others while `BusCallback` works, the timeout flag of the first ends
  the second one at its first byte read, or in its middle (`stm32/Rs485.cpp:217`), and
  the timeout flag of the second is left for the next frame, which is cut in the
  same way. So a good frame that follows is not heard. `OneFrame` still holds: no frames
  are joined. The TODO at `stm32/Rs485.cpp:200` is about such flags.
- A child that is reset between the last WRITE_FLASH and FINALIZE_FLASH, and is
  addressed by an initial address, answers OK although `nextWriteAddress` is 0 and nothing
  is committed. With an address of its own it stays silent, which `known` models.
- `BusSetDeviceAddress` of the STM32 shifts an 8-bit address into OAR2
  (`stm32/TwoWire.cpp:70`), so its highest bit lands in OA2MSK; PROTOCOL.md:566-567 has it
  ignored, which the ATtiny does. The model gives out addresses of 7 bits.
- When the reply to SET_ADDRESS is lost, a retry to the old address is never
  answered, though PROTOCOL.md:228-230 says that every command can be retried.

## Proofs

The theorems hold for all values of the constants that the assumptions of the
modules allow: page, row and flash sizes, numbers of addresses and bytes, images,
payloads, hardware errors, packet lengths, frames and replies. Every invariant
named here was checked by TLC on a run's instance before it was proved. In each
proof module the invariant is shown to hold at the start and to be kept by each
action, in a lemma per action or per conjunct; the theorems follow from it.
Pages, rows and wrapping addresses rest on lemmas about `%` and `\div`, at the head of
`WriteFlash_proofs`.

| Module | Theorems | What they state |
|---|---|---|
| `Stm32_proofs` | `TypeCorrect` | no local of the call chain leaves its range, although sums are cut to 16 bits |
| | `DurableCorrect`, `CommittedCorrect` | what was answered OK is in flash |
| | `ProgramsErasedCellsCorrect` | a row is programmed only when all of it is erased |
| | `BootloaderKeptCorrect` | no step changes a cell below the application |
| | `NoNeedlessEraseCorrect` | a page is erased only when a byte to be stored in it differs |
| | `PromiseCorrect` | the build implements `UploadPromise` |
| | `ChildCorrect`, `UploadTypeCorrect` | in an upload the child takes only steps of `Stm32Flash`; master and child keep their types |
| | `DoneMeansStoredCorrect`, `NoWearCorrect` | when the master is done the image is in flash, and sending it again does not change flash; if `Faultless` |
| `Attiny_proofs` | `TypeCorrect`, `BootloaderKeptCorrect` | as above, for a bound that is checked in 16 bits |
| | `ResetVectorKeptCorrect` | the reset vector enters the bootloader, but for the moment named above |
| | `LastPageDurableCorrect`, `VectorDurableCorrect`, `EntersApplicationCorrect` | what is promised of the last page, of the relocated reset vector, and of the jump into the application |
| | `PromiseCorrect` | the build implements `UploadPromise` but for `Exempt` |
| | `ChildCorrect`, `UploadTypeCorrect` | in an upload the child takes only steps of `AttinyFlash`; master and child keep their types |
| | `DoneMeansStoredCorrect`, `NoWearCorrect` | as for the STM32; if `ImageFits` and, at the start, `Matching` |
| `Enumeration_proofs` | `EnumTypeCorrect` | children, frames and map keep their types; like the following, if `Persistent` |
| | `OneTalkerCorrect`, `RepliesToMasterOnlyCorrect` | never two children answer the master at once; no reply is answered |
| | `MapRightCorrect` | at the end the map is right and complete |
| | `NeverGivesUp` | no request is repeated in vain until the master gives up |
| `Rs485_proofs` | `TypeCorrect` | no index leaves `busBuffer` |
| | `HeardCorrect`, `OneFrameCorrect`, `DeliveredAsSentCorrect` | the properties of the run, however many frames are missed |
| | `ReadyAfterSilenceCorrect` | a silence makes the driver ready, if `MaxUnheard <= 1` |
| `AttinyTwoWire_proofs`, `Stm32TwoWire_proofs` | `TypeCorrect` | no index leaves `twiBuffer` |
| | `ExchangeCorrect` | every step of the driver is one of `I2CExchange` or none |
| `Commands_proofs` | `TypeCorrect` | no index leaves the buffer, no reply is longer than a packet |
| | `AnswersCorrect` | a request gets a reply PROTOCOL.md allows to it, or none if it allows none; excepted are RS485 frames too short for a CRC (`Excepted`) |
| | `AcceptsIntactCorrect` | `Crc`: every intact frame is accepted, however long it is |
| | `RefusesOddErrors`, `RefusesDamagedCorrect` | `Crc`: no frame with an odd number of flipped bits is accepted, however long it is; so `RefusesDamaged` holds if `OddFlips` |

### The STM32

`Durable` is not inductive: it speaks of the moment after a FINALIZE_FLASH only.
The inductive invariant `IInv` says what is true on the way:

- `Locals`: what the locals are worth at each `pc`. `base` is a multiple of the
  page size, `offset` one of the row size, and `base` and `len` are what the
  command at hand called `commitToFlash` with.
- `RowsDone`: the rows of the page before `offset` equal `writeBuffer`, and the rows
  from `offset` on are erased. This is what makes erasing at the first row only
  correct, and holds because a reset or an error leaves the loop for good.
- `PageDone`: when `commitToFlash` returns without an error, its bytes are in flash,
  either because of `RowsDone` or because `equalToFlash` found them there.
- `Buffered`: in an upload answered OK so far, `writeBuffer` holds what was sent of the
  current page.
- `Behind`: all pages before that one are in flash. Committing a page changes no
  page before it, for `RowsDone` confines writes to the page.

`NoNeedlessErase` needs one fact more, `Differs`: before the first row of a page,
flash differs from what is to be stored. No step but the comparison leads there.
`PromiseCorrect` needs `InApplication`, that a page between two of its rows lies in the
application as a whole: otherwise a row that is refused after others of its page were
written would leave a page open. This rests on `ApplicationAssumption`: the application
consists of whole pages, as the Makefile (line 106) makes it.

Uploads have an invariant of their own, `UInv`. `Sync` is what makes repeating commands
safe: a child that has not restarted has what the master believes it has, or one request
more, when the reply to that was lost; so INVALID_ARGUMENTS to a repeated request
means the second. `Uploaded` adds that an image once uploaded stays in flash, because
while it is sent again no page is found to differ. Both need `Faultless`: erasing and
programming do not fail, and the image is not bigger than the application. Neither can be
left out. With hardware errors `DoneMeansStored` is violated, which is the finding
`upload_invalid_means_arrived`. With an image that reaches a whole page beyond the
application, TLC finds the same with correct flash: that page is answered COMMAND_FAILED,
the reply is lost, the repetition is answered INVALID_ARGUMENTS, and the upload goes on.

### The ATtiny

The invariant has the same parts, from which the reset vector and the last page had to
be set apart:

- `VectorHeld`, `Erased`: while page 0 has no reset vector, `writeBuffer` holds the
  bootloader's, and the first row will bring it back.
- `VectorBuffered`, `VectorStored`: where the application's vector is: in `writeBuffer` until
  page 0 is committed the first time, then in the trampoline. Both speak of uploads that
  have been finalized once at most (`Once`), as the properties do.
- `LastErased`: when page 0 was erased in this upload, the last page is erased until it is
  committed; without this (`Clear`) nothing is promised of the last page.
- `JumpLemma`, `JumpBack`, `JumpTarget`: `offsetRelativeJump` keeps the opcode, is undone by
  the opposite offset, and the moved jump arrives where the one sent would have.

The proofs found three places where the model said too much. `EntersApplication` holds only
if the first word sent is a relative jump, as `writePage` demands before it relocates it; an
upload of page 0 that equals flash is not looked at. Addresses beyond flash alias those below,
so the promise excepts them. And the application has room for the trampoline only if
`trampolineStart + 2 < FLASH_SIZE` (`AttinyAssumption`), that is, if there is a bootloader.

Uploads need more than on the STM32, for the last page is the one `writePage` does not erase
when it is written. Their `UInv` has `Sync` and `Uploaded` as there, and:

- `Matching`: if page 0 reads as that of an image, the last page holds only bytes of that
  image and erased ones. An upload that is cut and begun again finds page 0 identical, does
  not erase, and programs the last page over what is there; because of `Matching` it programs
  what is there already, or erased cells. That images differ in page 0 (`ImageAssumption`) makes
  it inductive: page 0 of another image is erased, and the last page with it.
- `LastClean`, `LastRows`, `LastDone`: the last page is erased while page 0 is rewritten; then its
  rows hold what was sent.
- `Finalized`, `Settled`: after the first FINALIZE_FLASH of an upload all of it reads back, so a
  repeated one, whose `writeBuffer` is that of the last page, rewrites nothing. An
  image that ends in page 0 has no such second commit; see the observations.

`ImageFits` is that the image ends below the trampoline: `writePage` refuses a longer one. `Matching`
is asked of the initial flash, which may hold anything else. It is true of a device whose last page
holds nothing but the trampoline (`NewDeviceMatches`), as in the run, and of one that holds
an image. It fails where someone else, a programmer or an earlier bootloader, has put page 0 of
one image beside the last page of another. Then the finding `attiny_every_byte_durable` strikes.
Faults need no hypothesis: `writePage` of the ATtiny detects none, and with `ImageFits` it refuses no row.

### The bus

`Enumeration_proofs` is about any number of children, connected as any tree, in any state at
first. The hypothesis `Persistent` is that fewer frames are lost, late or spoiled than the
master has tries for a request; it cannot be left out, for otherwise a child may miss every
reset and keep its address, its application and its pins. The invariant has two parts:

- `Resetting`, while the master sends the general call: a child has taken the reset, or it
  has missed as many as were sent, and each has cost a loss. So none is left that has not
  when the enumeration begins.
- `Running`, from then on. Its conjuncts under `Map` say that addresses are unique and that
  only a child below one with an address has one, that the map agrees with them, but for the
  child whose reply to SET_ADDRESS the master has not heard (`Mapped`, `Known`), that nobody on
  a connector still to be looked at has an address (`Ahead`), that a child without one, below
  one that has, is on such a connector or on the one at hand (`Covered`), and that no select
  pin but that of the connector at hand is asserted (`PinsOnly`). So at most one child
  without an address is selected. `Traffic` says whose request or reply is on
  the wire or being worked on, and `Budget` that every request in vain has cost a loss.

That every connected child is found in the end needs the tree: without a cycle there is always
a child without an address whose parent has one (`TreeAssumption`).

### The RS485 driver

`IInv` of `Rs485_proofs` ties the flags of the USART to the frame on the line: `Flags` says
that a frame that is being read ends with the timeout and not before, and that what the driver
has, or will drop, is of a frame whose timeout runs or has expired; `Origins` that every byte in
hand is of the current frame, or will be dropped because of an error, or with the timeout
of a frame nobody listened to; `Tracked` that an undamaged frame the driver was ready for is in
`busBuffer` up to the byte that came last; `Deaf` what the driver hears of itself. That no
frames are joined rests on `AcceptedInFrame`: a timeout left over ends the next frame at the
first byte that is read of it, too soon for `BusCallback` to be called.

`MaxUnheard <= 1` is needed by `ReadyAfterSilence` alone, which is false with two, as TLC shows.
It has an invariant of its own, `Prompt`: a timeout that has expired is that of the last frame,
and is there only while that frame is not finished for the driver.

### The I2C drivers

Both drivers are shown to implement `I2CExchange!Safety`, its initial state and its
steps. `Seen` is what a driver that looks at a status read earlier rests on: what
it has seen is still so, but for the end of a transaction, which the next address may have
followed. `Written` says that `twiBuffer` and the byte in the data register together are what
was written so far; `BeingRead` that the bytes read are the first of `twiBuffer`. That a
request that is due is executed at all (the fairness of `Execute`) is a liveness property and
stays with TLC: `ImplementsExchange` checks both. The proof about the ATtiny found that the
model had left `twiAddress` alone at a stop, where `BusUpdate` sets it to half of the byte last
received.

### Commands

The invariant follows a request: `Framed` and `Commanded` say that it is in the buffer until
the command starts, `Reading` that the loop of `readFlash` goes by arguments taken from it before
it is overwritten, and what has been copied, `Known` that a result is one that is promised and
silence is kept only where it is.

`AnswersAsPromised` speaks of the moment of the reply, and of a history the code does not have.
What connects the two over many requests is:

- `Loaded`: the versions are those of the board info. Commits change flash, and keep it because
  the board info is not in the application.
- `Kept`: `nextWriteAddress` is `expected`, and once a valid WRITE_FLASH has been executed, before
  its reply is sent, what `expected` is going to be, failed or not.
- `Counted`: `eraseCount` is the number of pages erased, saturated, and 0 once FINALIZE_FLASH has
  put it into its reply.
- `Exiting`: `bootloaderExit` is set only from START_APPLICATION to the end of the loop, so no
  other request goes unanswered for it.

`SamePromise` says that the promise to a request stays the same while it is served, but for
commits; what those change of it is in the lemmas about WRITE_FLASH and FINALIZE_FLASH. Wrapping addresses are the two lemmas `Numbers` (two bytes are an
address) and `ModShift` (reading on from a wrapped address is reading on from the address itself).

### CRC

The theorems about `Crc` hold for every message of every length. A round of either CRC shifts
one bit out and, if it was 1, flips three; so it keeps the parity of the register
(`Round8Parity`, `Round16Parity`), and so do the eight rounds of a byte (`Crc8Parity`,
`Crc16Parity`), which are unrolled, for no theorem about recursion can be used. The invariant
`CrcInv` says that the number of bits in the two sums and in the CRC bytes sent and received
is odd just when noise has flipped an odd number of bits (`Parity`), and that without noise
both sides have the same (`Undisturbed`). A frame that is accepted leaves an even number.

Errors of two bits are refused in frames that are short enough. That depends on the order
of the polynomials and not on parity, and stays with the run.

### What stays with TLC

- Liveness and ENABLED, which the prover cannot reason about: `UploadsFinish`,
  `EnumerationEnds`, and the fairness of `I2CExchange`.
- `RefusesDamaged` for errors of two bits; and what the CRCs of `Crc` compute for every input,
  which would be an induction over data.

## Not modelled

- Display, clock, pins, watchdog and the jump to the application are register
  writes without a state of their own: `displayOn` is one fixed sequence of three pins,
  with nothing beside it that could come in between. `BusInit` and `BusDeinit` set
  up hardware. The test sketch is represented by the masters taken from it.
- `Crc16Ccitt` is used nowhere.
- On the ATtiny, a row is programmed all at once: what a power cut leaves in the words of
  one row is not documented in the repository. Nor is what runs when the reset
  vector is gone.
- On I2C, a transaction that a repeated start ends is followed by one the child
  takes part in: a repeated start to another child, between request and reply, is left out.
- The I2C drivers run with `I2CCallback`, not with `Commands` and `Crc`: what a command
  answers does not depend on when the driver saw which flag.
- Data races do not occur: the Makefile does not define BUS_USE_INTERRUPTS, and
  everything runs in one loop.

## Plan

Done, in this order: the flash modules, the proofs about the STM32, a master
that uploads, the RS485 bus with its driver, the I2C drivers, commands and CRC; then
the addresses of I2C, the promise of an upload and its refinement by both builds,
uploads to both builds with power cuts, the jump into the application, and masters whose
timeout is too short.

Then the proofs about the bus, the CRCs, and the RS485 driver with any number of frames it
misses. What the provers cannot do is listed above; of the rest, the I2C drivers
together with `Commands`, in place of `I2CCallback`, would be the next step.
