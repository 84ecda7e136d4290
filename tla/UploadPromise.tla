---------------------------- MODULE UploadPromise ----------------------------
(***************************************************************************)
(* What WRITE_FLASH and FINALIZE_FLASH promise to a master, whatever       *)
(* buffers, rows and erases they take: flash is a store of pages, as       *)
(* READ_FLASH shows it.  A page changes only while it is open, and no      *)
(* other one with it.  A page that holds what was sent is not opened.  OK  *)
(* to a write means that every full page is stored, OK to a finalize that  *)
(* every byte is.  A restart leaves the open page in any state.            *)
(***************************************************************************)
EXTENDS Integers

CONSTANTS
  PageSize,
  Size,       \* of the application, in bytes
  ADDR,       \* number of addresses
  Byte,
  MaxData,    \* most bytes of one write
  Exempt      \* addresses for which all this is not promised: they may change
              \* with any page, and the pages that hold them be opened anytime

Addr == 0 .. ADDR - 1

VARIABLES
  stored,     \* what READ_FLASH returns, by address
  sent,       \* what this upload has sent
  next,       \* the address at which it goes on
  whole,      \* it began at 0, and was not answered with an error
  doing,      \* the command at hand, or "none"
  open,       \* the addresses of the page that is being rewritten
  answer

promiseVars == <<stored, sent, next, whole, doing, open, answer>>

PageStart(a) == a - (a % PageSize)
PageAt(p) == p .. p + PageSize - 1

\* What the command at hand has to store.
Due == 0 .. (IF doing = "WRITE_FLASH" THEN PageStart(next) ELSE next) - 1

Kept(cells) == \A i \in cells \ Exempt : stored[i] = sent[i]

Fresh ==
  /\ sent = [i \in Addr |-> 0]
  /\ next = 0
  /\ whole = TRUE
  /\ doing = "none"
  /\ open = {}
  /\ answer = "none"

Init == stored \in [Addr -> Byte] /\ Fresh

\* A write that starts or goes on with an upload; the addresses wrap.
Write(a, n) ==
  /\ doing = "none"
  /\ a \in {0, next}
  /\ doing' = "WRITE_FLASH"
  /\ sent' \in [Addr -> Byte]
  /\ \A i \in Addr \ (a .. a + n - 1) : sent'[i] = IF a = 0 THEN 0 ELSE sent[i]
  /\ next' = (a + n) % ADDR
  /\ whole' = ((a = 0 \/ whole) /\ a + n < ADDR)
  /\ UNCHANGED <<stored, open, answer>>

Refuse ==
  /\ doing = "none"
  /\ answer' = "INVALID_ARGUMENTS"
  /\ UNCHANGED <<stored, sent, next, whole, doing, open>>

Finalize ==
  /\ doing = "none"
  /\ doing' = "FINALIZE_FLASH"
  /\ UNCHANGED <<stored, sent, next, whole, open, answer>>

Open(p) ==
  /\ open = {}
  /\ p \in Due
  /\ whole => PageAt(p) \cap Exempt # {} \/ ~ Kept(PageAt(p) \cap Due)
  /\ open' = PageAt(p)
  /\ UNCHANGED <<stored, sent, next, whole, doing, answer>>

Change ==
  /\ open # {}
  /\ stored' \in [Addr -> Byte]
  /\ \A i \in Addr \ ((open \cap (0 .. Size - 1)) \cup Exempt) : stored'[i] = stored[i]
  /\ UNCHANGED <<sent, next, whole, doing, open, answer>>

Close ==
  /\ open # {}
  /\ open' = {}
  /\ UNCHANGED <<stored, sent, next, whole, doing, answer>>

Ok ==
  /\ doing # "none" /\ open = {}
  /\ whole => Kept(Due)
  /\ doing' = "none"
  /\ answer' = "OK"
  /\ UNCHANGED <<stored, sent, next, whole, open>>

Fail ==
  /\ open # {}
  /\ open' = {}
  /\ whole' = (whole /\ doing # "WRITE_FLASH")
  /\ doing' = "none"
  /\ answer' = "COMMAND_FAILED"
  /\ UNCHANGED <<stored, sent, next>>

Restart == Fresh' /\ UNCHANGED stored

Next ==
  \/ \E a \in {0, next}, n \in 0 .. MaxData : Write(a, n)
  \/ Refuse \/ Finalize
  \/ \E p \in { PageStart(i) : i \in Due } : Open(p)
  \/ Change \/ Close
  \/ Ok \/ Fail \/ Restart

Spec == Init /\ [][Next]_promiseVars
=============================================================================
