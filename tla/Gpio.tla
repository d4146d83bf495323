-------------------------------- MODULE Gpio ---------------------------------
(***************************************************************************)
(* The register access of src/gpio.c on one GPIO core, shared by tasks:    *)
(* each bus access is a step of its own between an acquire and a release   *)
(* of gpio->mutex.  A register is the set of its bits that are 1.          *)
(*                                                                         *)
(* gpio_write and gpio_fast_write are one write section; gpio_read and     *)
(* gpio_fast_read one read section; the gpio_irq_* functions that change   *)
(* the interrupt enable register (IER) are a read section followed by a    *)
(* write section, with the mutex free in between.  The tristate register   *)
(* and the global interrupt enable (GIE) are written whole, all ones or    *)
(* all zeros.                                                              *)
(***************************************************************************)
EXTENDS RtMutex

CONSTANTS Bit,        \* bit numbers of the data register
          Field,      \* the [mask, shift] pairs the callers use
          Value,      \* the values they write, as sets of bits
          NumChannels,  \* gpio->num_of_channels; 1 on every core of the robot
          IrqTask,    \* the tasks that call gpio_irq_* and gpio_set_dir
          IrqKinds    \* and which of them they call

Channel == {1, 2}    \* a channel's bit in the interrupt registers

Wired == 1..NumChannels    \* the channels the core has

ASSUME BitAssumption ==
  /\ Bit \subseteq Nat /\ Channel \subseteq Bit
  /\ Field \subseteq [mask : SUBSET Bit, shift : Nat]
  /\ NumChannels \in Channel

ASSUME IrqAssumption ==
  /\ IrqTask \subseteq Task
  /\ IrqKinds \subseteq {"enable", "disable", "toggle"}

VARIABLES
  data,   \* DATA register
  ier,    \* interrupt enable register: the channels enabled
  isr,    \* interrupt status register: the channels with a pending interrupt
  word,   \* the registers written whole: GIE and tristate ("dir", 1 is input)
  mutex,  \* gpio->mutex
  pc,     \* per task, where it stands
  op,     \* per task, the call it makes
  seen,   \* per task, what its read section read
  old     \* per task, what its write section loaded before storing

registers == <<data, ier, isr, word>>
vars == <<registers, mutex, pc, op, seen, old>>

WriteLabels == {"load", "store", "write_leave"}
ReadLabels  == {"read_load", "read_leave"}
EnterLabels == {"read_enter", "write_enter"}
Labels == {"idle"} \cup EnterLabels \cup WriteLabels \cup ReadLabels

DataCalls == [kind : {"write"}, field : Field, value : Value]
             \cup [kind : {"fast_write"}, value : Value]
             \cup [kind : {"read"}, field : Field]

IrqCalls == [kind : IrqKinds, n : Channel]

\* gpio_irq_enable_global, gpio_irq_disable_global, gpio_set_dir.
WordCalls == [kind : {"gie", "dir"}, on : BOOLEAN]

Calls == DataCalls \cup IrqCalls \cup WordCalls

\* The calls t makes.
CallsOf(t) == IF t \in IrqTask THEN Calls ELSE DataCalls

IsIrq(c) == c.kind \in {"enable", "disable", "toggle"}

IsData(c) == c.kind \in {"write", "fast_write"}

IsWord(c) == c.kind \in {"gie", "dir"}

NoCall == [kind |-> "none"]

Init ==
  /\ data = {} /\ ier = {} /\ isr = {}
  /\ word = [gie |-> FALSE, dir |-> TRUE]
  /\ mutex = Free
  /\ pc = [t \in Task |-> "idle"]
  /\ op = [t \in Task |-> NoCall]
  /\ seen = [t \in Task |-> {}]
  /\ old = [t \in Task |-> {}]

Goto(t, label) == pc' = [pc EXCEPT ![t] = label]

Finish(t) ==
  /\ Goto(t, "idle")
  /\ op' = [op EXCEPT ![t] = NoCall]
  /\ seen' = [seen EXCEPT ![t] = {}]
  /\ old' = [old EXCEPT ![t] = {}]

Call(t, c) ==
  /\ pc[t] = "idle"
  /\ op' = [op EXCEPT ![t] = c]
  /\ Goto(t, IF IsData(c) \/ IsWord(c) THEN "write_enter" ELSE "read_enter")
  /\ UNCHANGED <<registers, mutex, seen, old>>

\* UTIL_MUTEX_ACQUIRE(..., TM_INFINITE)
Acquire(t) == CanAcquire(mutex, t) /\ mutex' = Acquired(mutex, t)

\* The macro returns the error of an acquire that fails: the mutex does not
\* exist, or the wait for it was interrupted.
Refused(t) ==
  /\ pc[t] \in EnterLabels
  /\ Finish(t)
  /\ UNCHANGED <<registers, mutex>>

ReadEnter(t) ==
  /\ pc[t] = "read_enter"
  /\ Acquire(t)
  /\ Goto(t, "read_load")
  /\ UNCHANGED <<registers, op, seen, old>>

\* checkandtoggle reads the status register, the other irq functions the IER.
Source(c) == CASE c.kind = "read" -> data \cap c.field.mask
               [] c.kind = "toggle" -> isr
               [] OTHER -> ier

ReadLoad(t) ==
  /\ pc[t] = "read_load"
  /\ seen' = [seen EXCEPT ![t] = Source(op[t])]
  /\ Goto(t, "read_leave")
  /\ UNCHANGED <<registers, mutex, op, old>>

ReadLeave(t) ==
  /\ pc[t] = "read_leave"
  /\ mutex' = Released(mutex, t)
  /\ IF op[t].kind = "read" THEN Finish(t)
     ELSE Goto(t, "write_enter") /\ UNCHANGED <<op, seen, old>>
  /\ UNCHANGED registers

\* Mutant of WriteEnter: the write section is not locked.
WriteEnterUnlocked(t) ==
  /\ pc[t] = "write_enter"
  /\ Goto(t, IF op[t].kind = "fast_write" THEN "store" ELSE "load")
  /\ UNCHANGED <<registers, mutex, op, seen, old>>

WriteEnter(t) ==
  /\ pc[t] = "write_enter"
  /\ Acquire(t)
  /\ Goto(t, IF op[t].kind = "fast_write" THEN "store" ELSE "load")
  /\ UNCHANGED <<registers, op, seen, old>>

\* Of a word that is written whole nothing is kept.
Loaded(c) == CASE IsIrq(c)  -> ier
               [] IsWord(c) -> {}
               [] OTHER     -> data

Load(t) ==
  /\ pc[t] = "load"
  /\ old' = [old EXCEPT ![t] = Loaded(op[t])]
  /\ Goto(t, "store")
  /\ UNCHANGED <<registers, mutex, op, seen>>

ShiftLeft(v, n) == {b + n : b \in v}

\* Mutant of Merged: the shifted value is not masked.
MergedUnmasked(before, c) ==
  (before \ c.field.mask) \cup ShiftLeft(c.value, c.field.shift)

\* (old & ~mask) | ((value << shift) & mask)
Merged(before, c) ==
  (before \ c.field.mask) \cup (ShiftLeft(c.value, c.field.shift) \cap c.field.mask)

StoreData(t) ==
  /\ pc[t] = "store" /\ IsData(op[t])
  /\ data' = IF op[t].kind = "fast_write" THEN op[t].value \cap Bit
                                          ELSE Merged(old[t], op[t])
  /\ Goto(t, "write_leave")
  /\ UNCHANGED <<ier, isr, word, mutex, op, seen, old>>

\* Mutant of NewIER: the channel is taken as it is named.
NewIERAsNamed(c, read) == CASE c.kind = "enable"  -> read \cup {c.n}
                            [] c.kind = "disable" -> read \cap (Channel \ {c.n})
                            [] c.kind = "toggle"  -> read

\* On a core with one channel every call is about that one.
Meant(n) == IF n = 2 /\ NumChannels = 2 THEN 2 ELSE 1

\* What the irq functions store in the IER, from what they read before: disabling
\* a channel keeps the bit of the other.
NewIER(c, read) == CASE c.kind = "enable"  -> read \cup {Meant(c.n)}
                     [] c.kind = "disable" -> read \cap (Channel \ {Meant(c.n)})
                     [] c.kind = "toggle"  -> read

StoreIER(t) ==
  /\ pc[t] = "store" /\ IsIrq(op[t])
  /\ ier' = NewIER(op[t], seen[t])
  /\ Goto(t, "write_leave")
  /\ UNCHANGED <<data, isr, word, mutex, op, seen, old>>

StoreWord(t) ==
  /\ pc[t] = "store" /\ IsWord(op[t])
  /\ word' = [word EXCEPT ![op[t].kind] = op[t].on]
  /\ Goto(t, "write_leave")
  /\ UNCHANGED <<data, ier, isr, mutex, op, seen, old>>

WriteLeave(t) ==
  /\ pc[t] = "write_leave"
  /\ mutex' = Released(mutex, t)
  /\ Finish(t)
  /\ UNCHANGED registers

\* The core sets the status bit of a channel whose inputs change.
InputChanges ==
  /\ \E c \in Wired : isr' = isr \cup {c}
  /\ UNCHANGED <<data, ier, word, mutex, pc, op, seen, old>>

Inside(t) == pc[t] \in WriteLabels \cup ReadLabels

Entering(t) == ReadEnter(t) \/ WriteEnter(t)

\* What a task does between its acquire and its return.
Inner(t) ==
  \/ ReadLoad(t) \/ ReadLeave(t)
  \/ Load(t) \/ StoreData(t) \/ StoreIER(t) \/ StoreWord(t) \/ WriteLeave(t)

Step(t) ==
  \/ \E c \in CallsOf(t) : Call(t, c)
  \/ Refused(t) \/ Entering(t) \/ Inner(t)

Next == InputChanges \/ \E t \in Task : Step(t)

Spec == Init /\ [][Next]_vars

-----------------------------------------------------------------------------
TypeOK ==
  /\ data \subseteq Bit /\ ier \subseteq Bit /\ isr \subseteq Bit
  /\ word \in [gie : BOOLEAN, dir : BOOLEAN]
  /\ mutex \in Mutexes
  /\ pc \in [Task -> Labels]
  /\ op \in [Task -> Calls \cup {NoCall}]
  /\ seen \in [Task -> SUBSET Bit]
  /\ old \in [Task -> SUBSET Bit]

\* The bits a task about to store may change.
Masks(t) == IF pc[t] # "store" THEN {}
            ELSE CASE op[t].kind = "write" -> op[t].field.mask
                   [] op[t].kind = "fast_write" -> Bit
                   [] OTHER -> {}

\* A write of a field (say, one bank of LEDs) changes no bit outside its mask,
\* however the read-modify-write cycles of other tasks interleave with it.
KeepsOtherBits ==
  \A b \in Bit : (b \in data) # (b \in data') => \E t \in Task : b \in Masks(t)

WritesStayInMask == [][KeepsOtherBits]_vars

\* The word a writer merges its field into is the word in the register still.
LoadIsCurrent ==
  \A t \in Task :
    pc[t] = "store" /\ op[t].kind = "write" => old[t] = data

\* Whatever channel the interrupt calls name and whatever other tasks write between
\* their read and their write section, no channel is enabled that the core does not
\* have; and on a core with one, what they read may be stale but no call is lost:
\* the channel is as the call asked when it lets go of the register.
IrqCallsTakeEffect ==
  /\ ier \subseteq Wired
  /\ \A t \in Task : NumChannels = 1 /\ pc[t] = "write_leave" =>
       /\ op[t].kind = "enable" => ier = {1}
       /\ op[t].kind = "disable" => ier = {}
=============================================================================
