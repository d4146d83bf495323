----------------------------- MODULE GpioProofs ------------------------------
(***************************************************************************)
(* Proofs about Gpio, for any tasks, bits, fields, values and calls, and   *)
(* about GpioLife: the driver with its life around it makes the steps of   *)
(* Gpio only, and uses a register only while the core is mapped.           *)
(***************************************************************************)
EXTENDS GpioLife, TLAPS

USE TaskAssumption, BitAssumption, IrqAssumption

\* Who owns the mutex is the one task inside a section; it holds it once.
LockInv ==
  /\ mutex = Free \/ (mutex.owner \in Task /\ Inside(mutex.owner))
  /\ \A t \in Task : Inside(t) => mutex = [owner |-> t, depth |-> 1]

\* The labels of gpio.c, listed.
LEMMA Labelling ==
  /\ WriteLabels \cup ReadLabels
       = {"load", "store", "write_leave", "read_load", "read_leave"}
  /\ WriteLabels \cup ReadLabels \subseteq Labels
  /\ {"idle", "read_enter", "write_enter"} \subseteq Labels
  /\ EnterLabels = {"read_enter", "write_enter"}
BY DEF WriteLabels, ReadLabels, EnterLabels, Labels

\* The masks and channels of the calls stay within the register.
LEMMA CallType ==
  ASSUME NEW c \in Calls \cup {NoCall}
  PROVE  /\ c.kind = "write" => c.field.mask \subseteq Bit
         /\ c.kind \in {"enable", "disable"} => c.n \in Bit
         /\ IsWord(c) => c.on \in BOOLEAN
<1> USE DEF IsWord
<1>1. CASE c \in [kind : {"write"}, field : Field, value : Value]
  <2>1. c.field \in [mask : SUBSET Bit, shift : Nat] /\ c.kind = "write"
    BY <1>1, BitAssumption
  <2>2. QED
    BY <2>1
<1>2. CASE c \in [kind : {"fast_write"}, value : Value]
  BY <1>2
<1>3. CASE c \in [kind : {"read"}, field : Field]
  BY <1>3
<1>4. CASE c \in IrqCalls
  BY <1>4, BitAssumption, IrqAssumption DEF IrqCalls, Channel
<1>5. CASE c \in WordCalls
  BY <1>5 DEF WordCalls
<1>6. CASE c = NoCall
  BY <1>6 DEF NoCall
<1>7. QED
  BY <1>1, <1>2, <1>3, <1>4, <1>5, <1>6 DEF Calls, DataCalls

\* The channels of a core have their bits in the interrupt registers.
LEMMA WiredBits == Wired \subseteq Channel /\ Channel \subseteq Bit
<1>1. NumChannels \in {1, 2}
  BY DEF Channel
<1>2. QED
  BY <1>1, BitAssumption DEF Wired, Channel

\* A task makes calls of the driver.
LEMMA CallsOfType == \A t \in Task : CallsOf(t) \subseteq Calls
BY DEF CallsOf, Calls

\* Every step of a task or of the core keeps the variables in their types.
LEMMA TypeStep == TypeOK /\ [Next]_vars => TypeOK'
<1> SUFFICES ASSUME TypeOK, [Next]_vars PROVE TypeOK'
  OBVIOUS
<1> USE DEF TypeOK
<1>1. CASE UNCHANGED vars
  BY <1>1 DEF vars, registers
<1>2. CASE InputChanges
  BY <1>2, WiredBits DEF InputChanges
<1>3. ASSUME NEW t \in Task, Step(t) PROVE TypeOK'
  <2> USE Labelling
  <2>1. CASE \E c \in CallsOf(t) : Call(t, c)
    BY <2>1, CallsOfType DEF Call, Goto, registers
  <2>2. CASE Entering(t)
    <3> USE DEF Entering
    <3>1. mutex' \in Mutexes
      BY <2>2 DEF ReadEnter, WriteEnter, Acquire, Acquired, Mutexes
    <3>2. QED
      BY <2>2, <3>1 DEF ReadEnter, WriteEnter, Goto, registers
  <2>3. CASE ReadLoad(t) \/ Load(t)
    <3>1. Source(op[t]) \subseteq Bit
      BY DEF Source
    <3>2. CASE ReadLoad(t)
      BY <3>2, <3>1 DEF ReadLoad, Goto, registers
    <3>3. CASE Load(t)
      BY <3>3 DEF Load, Loaded, Goto, registers
    <3>4. QED
      BY <2>3, <3>2, <3>3
  <2>4. CASE StoreData(t)
    <3>1. op[t].kind = "write" => Merged(old[t], op[t]) \subseteq Bit
      BY CallType DEF Merged
    <3>2. QED
      BY <2>4, <3>1 DEF StoreData, IsData, Goto
  <2>5. CASE StoreIER(t)
    <3>1. NewIER(op[t], seen[t]) \subseteq Bit
      BY <2>5, BitAssumption DEF NewIER, Meant, Channel, StoreIER, IsIrq
    <3>2. QED
      BY <2>5, <3>1 DEF StoreIER, Goto
  <2>6. CASE StoreWord(t)
    <3>1. word' \in [gie : BOOLEAN, dir : BOOLEAN]
      BY <2>6, CallType DEF StoreWord, IsWord
    <3>2. QED
      BY <2>6, <3>1 DEF StoreWord, Goto
  <2>7. CASE Refused(t)
    BY <2>7 DEF Refused, Finish, Goto, registers
  <2>8. CASE ReadLeave(t) \/ WriteLeave(t)
    <3>1. mutex' \in Mutexes
      BY <2>8 DEF ReadLeave, WriteLeave, Released, Free, Mutexes
    <3>2. CASE Finish(t) /\ UNCHANGED registers
      BY <3>1, <3>2 DEF Finish, Goto, registers
    <3>3. CASE ReadLeave(t) /\ op[t].kind # "read"
      BY <3>1, <3>3 DEF ReadLeave, Goto, registers
    <3>4. QED
      BY <2>8, <3>2, <3>3 DEF ReadLeave, WriteLeave
  <2>9. QED
    BY <1>3, <2>1, <2>2, <2>3, <2>4, <2>5, <2>6, <2>7, <2>8 DEF Step, Inner
<1>4. QED
  BY <1>1, <1>2, <1>3 DEF Next

\* Every step keeps the mutex with the one task inside a section.
LEMMA LockStep == TypeOK /\ LockInv /\ [Next]_vars => LockInv'
<1> SUFFICES ASSUME TypeOK, LockInv, [Next]_vars PROVE LockInv'
  OBVIOUS
<1> USE Labelling
<1>1. CASE UNCHANGED vars
  BY <1>1 DEF LockInv, Inside, vars
<1>2. CASE InputChanges
  BY <1>2 DEF LockInv, Inside, InputChanges
<1>3. ASSUME NEW t \in Task, Step(t) PROVE LockInv'
  <2>1. CASE \E c \in CallsOf(t) : Call(t, c)
    BY <2>1 DEF LockInv, Inside, TypeOK, Call, Goto
  <2>2. CASE Entering(t)
    BY <2>2 DEF Entering, LockInv, Inside, TypeOK, ReadEnter, WriteEnter, Goto, Acquire,
                CanAcquire, Acquired, Free
  <2>3. CASE ReadLoad(t) \/ Load(t) \/ StoreData(t) \/ StoreIER(t) \/ StoreWord(t)
    BY <2>3 DEF LockInv, Inside, TypeOK, ReadLoad, Load, StoreData, StoreIER,
                StoreWord, Goto
  <2>4. CASE Refused(t)
    BY <2>4 DEF LockInv, Inside, TypeOK, Refused, Finish, Goto
  <2>5. CASE ReadLeave(t) \/ WriteLeave(t)
    BY <2>5 DEF LockInv, Inside, TypeOK, ReadLeave, WriteLeave, Finish, Goto,
                Released, Free
  <2>6. QED
    BY <1>3, <2>1, <2>2, <2>3, <2>4, <2>5 DEF Step, Inner
<1>4. QED
  BY <1>1, <1>2, <1>3 DEF Next

\* What a task loaded for its read-modify-write is what the register holds.
LEMMA LoadStep ==
  TypeOK /\ LockInv /\ LoadIsCurrent /\ [Next]_vars => LoadIsCurrent'
<1> SUFFICES ASSUME TypeOK, LockInv, LoadIsCurrent, [Next]_vars, NEW t \in Task,
                    pc'[t] = "store", op'[t].kind = "write"
             PROVE  old'[t] = data'
  BY DEF LoadIsCurrent
<1>1. CASE UNCHANGED vars
  BY <1>1 DEF LoadIsCurrent, vars, registers
<1>2. CASE InputChanges
  BY <1>2 DEF LoadIsCurrent, InputChanges
<1>3. ASSUME NEW u \in Task, Step(u), u # t PROVE old'[t] = data'
  <2>1. UNCHANGED <<pc[t], op[t], old[t]>>
    BY <1>3 DEF Step, Inner, Entering, Call, Refused, ReadEnter, ReadLoad, ReadLeave,
       WriteEnter, Load, StoreData, StoreIER, StoreWord, WriteLeave, Finish, Goto, TypeOK
  <2>2. data' = data
    <3>1. ~StoreData(u)
      BY <1>3, <2>1, Labelling DEF StoreData, LockInv, Inside
    <3>2. QED
      BY <1>3, <3>1 DEF Step, Inner, Entering, Call, Refused, ReadEnter, ReadLoad,
         ReadLeave, WriteEnter, Load, StoreIER, StoreWord, WriteLeave, registers
  <2>3. QED
    BY <2>1, <2>2 DEF LoadIsCurrent
<1>4. CASE Step(t)
  <2>1. CASE Load(t)
    BY <2>1 DEF Load, Loaded, IsIrq, IsWord, registers, TypeOK
  <2>2. ~WriteEnter(t)
    BY DEF WriteEnter, Goto, TypeOK
  <2>3. ~(\/ (\E c \in CallsOf(t) : Call(t, c)) \/ Refused(t) \/ ReadEnter(t)
          \/ ReadLoad(t) \/ ReadLeave(t) \/ StoreData(t) \/ StoreIER(t)
          \/ StoreWord(t) \/ WriteLeave(t))
    BY DEF Call, Refused, ReadEnter, ReadLoad, ReadLeave, StoreData, StoreIER,
       StoreWord, WriteLeave, Finish, Goto, TypeOK
  <2>4. QED
    BY <1>4, <2>1, <2>2, <2>3 DEF Step, Inner, Entering
<1>5. QED
  BY <1>1, <1>2, <1>3, <1>4 DEF Next

\* At all times the variables have their types, the owner of gpio->mutex is the one
\* task between UTIL_MUTEX_ACQUIRE and UTIL_MUTEX_RELEASE, and the word gpio_write is
\* about to merge its field into is the word in the register.
THEOREM Invariance == Spec => [](TypeOK /\ LockInv /\ LoadIsCurrent)
<1>1. Init => TypeOK /\ LockInv /\ LoadIsCurrent
  BY Labelling DEF Init, TypeOK, LockInv, LoadIsCurrent, Inside, Free, Mutexes, NoCall
<1>2. QED
  BY <1>1, TypeStep, LockStep, LoadStep, PTL DEF Spec

\* A masked write changes the bits of its mask only, whatever runs beside it.
THEOREM MaskedWrites == Spec => WritesStayInMask
<1>1. TypeOK /\ LockInv /\ LoadIsCurrent /\ [Next]_vars => [KeepsOtherBits]_vars
  <2> SUFFICES ASSUME TypeOK, LockInv, LoadIsCurrent, Next, NEW b \in Bit,
                      (b \in data) # (b \in data')
               PROVE  \E t \in Task : b \in Masks(t)
    BY DEF KeepsOtherBits
  <2>1. PICK t \in Task : StoreData(t)
    BY DEF Next, InputChanges, Step, Inner, Entering, Call, Refused, ReadEnter,
       ReadLoad, ReadLeave, WriteEnter, Load, StoreIER, StoreWord, WriteLeave, registers
  <2>2. CASE op[t].kind = "write"
    <3>1. data' = Merged(data, op[t])
      BY <2>1, <2>2 DEF StoreData, LoadIsCurrent
    <3>2. b \in op[t].field.mask
      BY <3>1 DEF Merged
    <3>3. QED
      BY <2>1, <2>2, <3>2 DEF StoreData, Masks
  <2>3. CASE op[t].kind # "write"
    BY <2>1, <2>3 DEF StoreData, IsData, Masks
  <2>4. QED
    BY <2>2, <2>3
<1>2. QED
  BY <1>1, Invariance, PTL DEF WritesStayInMask, Spec

\* The state of the interrupt registers between the sections of the interrupt calls:
\* a call's read is of channels the core has, and so is what it stores.
WiredInv ==
  /\ isr \subseteq Wired /\ ier \subseteq Wired
  /\ \A t \in Task : pc[t] = "idle" \/ IsIrq(op[t]) => seen[t] \subseteq Wired

\* What a call that is about to let go of the register has made of the one channel.
DoneInv ==
  \A t \in Task : NumChannels = 1 /\ pc[t] = "write_leave" =>
    /\ op[t].kind = "enable" => ier = {1}
    /\ op[t].kind = "disable" => ier = {}

\* What an interrupt call stores names no channel that the core lacks, and on a core
\* with one channel it is what the call asks for.
LEMMA StoredIER ==
  ASSUME NEW c \in Calls \cup {NoCall}, NEW read \in SUBSET Wired, IsIrq(c)
  PROVE  /\ NewIER(c, read) \subseteq Wired
         /\ NumChannels = 1 /\ c.kind = "enable" => NewIER(c, read) = {1}
         /\ NumChannels = 1 /\ c.kind = "disable" => NewIER(c, read) = {}
<1>1. NumChannels \in {1, 2}
  BY DEF Channel
<1>2. NumChannels = 1 => Wired = {1}
  BY DEF Wired
<1>3. NumChannels = 2 => Wired = {1, 2}
  BY DEF Wired
<1>4. \A n : Meant(n) \in Wired /\ (NumChannels = 1 => Meant(n) = 1)
  BY <1>1, <1>2, <1>3 DEF Meant
<1>5. NewIER(c, read) \subseteq Wired
  BY <1>4 DEF NewIER, IsIrq
<1>6. QED
  BY <1>2, <1>4, <1>5 DEF NewIER

\* Whatever a task does, its own interrupt call stays within the channels of the core,
\* and no step of another takes back what it has stored before it lets go.
LEMMA IrqStep ==
  TypeOK /\ LockInv /\ WiredInv /\ DoneInv /\ [Next]_vars => WiredInv' /\ DoneInv'
<1> SUFFICES ASSUME TypeOK, LockInv, WiredInv, DoneInv, [Next]_vars
             PROVE  WiredInv' /\ DoneInv'
  OBVIOUS
<1>1. CASE UNCHANGED vars
  BY <1>1 DEF WiredInv, DoneInv, vars, registers
<1>2. CASE InputChanges
  BY <1>2 DEF WiredInv, DoneInv, InputChanges
<1>3. ASSUME NEW t \in Task, Step(t) PROVE WiredInv' /\ DoneInv'
  <2>1. \A u \in Task \ {t} : UNCHANGED <<pc[u], op[u], seen[u]>>
    BY <1>3 DEF Step, Inner, Entering, Call, Refused, ReadEnter, ReadLoad, ReadLeave,
       WriteEnter, Load, StoreData, StoreIER, StoreWord, WriteLeave, Finish, Goto, TypeOK
  <2>2. CASE StoreIER(t)
    <3>1. /\ IsIrq(op[t]) /\ ier' = NewIER(op[t], seen[t])
          /\ UNCHANGED <<isr, op, seen>> /\ pc[t] = "store" /\ pc'[t] = "write_leave"
      BY <2>2 DEF StoreIER, Goto, TypeOK
    <3>2. seen[t] \in SUBSET Wired /\ op[t] \in Calls \cup {NoCall}
      BY <3>1 DEF WiredInv, TypeOK
    <3>3. WiredInv'
      BY <2>1, <3>1, <3>2, StoredIER DEF WiredInv
    <3>4. \A u \in Task \ {t} : pc[u] # "write_leave"
      BY <3>1, Labelling DEF LockInv, Inside
    <3>5. DoneInv'
      BY <2>1, <3>1, <3>2, <3>4, StoredIER DEF DoneInv
    <3>6. QED
      BY <3>3, <3>5
  <2>3. CASE ReadLoad(t)
    <3>1. /\ seen'[t] = Source(op[t]) /\ UNCHANGED <<isr, ier, op>>
          /\ pc[t] = "read_load" /\ pc'[t] = "read_leave"
      BY <2>3 DEF ReadLoad, Goto, registers, TypeOK
    <3>2. IsIrq(op[t]) => Source(op[t]) \subseteq Wired
      BY DEF Source, IsIrq, WiredInv
    <3>3. QED
      BY <2>1, <3>1, <3>2 DEF WiredInv, DoneInv
  <2>4. CASE Refused(t) \/ WriteLeave(t) \/ (ReadLeave(t) /\ op[t].kind = "read")
    <3>1. /\ op'[t] = NoCall /\ seen'[t] = {} /\ pc'[t] = "idle"
          /\ UNCHANGED <<isr, ier>>
      BY <2>4 DEF Refused, WriteLeave, ReadLeave, Finish, Goto, registers, TypeOK
    <3>2. QED
      BY <2>1, <3>1 DEF WiredInv, DoneInv, IsIrq, NoCall
  <2>5. CASE \E c \in CallsOf(t) : Call(t, c)
    <3>1. /\ seen' = seen /\ pc[t] = "idle" /\ UNCHANGED <<isr, ier>>
          /\ pc'[t] \in {"read_enter", "write_enter"}
      BY <2>5 DEF Call, Goto, registers, TypeOK
    <3>2. QED
      BY <2>1, <3>1 DEF WiredInv, DoneInv
  <2>6. CASE \/ ReadEnter(t) \/ (ReadLeave(t) /\ op[t].kind # "read")
             \/ WriteEnter(t) \/ Load(t)
    <3>1. /\ UNCHANGED <<isr, ier, op, seen>>
          /\ pc'[t] \in {"read_load", "write_enter", "load", "store"}
      BY <2>6 DEF ReadEnter, ReadLeave, WriteEnter, Load, Goto, registers, TypeOK
    <3>2. QED
      BY <2>1, <3>1 DEF WiredInv, DoneInv
  <2>7. CASE StoreData(t) \/ StoreWord(t)
    <3>1. /\ UNCHANGED <<isr, ier, op, seen>> /\ pc'[t] = "write_leave"
          /\ op[t].kind \notin {"enable", "disable"} /\ pc[t] = "store"
      BY <2>7 DEF StoreData, StoreWord, IsData, IsWord, Goto, TypeOK
    <3>2. QED
      BY <2>1, <3>1 DEF WiredInv, DoneInv
  <2>8. QED
    BY <1>3, <2>2, <2>3, <2>4, <2>5, <2>6, <2>7 DEF Step, Inner, Entering
<1>4. QED
  BY <1>1, <1>2, <1>3 DEF Next

\* Whatever tasks make the gpio_irq_* calls, and however their read and their write
\* sections interleave, the IER never has a channel that the core lacks, and on a core
\* with one channel enabling leaves it enabled and disabling leaves it disabled.
THEOREM InterruptCalls == Spec => []IrqCallsTakeEffect
<1>1. Init => WiredInv /\ DoneInv
  BY DEF Init, WiredInv, DoneInv
<1>2. WiredInv /\ DoneInv => IrqCallsTakeEffect
  BY DEF WiredInv, DoneInv, IrqCallsTakeEffect
<1>3. QED
  BY <1>1, <1>2, IrqStep, Invariance, PTL DEF Spec

-----------------------------------------------------------------------------
USE MainAssumption

\* The calls gpio_init still makes are calls of the driver.
TodoInv ==
  /\ todo \in Seq(Calls)
  /\ todo # <<>> => phase \in {"finishing", "failing"}

\* Who is in a call of the driver, and when.
CallerInv ==
  \A t \in Task :
    pc[t] # "idle" => phase = "up" \/ (t = Main /\ phase \in {"finishing", "failing"})

\* The mutex never outlives the mapping, but between the two steps of gpio_clean.
MappingInv ==
  /\ alive => mapped \/ phase = "delete"
  /\ phase \in {"down", "intr_delete"} => ~alive
  /\ phase = "create" => mapped /\ ~alive

\* Who is inside a section is there by a mutex that exists.
InsideInv == \A t \in Task : Inside(t) => alive

LifeInv == TodoInv /\ CallerInv /\ MappingInv /\ InsideInv

\* The calls of gpio_init, one after the other.
LEMMA EnableType ==
  /\ SetDir \in Calls
  /\ \A flags : EnableIrqs(flags) \o <<SetDir>> \in Seq(Calls)
<1>1. SetDir \in Calls /\ [kind |-> "gie", on |-> TRUE] \in Calls
  BY DEF SetDir, Calls, WordCalls
<1>2. [kind |-> "enable", n |-> 1] \in Calls /\ [kind |-> "enable", n |-> 2] \in Calls
  BY IrqAssumption DEF Calls, IrqCalls, Channel
<1>3. QED
  BY <1>1, <1>2 DEF EnableIrqs

\* Where gpio_init goes on at another step it has no call left to make.
LEMMA GoesTodo ==
  ASSUME NEW ok \in BOOLEAN, NEW p, Goes(ok, p)
  PROVE  TodoInv'
<1>1. <<SetDir>> \in Seq(Calls) /\ <<>> \in Seq(Calls)
  BY EnableType
<1>2. CASE ok /\ p # "finishing"
  BY <1>1, <1>2 DEF Goes, TodoInv
<1>3. CASE ~ok
  BY <1>1, <1>3 DEF Goes, TodoInv
<1>4. CASE ok /\ p = "finishing"
  BY <1>1, <1>4 DEF Goes, TodoInv
<1>5. QED
  BY <1>2, <1>3, <1>4

\* A step of the driver's life is a step of the driver or leaves it alone.
LEMMA LifeStep == TodoInv /\ [LifeNext]_lifeVars => [Next]_vars
<1> SUFFICES ASSUME TodoInv, LifeNext PROVE [Next]_vars
  BY DEF lifeVars
<1>1. CASE NextCall
  <2>1. Head(todo) \in CallsOf(Main)
    BY <1>1 DEF NextCall, TodoInv, CallsOf
  <2>2. Step(Main)
    BY <1>1, <2>1 DEF NextCall, Step
  <2>3. QED
    BY <2>2, IrqAssumption DEF Next
<1>2. CASE Lifecycle /\ ~NextCall
  BY <1>2 DEF Lifecycle, Map, CreateMutex, CreateIntr, Spawn, Started, Unmap,
     DeleteMutex, DeleteIntr
<1>3. CASE IntEnds
  BY <1>3 DEF IntEnds
<1>4. CASE InputChanges
  BY <1>4 DEF Next
<1>5. ASSUME NEW t \in Task, UserStep(t) PROVE Next
  BY <1>5 DEF UserStep, Step, Next
<1>6. QED
  BY <1>1, <1>2, <1>3, <1>4, <1>5 DEF LifeNext

\* A step of the driver puts a task into a section only by an acquire.
LEMMA PlaceStep ==
  ASSUME TypeOK, NEW t \in Task, UserStep(t)
  PROVE  /\ \A u \in Task \ {t} : pc'[u] = pc[u]
         /\ Inside(t)' => Inside(t) \/ alive
         /\ pc'[t] # "idle" => pc[t] # "idle" \/ phase = "up"
<1> USE DEF UserStep, TypeOK, Goto, Finish
<1>1. CASE \E c \in CallsOf(t) \ WordCalls : Call(t, c) /\ phase = "up"
  BY <1>1, Labelling DEF Call, Inside
<1>2. CASE alive /\ Entering(t)
  BY <1>2, Labelling DEF Entering, ReadEnter, WriteEnter
<1>3. CASE Refused(t)
  BY <1>3, Labelling DEF Refused, Inside
<1>4. CASE Inner(t)
  BY <1>4, Labelling DEF Inner, Inside, ReadLoad, ReadLeave, Load, StoreData, StoreIER,
     StoreWord, WriteLeave
<1>5. QED
  BY <1>1, <1>2, <1>3, <1>4

\* Every step keeps the invariant of the driver's life.
LEMMA LifeInvStep == TypeOK /\ LifeInv /\ [LifeNext]_lifeVars => LifeInv'
<1> SUFFICES ASSUME TypeOK, LifeInv, [LifeNext]_lifeVars PROVE LifeInv'
  OBVIOUS
<1> USE DEF LifeInv
<1>1. CASE UNCHANGED lifeVars
  BY <1>1 DEF lifeVars, vars, life, TodoInv, CallerInv, MappingInv, InsideInv, Inside
<1>2. CASE Map \/ CreateMutex \/ CreateIntr
  <2>1. TodoInv'
    <3>1. CASE Map
      BY <3>1, GoesTodo DEF Map, Ioremap
    <3>2. CASE CreateMutex
      BY <3>2, GoesTodo DEF CreateMutex
    <3>3. CASE CreateIntr
      BY <3>3, GoesTodo DEF CreateIntr
    <3>4. QED
      BY <1>2, <3>1, <3>2, <3>3
  <2>2. \A t \in Task : pc[t] = "idle"
    BY <1>2 DEF Map, CreateMutex, CreateIntr, CallerInv
  <2>3. CallerInv' /\ InsideInv'
    BY <1>2, <2>2, Labelling DEF Map, CreateMutex, CreateIntr, CallerInv, InsideInv,
       Inside, vars
  <2>4. CASE Map
    BY <2>1, <2>3, <2>4 DEF Map, Goes, MappingInv, Ioremap
  <2>5. CASE CreateMutex
    BY <2>1, <2>3, <2>5 DEF CreateMutex, Goes, MappingInv
  <2>6. CASE CreateIntr
    BY <2>1, <2>3, <2>6 DEF CreateIntr, Goes, MappingInv
  <2>7. QED
    BY <1>2, <2>4, <2>5, <2>6
<1>3. CASE Spawn
  <2>1. TodoInv'
    <3>1. CASE Goes(FALSE, "spawn")
      BY <3>1, GoesTodo
    <3>2. CASE phase' = "finishing" /\ \E flags : todo' = EnableIrqs(flags) \o <<SetDir>>
      BY <3>2, EnableType DEF TodoInv
    <3>3. QED
      BY <1>3, <3>1, <3>2 DEF Spawn
  <2>2. phase' \in {"finishing", "failing"} /\ UNCHANGED <<pc, alive, mapped>>
    BY <1>3 DEF Spawn, Goes, vars
  <2>3. QED
    BY <1>3, <2>1, <2>2 DEF Spawn, CallerInv, MappingInv, InsideInv, Inside
<1>4. CASE NextCall
  <2>1. todo' \in Seq(Calls)
    BY <1>4 DEF NextCall, TodoInv
  <2>2. TodoInv' /\ MappingInv'
    BY <1>4, <2>1 DEF NextCall, TodoInv, MappingInv
  <2>3. \A t \in Task \ {Main} : pc'[t] = pc[t]
    BY <1>4 DEF NextCall, Call, Goto, TypeOK
  <2>4. pc'[Main] \in EnterLabels /\ phase \in {"finishing", "failing"}
    BY <1>4, IrqAssumption, Labelling DEF NextCall, Call, Goto, TypeOK, TodoInv
  <2>5. CallerInv' /\ InsideInv'
    BY <1>4, <2>3, <2>4, Labelling DEF NextCall, CallerInv, InsideInv, Inside
  <2>6. QED
    BY <2>2, <2>5
<1>5. CASE Started
  BY <1>5 DEF Started, vars, TodoInv, CallerInv, MappingInv, InsideInv, Inside
<1>6. CASE Unmap \/ DeleteMutex \/ DeleteIntr
  <2>1. \A t \in Task : pc[t] = "idle"
    BY <1>6 DEF Unmap, DeleteMutex, DeleteIntr, Quiet, CallerInv
  <2>2. InsideInv' /\ CallerInv'
    BY <1>6, <2>1, Labelling DEF Unmap, DeleteMutex, DeleteIntr, InsideInv, CallerInv,
       Inside, vars
  <2>3. TodoInv' /\ MappingInv'
    BY <1>6 DEF Unmap, DeleteMutex, DeleteIntr, TodoInv, MappingInv
  <2>4. QED
    BY <2>2, <2>3
<1>7. CASE IntEnds
  BY <1>7 DEF IntEnds, vars, TodoInv, CallerInv, MappingInv, InsideInv, Inside
<1>8. CASE InputChanges /\ UNCHANGED life
  BY <1>8 DEF InputChanges, life, TodoInv, CallerInv, MappingInv, InsideInv, Inside
<1>9. ASSUME NEW t \in Task, UserStep(t) PROVE LifeInv'
  <2>1. TodoInv' /\ MappingInv'
    BY <1>9 DEF UserStep, life, TodoInv, MappingInv
  <2>2. UNCHANGED <<phase, alive>>
    BY <1>9 DEF UserStep, life
  <2>3. CallerInv'
    BY <1>9, <2>2, PlaceStep DEF CallerInv
  <2>4. InsideInv'
    BY <1>9, <2>2, PlaceStep DEF InsideInv, Inside
  <2>5. QED
    BY <2>1, <2>3, <2>4
<1>10. QED
  BY <1>1, <1>2, <1>3, <1>4, <1>5, <1>6, <1>7, <1>8, <1>9 DEF LifeNext, Lifecycle

\* gpio_init, gpio_clean and the wrappers of platform_io.c use the driver as Gpio has
\* it: what is proved of Gpio holds of the driver through starts, failures and stops.
THEOREM LifeImplements == LifeSpec => Spec
<1>1. LifeInit => Init /\ LifeInv
  BY Labelling DEF LifeInit, Init, LifeInv, TodoInv, CallerInv, MappingInv, InsideInv,
     Inside
<1>2. LifeInit => TypeOK
  BY Labelling DEF LifeInit, Init, TypeOK, Free, Mutexes, NoCall
<1>3. TypeOK /\ LifeInv /\ [LifeNext]_lifeVars => [Next]_vars
  BY LifeStep DEF LifeInv
<1>4. TypeOK /\ LifeInv /\ [LifeNext]_lifeVars => TypeOK' /\ LifeInv'
  BY <1>3, TypeStep, LifeInvStep
<1>5. QED
  BY <1>1, <1>2, <1>3, <1>4, PTL DEF LifeSpec, Spec

\* No task reads or writes a register of a core that is not mapped, although
\* gpio_set_dir follows a gpio_init that failed and gpio_clean unmaps the core before it
\* deletes the mutex.
THEOREM RegistersAreMapped == LifeSpec => []UsedWhileMapped
<1>1. LifeInit => TypeOK /\ LifeInv
  BY Labelling DEF LifeInit, Init, TypeOK, Free, Mutexes, NoCall, LifeInv, TodoInv,
     CallerInv, MappingInv, InsideInv, Inside
<1>2. TypeOK /\ LifeInv /\ [LifeNext]_lifeVars => TypeOK' /\ LifeInv'
  BY LifeStep, TypeStep, LifeInvStep DEF LifeInv
<1>3. TypeOK /\ LifeInv => UsedWhileMapped
  <2> SUFFICES ASSUME LifeInv, NEW t \in Task, pc[t] \in {"read_load", "load", "store"}
               PROVE  mapped
    BY DEF UsedWhileMapped
  <2>1. Inside(t) /\ phase # "delete"
    BY Labelling DEF Inside, LifeInv, CallerInv
  <2>2. QED
    BY <2>1 DEF LifeInv, InsideInv, MappingInv
<1>4. QED
  BY <1>1, <1>2, <1>3, PTL DEF LifeSpec
===============================================================================
