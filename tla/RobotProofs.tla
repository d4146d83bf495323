------------------------------ MODULE RobotProofs -----------------------------
(***************************************************************************)
(* Proofs about HwServos, for any tasks, servos, requests and limits, and  *)
(* about Platex, for any number of signals and of tasks that end by        *)
(* themselves.  The two share nothing here: a theorem speaks of one of     *)
(* them.  Of the scripts of Platex the proofs use only the order of a few  *)
(* items.                                                                  *)
(***************************************************************************)
EXTENDS HwServos, Platex, TLAPS

-----------------------------------------------------------------------------
(***************************************************************************)
(* The servos.                                                             *)
(***************************************************************************)

USE TaskAssumption, PulseAssumption

\* Who owns the mutex is the one task inside a section; it holds it once.
LockInv ==
  /\ mutex = Free \/ (mutex.owner \in Task /\ Inside(mutex.owner))
  /\ \A t \in Task : Inside(t) => mutex = [owner |-> t, depth |-> 1]

\* A task is in a call only while the driver is up, and where its call takes it.
CallInv ==
  \A t \in Task :
    pc[t] # "idle" =>
      /\ stage = "ready" /\ op[t] \in Calls
      /\ pc[t] = "access" => op[t].kind # "set_pos"
      /\ pc[t] = "latch" => op[t].kind = "set_pos"

\* The word hwservos_enable and hwservos_disable write back has the pulse of the
\* register in it still.
OldInv ==
  \A t \in Task :
    pc[t] = "store" /\ op[t].kind # "set_pos" => old[t].pulse = pulse[op[t].num]

\* Between its two writes hwservos_set_pos has the register at the position it is
\* about to latch.
LatchInv ==
  \A t \in Task : pc[t] = "latch" => pulse[op[t].num] = Clamped(op[t].value)

\* Apart from that moment, register and latch agree.
PositionInv ==
  \A n \in Servo :
    values[n] # 0 /\ (\A t \in Task : pc[t] = "latch" => op[t].num # n)
      => pulse[n] = values[n]

\* What the loop of hwservos_clean has behind it is disabled.
DisabledInv ==
  /\ stage = "stopping" => \A n \in Servo \ left : ~enabled[n]
  /\ DisabledWhenUnmapped

ServoInv == TypeOK /\ LockInv /\ CallInv /\ OldInv /\ LatchInv /\ PositionInv /\ DisabledInv

\* The labels of hwservos.c, listed.
LEMMA Labelling ==
  /\ Labels = {"access", "store", "latch", "leave", "idle", "enter", "return"}
  /\ InsideLabels = {"access", "store", "latch", "leave"}
BY DEF Labels, InsideLabels

\* What the sanity check of hwservos_set_pos gives is within the limits.
LEMMA ClampedType == \A v \in Nat : Clamped(v) \in Min..Max
BY DEF Clamped

\* A call names a servo, and set_pos a pulse width.
LEMMA CallType ==
  ASSUME NEW c \in Calls
  PROVE  /\ c.num \in Servo
         /\ c.kind \in {"set_pos", "get_pos", "enable", "disable"}
         /\ c.kind = "set_pos" => c.value \in Nat
BY DEF Calls

\* A state of before the first hwservos_init.
LEMMA ServoInitially == Init => ServoInv
<1> SUFFICES ASSUME Init PROVE ServoInv
  OBVIOUS
<1>1. TypeOK
  BY Labelling DEF Init, TypeOK, Stages, Free, Mutexes, Words, NoWord
<1>2. QED
  BY <1>1, Labelling DEF Init, ServoInv, LockInv, CallInv, OldInv, LatchInv, PositionInv,
     DisabledInv, DisabledWhenUnmapped, Inside

\* hwservos_init and hwservos_clean run while nobody is in a call.
LEMMA LifecycleStep == ServoInv /\ Lifecycle => ServoInv'
<1> SUFFICES ASSUME ServoInv, Lifecycle PROVE ServoInv'
  OBVIOUS
<1> USE DEF ServoInv
<1>1. TypeOK'
  <2>1. mutex' \in Mutexes
    BY DEF TypeOK, Lifecycle, Map, RefuseNumOf, ClearLatch, CreateMutex, CleanStart,
       DisableNext, Unmap, DeleteMutex, Free, Mutexes
  <2>2. enabled' \in [Servo -> BOOLEAN]
    BY DEF TypeOK, Lifecycle, Map, RefuseNumOf, ClearLatch, CreateMutex, CleanStart,
       DisableNext, Unmap, DeleteMutex, register
  <2>3. stage' \in Stages /\ left' \subseteq Servo /\ values' \in [Servo -> Nat]
    BY DEF TypeOK, Lifecycle, Map, RefuseNumOf, ClearLatch, CreateMutex, CleanStart,
       DisableNext, Unmap, DeleteMutex, Stages
  <2>4. UNCHANGED <<pulse, pc, op, old>>
    BY DEF Lifecycle, Map, RefuseNumOf, ClearLatch, CreateMutex, CleanStart,
       DisableNext, Unmap, DeleteMutex, register
  <2>5. QED
    BY <2>1, <2>2, <2>3, <2>4 DEF TypeOK
<1>2. \A t \in Task : pc[t] = "idle"
  BY DEF CallInv, Quiet, Lifecycle, Map, RefuseNumOf, ClearLatch, CreateMutex, CleanStart,
     DisableNext, Unmap, DeleteMutex
<1>3. UNCHANGED <<pulse, pc, op, old>>
  BY DEF Lifecycle, Map, RefuseNumOf, ClearLatch, CreateMutex, CleanStart, DisableNext,
     Unmap, DeleteMutex, register
<1>4. LockInv'
  <2>1. mutex = Free
    BY <1>2, Labelling DEF LockInv, Inside
  <2>2. mutex' = Free
    BY <2>1 DEF Lifecycle, Map, RefuseNumOf, ClearLatch, CreateMutex, CleanStart,
       DisableNext, Unmap, DeleteMutex
  <2>3. QED
    BY <1>2, <1>3, <2>2, Labelling DEF LockInv, Inside
<1>5. CallInv' /\ OldInv' /\ LatchInv'
  BY <1>2, <1>3 DEF CallInv, OldInv, LatchInv
<1>6. PositionInv'
  <2>1. \A n \in Servo : values'[n] \in {0, values[n]}
    BY DEF TypeOK, Lifecycle, Map, RefuseNumOf, ClearLatch, CreateMutex, CleanStart,
       DisableNext, Unmap, DeleteMutex
  <2>2. QED
    BY <1>2, <1>3, <2>1 DEF PositionInv
<1>7. DisabledInv'
  <2>1. CASE DisableNext
    BY <2>1 DEF DisableNext, DisabledInv, DisabledWhenUnmapped, TypeOK
  <2>2. CASE CleanStart
    BY <2>2 DEF CleanStart, DisabledInv, DisabledWhenUnmapped
  <2>3. CASE Unmap
    BY <2>3 DEF Unmap, DisabledInv, DisabledWhenUnmapped, register
  <2>4. CASE Map \/ RefuseNumOf \/ ClearLatch \/ CreateMutex \/ DeleteMutex
    BY <2>4 DEF Map, RefuseNumOf, ClearLatch, CreateMutex, DeleteMutex, DisabledInv,
       DisabledWhenUnmapped, register
  <2>5. QED
    BY <2>1, <2>2, <2>3, <2>4 DEF Lifecycle
<1>8. QED
  BY <1>1, <1>4, <1>5, <1>6, <1>7

\* A step of a task leaves the others where they are, and the driver up.
LEMMA ServoFrame ==
  ASSUME ServoInv, NEW t \in Task, Step(t)
  PROVE  /\ \A u \in Task \ {t} : UNCHANGED <<pc[u], op[u], old[u]>>
         /\ UNCHANGED driver /\ stage = "ready"
BY DEF ServoInv, TypeOK, CallInv, Step, Call, Enter, Read, Store, Latch, Leave, Return, Goto

\* A step of a task keeps the types.
LEMMA TypeStep ==
  ASSUME ServoInv, NEW t \in Task, Step(t)
  PROVE  TypeOK'
<1> USE Labelling DEF ServoInv, TypeOK, Goto
<1>1. CASE \E c \in Calls : Call(t, c)
  BY <1>1 DEF Call, driver, register
<1>2. CASE Enter(t)
  <2>1. mutex' \in Mutexes
    BY <1>2 DEF Enter, Acquired, Mutexes
  <2>2. QED
    BY <1>2, <2>1 DEF Enter, driver, register
<1>3. CASE Read(t)
  <2>1. op[t].num \in Servo
    BY <1>3, CallType DEF Read, CallInv
  <2>2. [enabled |-> enabled[op[t].num], pulse |-> pulse[op[t].num]] \in Words
    BY <2>1 DEF Words
  <2>3. QED
    BY <1>3, <2>2 DEF Read, driver, register
<1>4. CASE Store(t)
  <2>1. op[t] \in Calls
    BY <1>4 DEF Store, CallInv
  <2>2. op[t].kind = "set_pos" => Clamped(op[t].value) \in Min..Max
    BY <2>1, CallType, ClampedType
  <2>3. op[t].kind # "set_pos" => old[t].pulse \in {0} \cup Min..Max
    BY <1>4, <2>1, CallType DEF Store, OldInv
  <2>4. QED
    BY <1>4, <2>2, <2>3 DEF Store, driver
<1>5. CASE Latch(t)
  <2>1. op[t] \in Calls /\ op[t].kind = "set_pos"
    BY <1>5 DEF Latch, CallInv
  <2>2. Clamped(op[t].value) \in Nat
    BY <2>1, CallType, ClampedType
  <2>3. QED
    BY <1>5, <2>2 DEF Latch, driver, register
<1>6. CASE Leave(t)
  <2>1. mutex' \in Mutexes
    BY <1>6 DEF Leave, Released, Mutexes, Free
  <2>2. QED
    BY <1>6, <2>1 DEF Leave, driver, register
<1>7. CASE Return(t)
  BY <1>7 DEF Return, driver, register, NoWord, Words
<1>8. QED
  BY <1>1, <1>2, <1>3, <1>4, <1>5, <1>6, <1>7 DEF Step

\* A step of a task keeps the mutex with the one task inside a section, and every task
\* in its call.
LEMMA LockStep ==
  ASSUME ServoInv, NEW t \in Task, Step(t)
  PROVE  LockInv' /\ CallInv'
<1> USE Labelling DEF ServoInv
<1>1. CASE \E c \in Calls : Call(t, c)
  BY <1>1 DEF TypeOK, Goto, Call, LockInv, CallInv, Inside, driver
<1>2. CASE Enter(t)
  <2>1. mutex = Free /\ ~Inside(t)
    BY <1>2 DEF Enter, CanAcquire, LockInv, Inside, TypeOK, Free
  <2>2. LockInv'
    BY <1>2, <2>1 DEF Enter, LockInv, Inside, TypeOK, Goto, Acquired, Free
  <2>3. CallInv'
    BY <1>2 DEF Enter, CallInv, TypeOK, Goto, driver
  <2>4. QED
    BY <2>2, <2>3
<1>3. CASE Read(t) \/ Store(t) \/ Latch(t)
  <2>1. UNCHANGED <<mutex, stage, op>> /\ pc[t] \in InsideLabels
    BY <1>3 DEF Read, Store, Latch, driver
  <2>2. pc'[t] \in {"leave", "store"} \/ (pc'[t] = "latch" /\ op[t].kind = "set_pos")
    BY <1>3 DEF Read, Store, Latch, Goto, TypeOK
  <2>3. QED
    BY <2>1, <2>2, ServoFrame DEF LockInv, CallInv, Inside
<1>4. CASE Leave(t)
  <2>1. mutex' = Free
    BY <1>4 DEF Leave, LockInv, Inside, Released, Free
  <2>2. LockInv'
    BY <1>4, <2>1 DEF Leave, LockInv, Inside, TypeOK, Goto, Free
  <2>3. CallInv'
    BY <1>4 DEF Leave, CallInv, TypeOK, Goto, driver
  <2>4. QED
    BY <2>2, <2>3
<1>5. CASE Return(t)
  BY <1>5 DEF Return, LockInv, CallInv, Inside, TypeOK, Goto, driver
<1>6. QED
  BY <1>1, <1>2, <1>3, <1>4, <1>5 DEF Step

\* A step of a task keeps registers, words read and latch in agreement.
LEMMA PositionStep ==
  ASSUME ServoInv, NEW t \in Task, Step(t)
  PROVE  OldInv' /\ LatchInv' /\ PositionInv'
<1> USE Labelling DEF ServoInv
<1>1. CASE pc[t] \in {"idle", "enter", "leave", "return"}
  <2>1. UNCHANGED <<pulse, values>>
    BY <1>1 DEF Step, Call, Enter, Read, Store, Latch, Leave, Return, register
  <2>2. pc'[t] # "latch" /\ (pc'[t] = "store" => op'[t].kind = "set_pos")
    BY <1>1 DEF Step, Call, Enter, Read, Store, Latch, Leave, Return, Goto, TypeOK
  <2>3. QED
    BY <1>1, <2>1, <2>2, ServoFrame DEF OldInv, LatchInv, PositionInv
<1>2. CASE pc[t] = "access"
  <2>1. Read(t)
    BY <1>2 DEF Step, Call, Enter, Store, Latch, Leave, Return
  <2>2. UNCHANGED <<pulse, values, op>> /\ pc'[t] \in {"leave", "store"}
        /\ old'[t].pulse = pulse[op[t].num]
    BY <2>1 DEF Read, Goto, TypeOK, register
  <2>3. QED
    BY <1>2, <2>2, ServoFrame DEF OldInv, LatchInv, PositionInv
<1>3. CASE pc[t] = "store"
  <2>1. Store(t)
    BY <1>3 DEF Step, Call, Enter, Read, Latch, Leave, Return
  <2>2. \A u \in Task \ {t} : pc[u] \notin InsideLabels
    BY <1>3 DEF LockInv, Inside
  <2>3. UNCHANGED <<values, op>> /\ op[t].num \in Servo
    BY <2>1, <1>3, CallType DEF Store, CallInv
  <2>4. CASE op[t].kind = "set_pos"
    <3>1. /\ pc'[t] = "latch" /\ pulse'[op[t].num] = Clamped(op[t].value)
          /\ \A n \in Servo \ {op[t].num} : pulse'[n] = pulse[n]
      BY <2>1, <2>3, <2>4 DEF Store, Goto, TypeOK
    <3>2. QED
      BY <1>3, <2>2, <2>3, <3>1, ServoFrame DEF OldInv, LatchInv, PositionInv
  <2>5. CASE op[t].kind # "set_pos"
    <3>1. pulse' = pulse /\ pc'[t] = "leave"
      BY <1>3, <2>1, <2>3, <2>5 DEF Store, Goto, TypeOK, OldInv
    <3>2. QED
      BY <1>3, <2>3, <3>1, ServoFrame DEF OldInv, LatchInv, PositionInv
  <2>6. QED
    BY <2>4, <2>5
<1>4. CASE pc[t] = "latch"
  <2>1. Latch(t)
    BY <1>4 DEF Step, Call, Enter, Read, Store, Leave, Return
  <2>2. UNCHANGED <<pulse, op>> /\ op[t].num \in Servo /\ pc'[t] = "leave"
    BY <2>1, <1>4, CallType DEF Latch, CallInv, Goto, TypeOK, register
  <2>3. /\ values'[op[t].num] = pulse[op[t].num]
        /\ \A n \in Servo \ {op[t].num} : values'[n] = values[n]
    BY <2>1, <2>2, <1>4 DEF Latch, LatchInv, TypeOK
  <2>4. QED
    BY <1>4, <2>2, <2>3, ServoFrame DEF OldInv, LatchInv, PositionInv
<1>5. QED
  BY <1>1, <1>2, <1>3, <1>4 DEF TypeOK

\* Every step keeps the invariant.
LEMMA ServoStep == ServoInv /\ [Next]_vars => ServoInv'
<1> SUFFICES ASSUME ServoInv, [Next]_vars PROVE ServoInv'
  OBVIOUS
<1>1. CASE UNCHANGED vars
  BY <1>1 DEF vars, driver, register, ServoInv, TypeOK, LockInv, CallInv, OldInv, LatchInv,
     PositionInv, DisabledInv, DisabledWhenUnmapped, Inside
<1>2. CASE Lifecycle
  BY <1>2, LifecycleStep
<1>3. ASSUME NEW t \in Task, Step(t) PROVE ServoInv'
  <2>1. DisabledInv'
    BY <1>3, ServoFrame DEF driver, DisabledInv, DisabledWhenUnmapped
  <2>2. QED
    BY <1>3, <2>1, TypeStep, LockStep, PositionStep DEF ServoInv
<1>4. QED
  BY <1>1, <1>2, <1>3 DEF Next

\* At all times the variables have their types; above all a pulse in a register is 0 or
\* within the limits of hwservos_set_pos.
THEOREM ServoTyping == Spec => []TypeOK
<1>1. ServoInv => TypeOK
  BY DEF ServoInv
<1>2. QED
  BY <1>1, ServoInitially, ServoStep, PTL DEF Spec

\* The position hwservos_set_pos has set survives the enable and disable of other tasks.
THEOREM Positions == Spec => []PositionKept
<1>1. ServoInv => PositionKept
  BY Labelling DEF ServoInv, PositionInv, PositionKept, Busy, Inside
<1>2. QED
  BY <1>1, ServoInitially, ServoStep, PTL DEF Spec

\* hwservos_clean unmaps the core only when no servo is driven.
THEOREM Disabling == Spec => []DisabledWhenUnmapped
<1>1. ServoInv => DisabledWhenUnmapped
  BY DEF ServoInv, DisabledInv
<1>2. QED
  BY <1>1, ServoInitially, ServoStep, PTL DEF Spec

-----------------------------------------------------------------------------
(***************************************************************************)
(* The program.                                                            *)
(***************************************************************************)

USE PlatexAssumption

-----------------------------------------------------------------------------
\* An item of a script comes before its i-th one.
Past(script, i, item) == \E j \in 1..Len(script) : j < i /\ script[j] = item

\* What main_task is past is started, a worker after all it uses, and nothing is
\* cleaned before a signal.
BootInv ==
  /\ thread = "starting" => boot = 0
  /\ Running =>
       /\ \A d \in Device : Past(Boot, boot, <<"init", d>>) => dev[d] # "absent"
       /\ \A w \in Worker : Past(Boot, boot, <<"spawn", w>>) <=> work[w] # "unborn"
  /\ signals = 0 => clean = 0 /\ \A d \in Device : dev[d] # "down"

\* An exit ends every worker, and the cleaner.
EndInv == ~Running => clean = 0 /\ \A w \in Worker : work[w] = "ended"

\* Whom the cleaner is past is deleted, for ever, and so is everybody that uses a
\* device it has cleaned.
DeletedInv ==
  late /\ Running =>
    /\ Booted
    /\ \A d \in Device : dev[d] # "absent"
    /\ \A w \in Worker :
         /\ Past(Cleanup, clean, <<"delete", w>>) => work[w] = "ended"
         /\ (\E d \in MutexesOf(w) : dev[d] = "down") => work[w] = "ended"

\* An actuator the cleaner is past stopping is not driven.
StoppedInv ==
  late =>
    /\ \A d \in Actuator :
         (Running /\ Past(Cleanup, clean, <<"stop", d>>)) \/ dev[d] = "down"
           => d \notin moving
    /\ process = "cleaned" => moving = {}

\* Only the worker of an actuator drives it, and none if its init failed.
MovingInv ==
  Running => \A d \in Actuator : d \in moving => work[d] # "unborn" /\ dev[d] # "broken"

PlatexInv ==
  PlatexTypeOK /\ BootInv /\ EndInv /\ MovingInv /\ DeletedInv /\ StoppedInv

DevStates == {"absent", "up", "broken", "down"}
WorkStates == {"unborn", "resting", "using", "ended"}

-----------------------------------------------------------------------------
(***************************************************************************)
(* The scripts.                                                            *)
(***************************************************************************)

\* The items of main_task, listed ...
LEMMA BootItems ==
  /\ Len(Boot) = 15
  /\ Boot[1] = <<"init", "gpio">>     /\ Boot[2] = <<"spawn", "gpio">>
  /\ Boot[3] = <<"init", "servos">>   /\ Boot[4] = <<"spawn", "servos">>
  /\ Boot[5] = <<"init", "motors">>   /\ Boot[6] = <<"spawn", "motors">>
  /\ Boot[7] = <<"init", "spi">>      /\ Boot[8] = <<"init", "adc">>
  /\ Boot[9] = <<"spawn", "adc">>     /\ Boot[10] = <<"init", "i2c1">>
  /\ Boot[11] = <<"init", "i2c2">>    /\ Boot[12] = <<"init", "acc">>
  /\ Boot[13] = <<"spawn", "acc">>    /\ Boot[14] = <<"init", "sonar">>
  /\ Boot[15] = <<"spawn", "sonar">>
BY DEF Boot

\* ... and those of clean_rt_task.
LEMMA CleanupItems ==
  /\ Len(Cleanup) = 17
  /\ Cleanup[1] = <<"delete", "servos">> /\ Cleanup[2] = <<"stop", "servos">>
  /\ Cleanup[3] = <<"clean", "servos">>  /\ Cleanup[4] = <<"delete", "motors">>
  /\ Cleanup[5] = <<"stop", "motors">>   /\ Cleanup[6] = <<"clean", "motors">>
  /\ Cleanup[7] = <<"delete", "adc">>    /\ Cleanup[8] = <<"clean", "adc">>
  /\ Cleanup[9] = <<"clean", "spi">>     /\ Cleanup[10] = <<"delete", "acc">>
  /\ Cleanup[11] = <<"clean", "acc">>    /\ Cleanup[12] = <<"delete", "sonar">>
  /\ Cleanup[13] = <<"clean", "sonar">>  /\ Cleanup[14] = <<"clean", "i2c1">>
  /\ Cleanup[15] = <<"clean", "i2c2">>   /\ Cleanup[16] = <<"delete", "gpio">>
  /\ Cleanup[17] = <<"clean", "gpio">>
BY DEF Cleanup

\* The mutexes of the workers.
LEMMA MutexesListed ==
  /\ MutexesOf("gpio") = {"gpio"} /\ MutexesOf("servos") = {"servos"}
  /\ MutexesOf("motors") = {"motors"} /\ MutexesOf("adc") = {"adc", "spi"}
  /\ MutexesOf("acc") = {"acc", "i2c1"} /\ MutexesOf("sonar") = {"sonar", "i2c2"}
BY DEF MutexesOf, OnBus, BusOf

\* main_task starts every device and every worker, a worker after all it uses.
LEMMA BootOrder ==
  /\ \A i \in 1..Len(Boot) :
       \/ \E d \in Device : Boot[i] = <<"init", d>>
       \/ \E w \in Worker : Boot[i] = <<"spawn", w>>
  /\ \A d \in Device : \E j \in 1..Len(Boot) : Boot[j] = <<"init", d>>
  /\ \A w \in Worker : \E j \in 1..Len(Boot) : Boot[j] = <<"spawn", w>>
  /\ \A i \in 1..Len(Boot), w \in Worker : \A d \in MutexesOf(w) :
       Boot[i] = <<"spawn", w>> => Past(Boot, i, <<"init", d>>)
  /\ \A i \in 1..Len(Boot), d \in Actuator :
       Boot[i] = <<"init", d>> => ~Past(Boot, i, <<"spawn", d>>)
<1>1. ASSUME NEW i \in 1..Len(Boot)
      PROVE  \/ \E d \in Device : Boot[i] = <<"init", d>>
             \/ \E w \in Worker : Boot[i] = <<"spawn", w>>
  <2>1. i \in {1, 2, 3, 4, 5, 6, 7, 8, 9, 10, 11, 12, 13, 14, 15}
    BY BootItems
  <2>2. QED
    BY <2>1, BootItems DEF Device, Worker
<1>2. ASSUME NEW d \in Device PROVE \E j \in 1..Len(Boot) : Boot[j] = <<"init", d>>
  BY BootItems DEF Device
<1>3. ASSUME NEW w \in Worker PROVE \E j \in 1..Len(Boot) : Boot[j] = <<"spawn", w>>
  BY BootItems DEF Worker
<1>i. \A i \in 1..Len(Boot) :
        i \in {1, 2, 3, 4, 5, 6, 7, 8, 9, 10, 11, 12, 13, 14, 15}
  BY BootItems
<1>4. ASSUME NEW i \in 1..Len(Boot), NEW w \in Worker, NEW d \in MutexesOf(w),
             Boot[i] = <<"spawn", w>>
      PROVE  Past(Boot, i, <<"init", d>>)
  <2>1. CASE w \in {"gpio", "servos", "motors"}
    BY <1>4, <1>i, <2>1, BootItems, MutexesListed DEF Past
  <2>2. CASE w \in {"adc", "acc", "sonar"}
    BY <1>4, <1>i, <2>2, BootItems, MutexesListed DEF Past
  <2>3. QED
    BY <2>1, <2>2 DEF Worker
<1>5. ASSUME NEW i \in 1..Len(Boot), NEW d \in Actuator, Boot[i] = <<"init", d>>
      PROVE  ~Past(Boot, i, <<"spawn", d>>)
  BY <1>5, <1>i, BootItems DEF Past, Actuator
<1>6. QED
  BY <1>1, <1>2, <1>3, <1>4, <1>5

\* clean_rt_task deletes the users of a device before it cleans the device, and the
\* user of an actuator before it stops the actuator, which comes before its clean.
LEMMA CleanupOrder ==
  /\ \A i \in 1..Len(Cleanup) :
       \/ \E w \in Worker : Cleanup[i] = <<"delete", w>>
       \/ \E d \in Actuator : Cleanup[i] = <<"stop", d>>
       \/ \E d \in Device : Cleanup[i] = <<"clean", d>>
  /\ \A i \in 1..Len(Cleanup), d \in Device, w \in Worker :
       Cleanup[i] = <<"clean", d>> /\ d \in MutexesOf(w) =>
         Past(Cleanup, i, <<"delete", w>>)
  /\ \A i \in 1..Len(Cleanup), d \in Actuator :
       Cleanup[i] = <<"stop", d>> => Past(Cleanup, i, <<"delete", d>>)
  /\ \A i \in 1..Len(Cleanup), d \in Actuator :
       Cleanup[i] = <<"clean", d>> => Past(Cleanup, i, <<"stop", d>>)
  /\ \A d \in Actuator : Past(Cleanup, Len(Cleanup) + 1, <<"stop", d>>)
<1>i. \A i \in 1..Len(Cleanup) :
        i \in {1, 2, 3, 4, 5, 6, 7, 8, 9, 10, 11, 12, 13, 14, 15, 16, 17}
  BY CleanupItems
<1>1. ASSUME NEW i \in 1..Len(Cleanup)
      PROVE  \/ \E w \in Worker : Cleanup[i] = <<"delete", w>>
             \/ \E d \in Actuator : Cleanup[i] = <<"stop", d>>
             \/ \E d \in Device : Cleanup[i] = <<"clean", d>>
  BY <1>i, CleanupItems DEF Worker, Actuator, Device
<1>2. ASSUME NEW i \in 1..Len(Cleanup), NEW d \in Device, NEW w \in Worker,
             Cleanup[i] = <<"clean", d>>, d \in MutexesOf(w)
      PROVE  Past(Cleanup, i, <<"delete", w>>)
  <2>1. CASE w = "gpio"
    BY <1>2, <1>i, <2>1, CleanupItems, MutexesListed DEF Past
  <2>2. CASE w = "servos"
    BY <1>2, <1>i, <2>2, CleanupItems, MutexesListed DEF Past
  <2>3. CASE w = "motors"
    BY <1>2, <1>i, <2>3, CleanupItems, MutexesListed DEF Past
  <2>4. CASE w = "adc"
    BY <1>2, <1>i, <2>4, CleanupItems, MutexesListed DEF Past
  <2>5. CASE w = "acc"
    BY <1>2, <1>i, <2>5, CleanupItems, MutexesListed DEF Past
  <2>6. CASE w = "sonar"
    BY <1>2, <1>i, <2>6, CleanupItems, MutexesListed DEF Past
  <2>7. QED
    BY <2>1, <2>2, <2>3, <2>4, <2>5, <2>6 DEF Worker
<1>3. ASSUME NEW i \in 1..Len(Cleanup), NEW d \in Actuator, Cleanup[i] = <<"stop", d>>
      PROVE  Past(Cleanup, i, <<"delete", d>>)
  BY <1>3, <1>i, CleanupItems DEF Past, Actuator
<1>4. ASSUME NEW i \in 1..Len(Cleanup), NEW d \in Actuator, Cleanup[i] = <<"clean", d>>
      PROVE  Past(Cleanup, i, <<"stop", d>>)
  BY <1>4, <1>i, CleanupItems DEF Past, Actuator
<1>5. ASSUME NEW d \in Actuator PROVE Past(Cleanup, Len(Cleanup) + 1, <<"stop", d>>)
  BY CleanupItems DEF Past, Actuator
<1>6. QED
  BY <1>1, <1>2, <1>3, <1>4, <1>5

\* So whoever has stopped an actuator has deleted its user.
LEMMA StopsDeleted ==
  ASSUME NEW i \in Nat, NEW d \in Actuator, Past(Cleanup, i, <<"stop", d>>)
  PROVE  Past(Cleanup, i, <<"delete", d>>)
<1>1. PICK j \in 1..Len(Cleanup) : j < i /\ Cleanup[j] = <<"stop", d>>
  BY DEF Past
<1>2. PICK k \in 1..Len(Cleanup) : k < j /\ Cleanup[k] = <<"delete", d>>
  BY <1>1, CleanupOrder DEF Past
<1>3. k < i
  BY <1>1, <1>2, CleanupItems
<1>4. QED
  BY <1>2, <1>3 DEF Past

\* Going on to the next item puts one more item in the past.
LEMMA PastNext ==
  /\ \A x : \A i \in 1..Len(Boot) : Past(Boot, i + 1, x) <=> Past(Boot, i, x) \/ Boot[i] = x
  /\ \A x : \A i \in 1..Len(Cleanup) :
       Past(Cleanup, i + 1, x) <=> Past(Cleanup, i, x) \/ Cleanup[i] = x
  /\ \A x : \A i \in {0, 1} : ~Past(Boot, i, x) /\ ~Past(Cleanup, i, x)
  /\ \A d \in Device : Past(Boot, Len(Boot) + 1, <<"init", d>>)
  /\ \A w \in Worker : Past(Boot, Len(Boot) + 1, <<"spawn", w>>)
<1>1. \A x : \A i \in 1..Len(Boot) :
        Past(Boot, i + 1, x) <=> Past(Boot, i, x) \/ Boot[i] = x
  BY BootItems DEF Past
<1>2. \A x : \A i \in 1..Len(Cleanup) :
        Past(Cleanup, i + 1, x) <=> Past(Cleanup, i, x) \/ Cleanup[i] = x
  BY CleanupItems DEF Past
<1>3. \A x : \A i \in {0, 1} : ~Past(Boot, i, x) /\ ~Past(Cleanup, i, x)
  BY BootItems, CleanupItems DEF Past
<1>4. \A i \in 1..Len(Boot) : i < Len(Boot) + 1
  BY BootItems
<1>5. /\ \A d \in Device : Past(Boot, Len(Boot) + 1, <<"init", d>>)
      /\ \A w \in Worker : Past(Boot, Len(Boot) + 1, <<"spawn", w>>)
  BY <1>4, BootOrder DEF Past
<1>6. QED
  BY <1>1, <1>2, <1>3, <1>5

\* What an item names.
LEMMA Items ==
  ASSUME NEW i
  PROVE  /\ At(Boot, i, "init") =>
              Boot[i][2] \in Device /\ Boot[i] = <<"init", Boot[i][2]>>
         /\ At(Boot, i, "spawn") =>
              Boot[i][2] \in Worker /\ Boot[i] = <<"spawn", Boot[i][2]>>
         /\ At(Cleanup, i, "delete") =>
              Cleanup[i][2] \in Worker /\ Cleanup[i] = <<"delete", Cleanup[i][2]>>
         /\ At(Cleanup, i, "stop") =>
              Cleanup[i][2] \in Actuator /\ Cleanup[i] = <<"stop", Cleanup[i][2]>>
         /\ At(Cleanup, i, "clean") =>
              Cleanup[i][2] \in Device /\ Cleanup[i] = <<"clean", Cleanup[i][2]>>
<1>1. At(Boot, i, "init") \/ At(Boot, i, "spawn") =>
        /\ i \in 1..Len(Boot)
        /\ \/ \E d \in Device : Boot[i] = <<"init", d>>
           \/ \E w \in Worker : Boot[i] = <<"spawn", w>>
  BY BootOrder DEF At
<1>2. At(Cleanup, i, "delete") \/ At(Cleanup, i, "stop") \/ At(Cleanup, i, "clean") =>
        /\ i \in 1..Len(Cleanup)
        /\ \/ \E w \in Worker : Cleanup[i] = <<"delete", w>>
           \/ \E d \in Actuator : Cleanup[i] = <<"stop", d>>
           \/ \E d \in Device : Cleanup[i] = <<"clean", d>>
  BY CleanupOrder DEF At
<1>3. QED
  BY <1>1, <1>2 DEF At

\* An actuator is the device of one worker, a worker a device, and all its mutexes
\* are devices.
LEMMA Names ==
  /\ Actuator \subseteq Worker /\ Worker \subseteq Device
  /\ \A w \in Worker : w \in MutexesOf(w) /\ MutexesOf(w) \subseteq Device
BY MutexesListed DEF Actuator, Worker, Device

-----------------------------------------------------------------------------
(***************************************************************************)
(* The steps.                                                              *)
(***************************************************************************)

\* A task inside a driver finds all it uses started, and not cleaned.
LEMMA UsersFind == PlatexInv => UsersHaveDevices
<1> SUFFICES ASSUME PlatexInv, signals = 0 \/ late, NEW w \in Worker, work[w] = "using",
                    NEW m \in MutexesOf(w)
             PROVE  dev[m] \in {"up", "broken"}
  BY DEF UsersHaveDevices
<1>1. Running
  BY DEF PlatexInv, EndInv
<1>2. PICK j \in 1..Len(Boot) : j < boot /\ Boot[j] = <<"spawn", w>>
  BY <1>1 DEF PlatexInv, BootInv, Past
<1>3. PICK k \in 1..Len(Boot) : k < j /\ Boot[k] = <<"init", m>>
  BY <1>2, BootOrder DEF Past
<1>4. Past(Boot, boot, <<"init", m>>)
  <2>1. k < boot
    BY <1>2, <1>3, BootItems DEF PlatexInv, PlatexTypeOK
  <2>2. QED
    BY <1>3, <2>1 DEF Past
<1>5. m \in Device /\ dev \in [Device -> DevStates]
  BY Names DEF PlatexInv, PlatexTypeOK, DevStates
<1>6. dev[m] # "absent"
  BY <1>1, <1>4, <1>5 DEF PlatexInv, BootInv
<1>7. dev[m] # "down"
  BY <1>1, <1>5 DEF PlatexInv, BootInv, DeletedInv
<1>8. QED
  BY <1>5, <1>6, <1>7 DEF DevStates

\* An exit leaves nothing to be done but that no actuator is driven after a handler
\* that has waited for the cleaner.
LEMMA ExitStep ==
  ASSUME PlatexInv, NEW how \in {"failed", "cleaned", "unclean"}, Exit(how),
         signals' \in 0..MaxSignals, late' \in BOOLEAN,
         how = "cleaned" /\ late' => moving = {}
  PROVE  PlatexInv'
<1>1. PlatexTypeOK'
  <2>1. boot' \in 0..Len(Boot) + 1 /\ clean' \in 0..Len(Cleanup) + 1
    BY BootItems, CleanupItems DEF Exit
  <2>2. moving' \subseteq Actuator /\ lost' \subseteq Device
    BY DEF PlatexInv, PlatexTypeOK, Exit
  <2>3. QED
    BY <2>1, <2>2 DEF PlatexTypeOK, Exit
<1>2. BootInv' /\ EndInv' /\ MovingInv' /\ DeletedInv'
  BY DEF Exit, BootInv, EndInv, MovingInv, DeletedInv, Running
<1>3. StoppedInv'
  BY DEF Exit, StoppedInv, Running, Actuator, Device
<1>4. QED
  BY <1>1, <1>2, <1>3 DEF PlatexInv

\* main and the signal handler.
LEMMA MainStep ==
  ASSUME PlatexInv, Start \/ Signal \/ Join \/ JoinAtOnce \/ Fail \/ Crash
  PROVE  PlatexInv'
<1>typ. /\ signals \in 0..MaxSignals /\ late \in BOOLEAN /\ moving \subseteq Actuator
        /\ boot \in 0..Len(Boot) + 1 /\ clean \in 0..Len(Cleanup) + 1
  BY DEF PlatexInv, PlatexTypeOK
<1>1. CASE Start
  <2>1. CASE Exit("failed")
    BY <1>1, <1>typ, <2>1, ExitStep DEF Start
  <2>2. CASE ~Exit("failed")
    <3>1. /\ boot' = 1 /\ thread' = "paused" /\ Running /\ thread = "starting"
          /\ UNCHANGED <<clean, end, dev, work, moving, lost, process, signals, late>>
      BY <1>1, <2>2 DEF Start
    <3>2. PlatexTypeOK'
      BY <3>1, BootItems DEF PlatexInv, PlatexTypeOK
    <3>3. boot = 0 /\ \A x : ~Past(Boot, boot, x) /\ ~Past(Boot, boot', x)
      BY <3>1, PastNext DEF PlatexInv, BootInv
    <3>4. BootInv'
      BY <3>1, <3>3 DEF PlatexInv, BootInv, Running
    <3>5. ~late
      BY <3>1, <3>3, BootItems DEF PlatexInv, DeletedInv, Booted
    <3>6. EndInv' /\ MovingInv' /\ DeletedInv' /\ StoppedInv'
      BY <3>1, <3>5 DEF PlatexInv, EndInv, MovingInv, DeletedInv, StoppedInv, Running
    <3>7. QED
      BY <3>2, <3>4, <3>6 DEF PlatexInv
  <2>3. QED
    BY <2>1, <2>2
<1>2. CASE Signal
  <2>typ. signals' \in 0..MaxSignals /\ signals' # 0 /\ late' \in BOOLEAN
    <3>1. signals' \in 0..MaxSignals /\ signals' # 0
      BY <1>2, <1>typ DEF Signal
    <3>2. late' \in BOOLEAN
      BY <1>2, <1>typ DEF Signal, Booted
    <3>3. QED
      BY <3>1, <3>2
  <2>1. CASE Exit("failed")
    BY <2>typ, <2>1, ExitStep
  <2>2. CASE ~Exit("failed")
    <3>1. /\ Running /\ (clean = 0 \/ Cleaned)
          /\ thread' = "handler" /\ clean' = 1
          /\ late' = IF signals = 0 THEN Booted ELSE late
          /\ UNCHANGED <<boot, end, dev, work, moving, lost, process>>
      BY <1>2, <2>2 DEF Signal, Idle
    <3>2. PlatexTypeOK'
      <4>1. clean' \in 0..Len(Cleanup) + 1
        BY <3>1, CleanupItems
      <4>2. QED
        BY <2>typ, <3>1, <4>1 DEF PlatexInv, PlatexTypeOK
    <3>3. \A x : ~Past(Cleanup, clean', x)
      BY <3>1, PastNext
    <3>4. BootInv' /\ EndInv' /\ MovingInv'
      BY <2>typ, <3>1 DEF PlatexInv, BootInv, EndInv, MovingInv, Running
    <3>5. CASE signals = 0 /\ Booted
      <4>1. \A d \in Device : dev[d] # "absent" /\ dev[d] # "down"
        BY <3>1, <3>5, PastNext DEF PlatexInv, BootInv, Booted
      <4>2. process' = "running"
        BY <3>1 DEF Running
      <4>3. QED
        BY <3>1, <3>2, <3>3, <3>4, <3>5, <4>1, <4>2, Names
           DEF PlatexInv, DeletedInv, StoppedInv, Running, Booted
    <3>6. CASE signals # 0
      <4>1. late' = late
        BY <3>1, <3>6
      <4>2. DeletedInv'
        BY <2>typ, <3>1, <3>3, <3>6, <4>1 DEF PlatexInv, DeletedInv, Running, Booted
      <4>3. StoppedInv'
        BY <3>1, <3>3, <4>1 DEF PlatexInv, StoppedInv, Running
      <4>4. QED
        BY <3>2, <3>4, <4>2, <4>3 DEF PlatexInv
    <3>7. CASE signals = 0 /\ ~Booted
      BY <2>typ, <3>1, <3>2, <3>4, <3>7 DEF PlatexInv, DeletedInv, StoppedInv
    <3>8. QED
      BY <3>5, <3>6, <3>7
  <2>3. QED
    BY <2>1, <2>2
<1>3. CASE Join
  <2>1. ASSUME late PROVE moving = {}
    <3>1. \A d \in Actuator : d \notin moving
      BY <1>3, <2>1, CleanupOrder DEF Join, Idle, Cleaned, PlatexInv, StoppedInv
    <3>2. QED
      BY <1>typ, <3>1
  <2>2. QED
    BY <1>3, <1>typ, <2>1, ExitStep DEF Join
<1>4. CASE JoinAtOnce \/ Fail \/ Crash
  BY <1>4, <1>typ, ExitStep DEF JoinAtOnce, Fail, Crash
<1>5. QED
  BY <1>1, <1>2, <1>3, <1>4

\* main_task: none of its steps is left once it has ended.
LEMMA BootStep ==
  ASSUME PlatexInv, InitDevice \/ SpawnWorker
  PROVE  PlatexInv'
<1>typ. /\ boot \in 1..Len(Boot) /\ boot' = boot + 1 /\ Running
        /\ dev \in [Device -> DevStates] /\ work \in [Worker -> WorkStates]
        /\ UNCHANGED <<thread, clean, end, moving, lost, signals, late, process>>
  BY DEF PlatexInv, PlatexTypeOK, InitDevice, SpawnWorker, At, Idle, DevStates, WorkStates
<1>past. \A x : Past(Boot, boot', x) <=> Past(Boot, boot, x) \/ Boot[boot] = x
  BY <1>typ, PastNext
<1>thread. thread # "starting"
  BY <1>typ, BootItems DEF PlatexInv, BootInv
<1>late. ~late
  BY <1>typ, BootItems DEF PlatexInv, DeletedInv, Booted
<1>1. CASE InitDevice
  <2>1. PICK d \in Device, s \in {"up", "broken"} :
          Boot[boot] = <<"init", d>> /\ dev' = [dev EXCEPT ![d] = s]
    BY <1>1, Items DEF InitDevice
  <2>2. work' = work
    BY <1>1 DEF InitDevice
  <2>3. PlatexTypeOK'
    BY <1>typ, <2>1, <2>2, BootItems DEF PlatexInv, PlatexTypeOK, DevStates
  <2>4. BootInv'
    BY <1>typ, <1>past, <1>thread, <2>1, <2>2 DEF PlatexInv, BootInv, Running
  <2>5. EndInv' /\ DeletedInv' /\ StoppedInv'
    BY <1>typ, <1>late DEF PlatexInv, EndInv, DeletedInv, StoppedInv, Running
  <2>6. MovingInv'
    <3>1. d \in Actuator => work[d] = "unborn"
      BY <1>typ, <2>1, BootOrder, Names DEF PlatexInv, BootInv
    <3>2. d \in Actuator => d \notin moving
      BY <1>typ, <3>1 DEF PlatexInv, MovingInv
    <3>3. QED
      BY <1>typ, <2>1, <2>2, <3>2, Names DEF PlatexInv, MovingInv, Running
  <2>7. QED
    BY <2>3, <2>4, <2>5, <2>6 DEF PlatexInv
<1>2. CASE SpawnWorker
  <2>1. PICK w \in Worker, s \in {"resting", "ended"} :
          Boot[boot] = <<"spawn", w>> /\ work' = [work EXCEPT ![w] = s]
    BY <1>2, Items DEF SpawnWorker
  <2>2. dev' = dev
    BY <1>2 DEF SpawnWorker
  <2>3. PlatexTypeOK'
    BY <1>typ, <2>1, <2>2, BootItems DEF PlatexInv, PlatexTypeOK, WorkStates
  <2>4. BootInv'
    BY <1>typ, <1>past, <1>thread, <2>1, <2>2 DEF PlatexInv, BootInv, Running
  <2>5. EndInv' /\ DeletedInv' /\ StoppedInv'
    BY <1>typ, <1>late DEF PlatexInv, EndInv, DeletedInv, StoppedInv, Running
  <2>6. MovingInv'
    BY <1>typ, <2>1, <2>2, Names DEF PlatexInv, MovingInv, Running
  <2>7. QED
    BY <2>3, <2>4, <2>5, <2>6 DEF PlatexInv
<1>3. QED
  BY <1>1, <1>2

\* The workers: one that is deleted does nothing.
LEMMA WorkStep ==
  ASSUME PlatexInv, NEW w \in Worker, Begin(w) \/ Finish(w) \/ Quit(w)
  PROVE  PlatexInv'
<1>typ. /\ Running /\ work[w] \in {"resting", "using"}
        /\ work \in [Worker -> WorkStates] /\ moving \subseteq Actuator
        /\ UNCHANGED <<thread, boot, clean, end, dev, lost, signals, late, process>>
  BY DEF PlatexInv, PlatexTypeOK, Begin, Finish, Quit, Idle, WorkStates
<1>1. /\ \A v \in Worker : v # w => work'[v] = work[v]
      /\ work'[w] \in {"resting", "using", "ended"}
      /\ work' \in [Worker -> WorkStates]
  BY <1>typ DEF Begin, Finish, Quit, WorkStates
<1>2. /\ moving' \subseteq Actuator
      /\ \A d \in Actuator : d \in moving' /\ d \notin moving => d = w /\ dev[w] = "up"
  BY <1>typ DEF Begin, Finish, Quit
<1>3. PlatexTypeOK'
  BY <1>typ, <1>1, <1>2 DEF PlatexInv, PlatexTypeOK, WorkStates
<1>4. BootInv' /\ EndInv'
  BY <1>typ, <1>1 DEF PlatexInv, BootInv, EndInv, Running
<1>5. MovingInv'
  BY <1>typ, <1>1, <1>2, Names DEF PlatexInv, MovingInv, Running
<1>6. DeletedInv'
  BY <1>typ, <1>1 DEF PlatexInv, DeletedInv, Running, Booted
<1>7. StoppedInv'
  <2> SUFFICES ASSUME late
               PROVE  \A d \in Actuator :
                        Past(Cleanup, clean, <<"stop", d>>) \/ dev[d] = "down"
                          => d \notin moving'
    BY <1>typ DEF StoppedInv, Running
  <2>1. ASSUME NEW d \in Actuator, Past(Cleanup, clean, <<"stop", d>>)
        PROVE  d # w
    <3>0. clean \in Nat
      BY CleanupItems DEF PlatexInv, PlatexTypeOK
    <3>1. Past(Cleanup, clean, <<"delete", d>>)
      BY <2>1, <3>0, StopsDeleted
    <3>2. work[d] = "ended"
      BY <1>typ, <3>1, Names DEF PlatexInv, DeletedInv
    <3>3. QED
      BY <1>typ, <3>2
  <2>2. QED
    BY <1>2, <1>typ, <2>1 DEF PlatexInv, StoppedInv
<1>8. QED
  BY <1>3, <1>4, <1>5, <1>6, <1>7 DEF PlatexInv

\* The cleaner.
LEMMA CleanerStep ==
  ASSUME PlatexInv, DeleteWorker \/ StopActuator \/ CleanDevice
  PROVE  PlatexInv'
<1>typ. /\ Running /\ clean \in 1..Len(Cleanup) /\ clean' = clean + 1
        /\ dev \in [Device -> DevStates] /\ work \in [Worker -> WorkStates]
        /\ moving \subseteq Actuator /\ lost \subseteq Device
        /\ end \in BOOLEAN /\ end' \in BOOLEAN
        /\ UNCHANGED <<thread, boot, signals, late, process>>
  BY DEF PlatexInv, PlatexTypeOK, DeleteWorker, StopActuator, CleanDevice, At, Idle,
     DevStates, WorkStates
<1>past. \A x : Past(Cleanup, clean', x) <=> Past(Cleanup, clean, x) \/ Cleanup[clean] = x
  BY <1>typ, PastNext
<1>sig. signals # 0
  BY <1>typ, CleanupItems DEF PlatexInv, BootInv
<1>clean. clean' \in 0..Len(Cleanup) + 1
  BY <1>typ, CleanupItems
<1>end. EndInv'
  BY <1>typ DEF EndInv, Running
<1>del. late => /\ Booted /\ \A d \in Device : dev[d] # "absent"
                /\ \A v \in Worker :
                     /\ Past(Cleanup, clean, <<"delete", v>>) => work[v] = "ended"
                     /\ (\E d \in MutexesOf(v) : dev[d] = "down") => work[v] = "ended"
  BY <1>typ DEF PlatexInv, DeletedInv
<1>1. CASE DeleteWorker
  <2>1. PICK w \in Worker :
          /\ Cleanup[clean] = <<"delete", w>>
          /\ work' = IF work[w] # "unborn" THEN [work EXCEPT ![w] = "ended"] ELSE work
          /\ lost' \in {lost, lost \cup MutexesOf(w)}
    BY <1>1, Items DEF DeleteWorker
  <2>2. UNCHANGED <<dev, moving>>
    BY <1>1 DEF DeleteWorker
  <2>3. /\ \A v \in Worker : v # w => work'[v] = work[v]
        /\ work'[w] = IF work[w] # "unborn" THEN "ended" ELSE "unborn"
        /\ work' \in [Worker -> WorkStates]
    BY <1>typ, <2>1 DEF WorkStates
  <2>4. PlatexTypeOK'
    <3>1. lost' \subseteq Device
      BY <1>typ, <2>1, Names
    <3>2. QED
      BY <1>typ, <1>clean, <2>2, <2>3, <3>1 DEF PlatexInv, PlatexTypeOK, WorkStates
  <2>5. BootInv'
    BY <1>typ, <1>sig, <2>2, <2>3 DEF PlatexInv, BootInv, Running
  <2>6. MovingInv'
    BY <1>typ, <2>2, <2>3, Names DEF PlatexInv, MovingInv, Running
  <2>7. DeletedInv'
    <3> SUFFICES ASSUME late
                 PROVE  /\ Booted /\ \A d \in Device : dev[d] # "absent"
                        /\ \A v \in Worker :
                             /\ Past(Cleanup, clean', <<"delete", v>>) => work'[v] = "ended"
                             /\ (\E d \in MutexesOf(v) : dev[d] = "down") => work'[v] = "ended"
      BY <1>typ, <2>2 DEF DeletedInv, Running, Booted
    <3>1. \A v \in Worker : Cleanup[clean] = <<"delete", v>> => v = w
      BY <2>1
    <3>2. work[w] # "unborn"
      <4>1. Past(Boot, boot, <<"spawn", w>>)
        BY <1>del, PastNext DEF Booted
      <4>2. QED
        BY <1>typ, <4>1 DEF PlatexInv, BootInv
    <3>3. QED
      BY <1>past, <1>del, <2>3, <3>1, <3>2
  <2>8. StoppedInv'
    <3>1. \A d \in Actuator : Cleanup[clean] # <<"stop", d>>
      BY <2>1
    <3>2. QED
      BY <1>typ, <1>past, <2>2, <3>1 DEF PlatexInv, StoppedInv, Running
  <2>9. QED
    BY <1>end, <2>4, <2>5, <2>6, <2>7, <2>8 DEF PlatexInv
<1>2. CASE StopActuator
  <2>1. PICK d \in Actuator :
          /\ Cleanup[clean] = <<"stop", d>>
          /\ moving' = IF dev[d] = "up" THEN moving \ {d} ELSE moving
    BY <1>2, Items DEF StopActuator
  <2>2. UNCHANGED <<dev, work, lost>>
    BY <1>2 DEF StopActuator
  <2>3. PlatexTypeOK'
    BY <1>typ, <1>clean, <2>1, <2>2 DEF PlatexInv, PlatexTypeOK
  <2>4. BootInv' /\ MovingInv'
    BY <1>typ, <1>sig, <2>1, <2>2 DEF PlatexInv, BootInv, MovingInv, Running
  <2>5. DeletedInv'
    <3>1. \A w \in Worker : Cleanup[clean] # <<"delete", w>>
      BY <2>1
    <3>2. QED
      BY <1>typ, <1>past, <2>2, <3>1 DEF PlatexInv, DeletedInv, Running, Booted
  <2>6. StoppedInv'
    <3> SUFFICES ASSUME late, NEW e \in Actuator,
                        Past(Cleanup, clean', <<"stop", e>>) \/ dev[e] = "down"
                 PROVE  e \notin moving'
      BY <1>typ, <2>2 DEF StoppedInv, Running
    <3>1. CASE Past(Cleanup, clean, <<"stop", e>>) \/ dev[e] = "down"
      BY <1>typ, <2>1, <3>1 DEF PlatexInv, StoppedInv
    <3>2. CASE Cleanup[clean] = <<"stop", e>> /\ dev[e] # "down"
      <4>1. e = d /\ dev[d] \in {"up", "broken"}
        BY <1>typ, <1>del, <2>1, <3>2, Names DEF DevStates
      <4>2. dev[d] = "broken" => d \notin moving
        BY <1>typ DEF PlatexInv, MovingInv
      <4>3. QED
        BY <2>1, <4>1, <4>2
    <3>3. QED
      BY <1>past, <3>1, <3>2
  <2>7. QED
    BY <1>end, <2>3, <2>4, <2>5, <2>6 DEF PlatexInv
<1>3. CASE CleanDevice
  <2>1. PICK d \in Device :
          /\ Cleanup[clean] = <<"clean", d>>
          /\ dev' = IF dev[d] = "absent" THEN dev ELSE [dev EXCEPT ![d] = "down"]
    BY <1>3, Items DEF CleanDevice
  <2>2. UNCHANGED <<work, moving, lost>>
    BY <1>3 DEF CleanDevice
  <2>3. /\ \A e \in Device : e # d => dev'[e] = dev[e]
        /\ dev'[d] \in {dev[d], "down"} /\ (dev[d] # "absent" => dev'[d] = "down")
        /\ dev' \in [Device -> DevStates]
    BY <1>typ, <2>1 DEF DevStates
  <2>4. PlatexTypeOK'
    BY <1>typ, <1>clean, <2>2, <2>3 DEF PlatexInv, PlatexTypeOK, DevStates
  <2>5. BootInv'
    BY <1>typ, <1>sig, <2>2, <2>3 DEF PlatexInv, BootInv, Running
  <2>6. MovingInv'
    <3>1. \A e \in Device : dev'[e] = "broken" => dev[e] = "broken"
      BY <2>3
    <3>2. QED
      BY <1>typ, <2>2, <3>1, Names DEF PlatexInv, MovingInv, Running
  <2>7. ASSUME late
        PROVE  /\ \A w \in Worker : d \in MutexesOf(w) => work[w] = "ended"
               /\ d \in Actuator => d \notin moving
    <3>1. \A w \in Worker : d \in MutexesOf(w) => Past(Cleanup, clean, <<"delete", w>>)
      BY <1>typ, <2>1, CleanupOrder
    <3>2. d \in Actuator => Past(Cleanup, clean, <<"stop", d>>)
      BY <1>typ, <2>1, CleanupOrder
    <3>3. d \in Actuator => d \notin moving
      BY <1>typ, <2>7, <3>2 DEF PlatexInv, StoppedInv
    <3>4. QED
      BY <1>del, <2>7, <3>1, <3>3
  <2>8. DeletedInv'
    <3> SUFFICES ASSUME late
                 PROVE  /\ Booted /\ \A e \in Device : dev'[e] # "absent"
                        /\ \A v \in Worker :
                             /\ Past(Cleanup, clean', <<"delete", v>>) => work[v] = "ended"
                             /\ (\E e \in MutexesOf(v) : dev'[e] = "down") => work[v] = "ended"
      BY <1>typ, <2>2 DEF DeletedInv, Running, Booted
    <3>1. \A v \in Worker : Cleanup[clean] # <<"delete", v>>
      BY <2>1
    <3>2. \A v \in Worker : \A e \in MutexesOf(v) : dev'[e] = "down" => dev[e] = "down" \/ e = d
      BY <2>3, Names
    <3>3. \A e \in Device : dev'[e] # "absent"
      BY <1>del, <2>3
    <3>4. QED
      BY <1>past, <1>del, <2>7, <3>1, <3>2, <3>3
  <2>9. StoppedInv'
    <3>1. \A e \in Actuator : Cleanup[clean] # <<"stop", e>>
      BY <2>1
    <3>2. ASSUME late, NEW e \in Actuator,
                 Past(Cleanup, clean, <<"stop", e>>) \/ dev'[e] = "down"
          PROVE  e \notin moving
      BY <1>typ, <2>3, <2>7, <3>2, Names DEF PlatexInv, StoppedInv
    <3>3. QED
      BY <1>typ, <1>past, <2>2, <3>1, <3>2 DEF StoppedInv, Running
  <2>10. QED
    BY <1>end, <2>4, <2>5, <2>6, <2>8, <2>9 DEF PlatexInv
<1>4. QED
  BY <1>1, <1>2, <1>3

-----------------------------------------------------------------------------
\* Nothing is started at first.
LEMMA PlatexInitially == PlatexInit => PlatexInv
<1> SUFFICES ASSUME PlatexInit PROVE PlatexInv
  OBVIOUS
<1>1. PlatexTypeOK
  <2>1. dev \in [Device -> DevStates] /\ work \in [Worker -> WorkStates]
    BY DEF PlatexInit, DevStates, WorkStates
  <2>2. boot \in 0..Len(Boot) + 1 /\ clean \in 0..Len(Cleanup) + 1 /\ signals \in 0..MaxSignals
    BY BootItems, CleanupItems DEF PlatexInit
  <2>3. late \in BOOLEAN /\ end \in BOOLEAN
    BY DEF PlatexInit
  <2>4. QED
    BY <2>1, <2>2, <2>3 DEF PlatexInit, PlatexTypeOK, DevStates, WorkStates
<1>2. BootInv
  BY PastNext DEF PlatexInit, BootInv
<1>3. EndInv /\ MovingInv /\ DeletedInv /\ StoppedInv
  BY DEF PlatexInit, EndInv, MovingInv, DeletedInv, StoppedInv, Running
<1>4. QED
  BY <1>1, <1>2, <1>3 DEF PlatexInv

\* The invariant holds at all times.
LEMMA PlatexInvariance == PlatexSpec => []PlatexInv
<1>1. PlatexInv /\ UNCHANGED platexVars => PlatexInv'
  BY DEF PlatexInv, platexVars, PlatexTypeOK, BootInv, EndInv, MovingInv, DeletedInv,
     StoppedInv, Running, Booted
<1>2. PlatexInv /\ [PlatexNext]_platexVars => PlatexInv'
  BY <1>1, MainStep, BootStep, WorkStep, CleanerStep DEF PlatexNext
<1>3. QED
  BY <1>2, PlatexInitially, PTL DEF PlatexSpec

\* The variables have their types, the steps of the two scripts included.
THEOREM PlatexTyping == PlatexSpec => []PlatexTypeOK
<1>1. PlatexInv => PlatexTypeOK
  BY DEF PlatexInv
<1>2. QED
  BY <1>1, PlatexInvariance, PTL

\* In main_task and clean_rt_task the order is right: whenever a worker calls its driver,
\* all the call uses has been started and has not been cleaned, until a signal comes and
\* ever after if it came after the start.
THEOREM DevicesForUsers == PlatexSpec => []UsersHaveDevices
<1>1. QED
  BY UsersFind, PlatexInvariance, PTL

\* After such a signal an actuator that has been cleaned is never driven again, and none
\* is driven when clean_rt_task is through, or after an exit that waited for it; whether
\* the join waits does not matter for the first two.
THEOREM StopsSafely == PlatexSpec => []SafeStop
<1>1. PlatexInv => SafeStop
  <2> SUFFICES ASSUME PlatexInv, late
               PROVE  /\ \A d \in Actuator : dev[d] = "down" => d \notin moving
                      /\ Cleaned \/ process = "cleaned" => moving = {}
    BY DEF SafeStop
  <2>1. moving \subseteq Actuator
    BY DEF PlatexInv, PlatexTypeOK
  <2>2. ASSUME Cleaned PROVE moving = {}
    <3>1. Running
      BY <2>2, CleanupItems DEF PlatexInv, EndInv, Cleaned
    <3>2. \A d \in Actuator : Past(Cleanup, clean, <<"stop", d>>)
      BY <2>2, CleanupOrder DEF Cleaned
    <3>3. QED
      BY <2>1, <3>1, <3>2 DEF PlatexInv, StoppedInv
  <2>3. QED
    BY <2>2 DEF PlatexInv, StoppedInv
<1>2. QED
  BY <1>1, PlatexInvariance, PTL
===============================================================================
