---------------------------- MODULE I2CBusProofs -----------------------------
(***************************************************************************)
(* Proofs about I2CBus, for any tasks, addresses, sizes and file bound.    *)
(***************************************************************************)
EXTENDS I2CBus, TLAPS

USE TaskAssumption, AddressAssumption, MaxFilesAssumption

\* Tasks never write anything else than replies of the right type.
LEMMA ReplyType ==
  ASSUME NEW ok \in BOOLEAN, NEW by \in Tag, NEW at \in Address
  PROVE  Reply(ok, by, at) \in Replies
BY DEF Reply, Replies

\* A task that has made no transfer holds a reply of the right type.
LEMMA NoReplyType == NoReply \in Replies
BY DEF NoReply, Replies, Tag

\* A write leaves a tag in every register.
LEMMA WrittenType ==
  ASSUME NEW c \in [Address -> Tag], NEW s \in Address, NEW t \in Task,
         NEW landed \in BOOLEAN
  PROVE  Written(c, s, t, landed) \in [Address -> Tag]
BY DEF Written, Tag

\* Acquiring and releasing give mutexes.
LEMMA MutexType ==
  ASSUME NEW m \in Mutexes, NEW t \in Task
  PROVE  /\ Acquired(m, t) \in Mutexes
         /\ Released(m, t) \in Mutexes
BY DEF Mutexes, Acquired, Released, Free

\* So does rt_mutex_create.
LEMMA FreeType == Free \in Mutexes
BY DEF Mutexes, Free

\* A call names an address of the bus.
LEMMA CallType ==
  ASSUME NEW c \in Calls \cup {NoCall}
  PROVE  c.addr \in Address
BY DEF Calls, NoCall

\* set_slave_addr selects an address of the bus.
LEMMA SelectableType ==
  ASSUME NEW s \in Address, NEW a \in Address
  PROVE  Selectable(s, a) \subseteq Address
BY DEF Selectable
\* The file is open from the open in i2c_init to the close in i2c_clean: close
\* never takes the count of open files below zero.
FileCounted == stage # "absent" => files > 0

\* i2c_init keeps a device only with a file it has opened.
LEMMA FilesStep == TypeOK /\ FileCounted /\ [Next]_vars => FileCounted'
<1> SUFFICES ASSUME TypeOK, FileCounted, [Next]_vars PROVE FileCounted'
  OBVIOUS
<1>1. CASE UNCHANGED device
  BY <1>1 DEF FileCounted, device
<1>2. CASE Lifecycle
  BY <1>2 DEF FileCounted, TypeOK, Lifecycle, OpenDevice, CreateMutex,
              DeleteMutex, CloseDevice
<1>3. ASSUME NEW t \in Task, Step(t) PROVE UNCHANGED device
  BY <1>3 DEF Step, Inner, Call, Enter, EnterInvalid, EnterInterrupted,
     NestedEnter, NestedSelect, NestedTransfer, NestedLeave, Select, SelectSlave,
     ReadTransfer, WriteTransfer, Leave, Release, ReleaseAgain, Return
<1>4. QED
  BY <1>1, <1>2, <1>3 DEF Next, vars

\* At all times the variables have their types, and a device i2c_init has returned
\* has a file that was opened for it.
THEOREM Typing == Spec => [](TypeOK /\ FileCounted)
<1>1. Init => TypeOK /\ FileCounted
  <2> SUFFICES ASSUME Init PROVE TypeOK /\ FileCounted
    OBVIOUS
  <2>1. cell \in [Address -> Tag] /\ slave \in Address
    BY DEF Init, Tag
  <2>2. QED
    BY <2>1, NoReplyType, FreeType DEF Init, TypeOK, Labels, Codes, FileCounted
<1>2. TypeOK /\ FileCounted /\ [Next]_vars => TypeOK'
  <2> SUFFICES ASSUME TypeOK, FileCounted, [Next]_vars PROVE TypeOK'
    OBVIOUS
  <2> USE DEF TypeOK
  <2>1. CASE UNCHANGED vars
    BY <2>1 DEF vars, device, wire, locals
  <2>2. CASE OpenDevice
    BY <2>2 DEF OpenDevice, locals
  <2>3. CASE CreateMutex
    BY <2>3, FreeType DEF CreateMutex, wire, locals
  <2>4. CASE DeleteMutex
    BY <2>4 DEF DeleteMutex, wire, locals
  <2>5. CASE CloseDevice
    BY <2>5 DEF CloseDevice, FileCounted, wire, locals
  <2>6. ASSUME NEW t \in Task, NEW c \in Calls, Call(t, c) PROVE TypeOK'
    BY <2>6 DEF Call, Goto, Labels, device, wire, locals
  <2>7. ASSUME NEW t \in Task, Enter(t) PROVE TypeOK'
    BY <2>7, MutexType
       DEF Enter, Take, Goto, Labels, InsideLabels, device, wire, locals
  <2>8. ASSUME NEW t \in Task, Finish(t),
               UNCHANGED <<device, mutex, wire, settled>> PROVE TypeOK'
    BY <2>8, NoReplyType DEF Finish, Goto, Clear, Labels, Codes, device, wire
  <2>9. ASSUME NEW t \in Task, NestedEnter(t) PROVE TypeOK'
    <3>1. mutex' \in Mutexes
      BY <2>9, MutexType DEF NestedEnter, Take
    <3>2. pc' \in [Task -> Labels]
      BY <2>9 DEF NestedEnter, Goto, Labels, InsideLabels, NestedLabels
    <3>3. QED
      BY <2>9, <3>1, <3>2 DEF NestedEnter, device, wire, locals
  <2>10. ASSUME NEW t \in Task, NEW l \in Labels, SelectSlave(t), Goto(t, l)
         PROVE  TypeOK'
    <3>1. slave' \in Address
      BY <2>10, SelectableType, CallType DEF SelectSlave
    <3>2. picked' \in [Task -> BOOLEAN]
      BY <2>10 DEF SelectSlave
    <3>3. QED
      BY <2>10, <3>1, <3>2 DEF SelectSlave, Goto, device
  <2>11. ASSUME NEW t \in Task, ReadTransfer(t) PROVE TypeOK'
    BY <2>11, ReplyType DEF ReadTransfer, Goto, Labels, InsideLabels, device, wire
  <2>12. ASSUME NEW t \in Task, WriteTransfer(t) PROVE TypeOK'
    BY <2>12, ReplyType, WrittenType
       DEF WriteTransfer, Goto, Labels, InsideLabels, device, Tag
  <2>13. ASSUME NEW t \in Task, NestedTransfer(t) PROVE TypeOK'
    BY <2>13, ReplyType, WrittenType
       DEF NestedTransfer, Goto, Labels, InsideLabels, NestedLabels, device, Tag
  <2>14. ASSUME NEW t \in Task, NEW l \in Labels, Release(t), Goto(t, l)
         PROVE  TypeOK'
    BY <2>14, MutexType
       DEF Release, ReleaseCode, Goto, Codes, device, wire, locals
  <2>15. ASSUME NEW t \in Task, Step(t) PROVE TypeOK'
    <3>1. {"select", "transfer", "nested_transfer", "again", "return"} \subseteq Labels
      BY DEF Labels, InsideLabels, NestedLabels
    <3>2. CASE Select(t) \/ NestedSelect(t)
      BY <2>10, <3>1, <3>2 DEF Select, NestedSelect
    <3>3. CASE Leave(t) \/ NestedLeave(t) \/ ReleaseAgain(t)
      BY <2>14, <3>1, <3>3 DEF Leave, NestedLeave, ReleaseAgain
    <3>4. CASE EnterInvalid(t) \/ EnterInterrupted(t) \/ Return(t)
      BY <2>8, <3>4 DEF EnterInvalid, EnterInterrupted, Return
    <3>5. QED
      BY <2>6, <2>7, <2>9, <2>11, <2>12, <2>13, <2>15, <3>2, <3>3, <3>4
         DEF Step, Inner
  <2>16. QED
    BY <2>1, <2>2, <2>3, <2>4, <2>5, <2>15 DEF Next, Lifecycle
<1>3. QED
  BY <1>1, <1>2, FilesStep, PTL DEF Spec
-----------------------------------------------------------------------------
(***************************************************************************)
(* Who owns the mutex is who is inside, at the depth its label says, and   *)
(* only while the mutex exists.                                            *)
(***************************************************************************)
Depth(label) == IF label \in NestedLabels THEN 2 ELSE 1

LockInv ==
  /\ mutex = Free \/ (mutex.owner \in Task /\ Inside(mutex.owner))
  /\ \A t \in Task :
       Inside(t) => /\ mutex = [owner |-> t, depth |-> Depth(pc[t])]
                    /\ stage = "ready"

\* A step that moves no label and leaves the mutex alone keeps LockInv, as long
\* as it does not end the stage "ready" under a task that is inside.
LEMMA LockStutter ==
  ASSUME LockInv, UNCHANGED <<mutex, pc>>,
         stage' = stage \/ \A t \in Task : ~Inside(t)
  PROVE  LockInv'
BY DEF LockInv, Inside

\* Every step of a task, of i2c_init and of i2c_clean keeps LockInv.
LEMMA LockStep == TypeOK /\ LockInv /\ [Next]_vars => LockInv'
<1> SUFFICES ASSUME TypeOK, LockInv, [Next]_vars PROVE LockInv'
  OBVIOUS
<1>lab. /\ InsideLabels = {"select", "transfer", "leave", "nested_enter",
                           "nested_select", "nested_transfer", "nested_leave"}
        /\ pc \in [Task -> Labels]
        /\ \A l \in Labels : Depth(l) \in {1, 2}
  BY DEF InsideLabels, NestedLabels, TypeOK, Depth
<1>1. CASE UNCHANGED vars
  BY <1>1, LockStutter DEF vars, device
<1>2. CASE OpenDevice
  BY <1>2, LockStutter DEF OpenDevice, LockInv
<1>3. CASE CreateMutex
  <2>1. \A t \in Task : ~Inside(t) /\ ~Inside(t)'
    BY <1>3 DEF CreateMutex, LockInv, Inside
  <2>2. mutex' = Free
    BY <1>3, <2>1 DEF CreateMutex, LockInv
  <2>3. QED
    BY <2>1, <2>2 DEF LockInv
<1>4. CASE DeleteMutex
  BY <1>4, <1>lab, LockStutter DEF DeleteMutex, Inside
<1>5. CASE CloseDevice
  BY <1>5, LockStutter DEF CloseDevice, LockInv
<1>6. ASSUME NEW t \in Task, Step(t) PROVE LockInv'
  <2>1. stage' = stage
    BY <1>6 DEF Step, Inner, Call, Enter, EnterInvalid, EnterInterrupted,
       NestedEnter, NestedSelect, NestedTransfer, NestedLeave, Select,
       SelectSlave, ReadTransfer, WriteTransfer, Leave, Release, ReleaseAgain,
       Return, device
  <2>2. ASSUME NEW l \in Labels, Goto(t, l), UNCHANGED mutex,
               pc[t] \in InsideLabels <=> l \in InsideLabels,
               l \in InsideLabels => Depth(l) = Depth(pc[t])
        PROVE  LockInv'
    BY <1>lab, <2>1, <2>2 DEF LockInv, Inside, Goto, TypeOK
  <2>3. ASSUME NEW l \in InsideLabels, Goto(t, l), Take(t),
               IF Inside(t) THEN l \in NestedLabels /\ pc[t] \notin NestedLabels
                            ELSE l \notin NestedLabels
        PROVE  LockInv'
    BY <1>lab, <2>1, <2>3, TaskAssumption
       DEF LockInv, Inside, Goto, Take, CanAcquire, Acquired, Free, Depth, TypeOK
  <2>4. ASSUME NEW l \in Labels, Goto(t, l), Release(t),
               IF Inside(t) /\ pc[t] \notin NestedLabels
                 THEN l \notin InsideLabels
                 ELSE Inside(t) => l \in InsideLabels \ NestedLabels,
               ~Inside(t) => l \notin InsideLabels
        PROVE  LockInv'
    BY <1>lab, <2>1, <2>4, TaskAssumption
       DEF LockInv, Inside, Goto, Release, Released, Free, Depth, TypeOK
  <2>5. /\ InsideLabels \subseteq Labels
        /\ {"idle", "enter", "again", "return"} \subseteq Labels
        /\ InsideLabels \cap {"idle", "enter", "again", "return"} = {}
    BY <1>lab DEF Labels
  <2>6. CASE \/ (\E c \in Calls : Call(t, c)) \/ EnterInvalid(t)
             \/ EnterInterrupted(t) \/ Return(t)
    BY <1>lab, <2>2, <2>5, <2>6
       DEF Call, EnterInvalid, EnterInterrupted, Return, Finish, Goto
  <2>7. CASE Select(t) \/ ReadTransfer(t) \/ WriteTransfer(t)
    BY <1>lab, <2>2, <2>5, <2>7
       DEF Select, SelectSlave, ReadTransfer, WriteTransfer, Depth, NestedLabels
  <2>8. CASE NestedSelect(t) \/ NestedTransfer(t)
    BY <1>lab, <2>2, <2>5, <2>8
       DEF NestedSelect, SelectSlave, NestedTransfer, Depth, NestedLabels
  <2>9. CASE Enter(t)
    BY <1>lab, <2>3, <2>5, <2>9 DEF Enter, Inside, NestedLabels
  <2>10. CASE NestedEnter(t)
    BY <1>lab, <2>2, <2>3, <2>5, <2>10
       DEF NestedEnter, Inside, NestedLabels, Depth
  <2>11. CASE NestedLeave(t) \/ Leave(t) \/ ReleaseAgain(t)
    BY <1>lab, <2>4, <2>5, <2>11
       DEF NestedLeave, Leave, ReleaseAgain, Inside, NestedLabels
  <2>12. QED
    BY <1>6, <2>6, <2>7, <2>8, <2>9, <2>10, <2>11 DEF Step, Inner
<1>7. QED
  BY <1>1, <1>2, <1>3, <1>4, <1>5, <1>6 DEF Next, Lifecycle

\* At all times the owner of the mutex of the bus is the one task inside a section,
\* as deep as its label says.
LEMMA Locking == Spec => [](TypeOK /\ LockInv)
<1>1. Init => LockInv
  BY DEF Init, LockInv, Inside, InsideLabels, NestedLabels
<1>2. QED
  BY <1>1, Typing, LockStep, PTL DEF Spec

\* No two tasks are inside the bus section at once (i2ctools.c: the nested
\* i2c_set and the double release included).
THEOREM Exclusion == Spec => []OneTransaction
<1>1. TypeOK /\ LockInv => OneTransaction
  BY DEF LockInv, OneTransaction, Inside
<1>2. QED
  BY <1>1, Locking, PTL

\* No path through the calls leaves the mutex held.
THEOREM Balance == Spec => []NothingHeldOutside
<1>1. TypeOK /\ LockInv => NothingHeldOutside
  BY TaskAssumption DEF LockInv, NothingHeldOutside, Inside, Free
<1>2. QED
  BY <1>1, Locking, PTL

\* The file a transfer uses is open.
THEOREM OpenFile == Spec => []FileOpen
<1>1. LockInv /\ FileCounted => FileOpen
  BY DEF LockInv, FileCounted, FileOpen
<1>2. QED
  BY <1>1, Locking, Typing, PTL

-----------------------------------------------------------------------------
(***************************************************************************)
(* Only the task inside moves the slave, the registers or its own locals.  *)
(***************************************************************************)
LEMMA OthersStep ==
  ASSUME TypeOK, NEW t \in Task, NEW u \in Task, Step(u), u # t
  PROVE  UNCHANGED <<pc[t], call[t], picked[t], sent[t], xfer[t]>>
<1>1. CASE (\E c \in Calls : Call(u, c)) \/ Enter(u) \/ NestedEnter(u)
  BY <1>1 DEF Call, Enter, NestedEnter, Goto, locals, TypeOK
<1>2. CASE EnterInvalid(u) \/ EnterInterrupted(u) \/ Return(u)
  BY <1>2 DEF EnterInvalid, EnterInterrupted, Return, Finish, Goto, Clear, TypeOK
<1>3. CASE Select(u) \/ NestedSelect(u)
  BY <1>3 DEF Select, NestedSelect, SelectSlave, Goto, TypeOK
<1>4. CASE ReadTransfer(u) \/ WriteTransfer(u) \/ NestedTransfer(u)
  BY <1>4 DEF ReadTransfer, WriteTransfer, NestedTransfer, Goto, TypeOK
<1>5. CASE NestedLeave(u) \/ Leave(u) \/ ReleaseAgain(u)
  BY <1>5 DEF NestedLeave, Leave, ReleaseAgain, Release, Goto, locals, TypeOK
<1>6. QED
  BY <1>1, <1>2, <1>3, <1>4, <1>5 DEF Step, Inner

\* While a task is inside, no step of another moves the slave or a register.
LEMMA WireStep ==
  ASSUME TypeOK, LockInv, NEW t \in Task, Inside(t),
         NEW u \in Task, Step(u), u # t
  PROVE  UNCHANGED wire
<1>1. ~Inside(u) /\ pc[u] # "nested_enter"
  BY DEF LockInv, Inside, InsideLabels
<1>2. pc[u] \notin InsideLabels
  BY <1>1 DEF Inside
<1>3. CASE (\E c \in Calls : Call(u, c)) \/ Enter(u)
  BY <1>3 DEF Call, Enter, wire
<1>4. CASE EnterInvalid(u) \/ EnterInterrupted(u) \/ Return(u)
  BY <1>4 DEF EnterInvalid, EnterInterrupted, Return, wire
<1>5. CASE ReleaseAgain(u)
  BY <1>5 DEF ReleaseAgain, Release, wire
<1>6. ~(\/ Select(u) \/ NestedSelect(u) \/ ReadTransfer(u) \/ WriteTransfer(u)
        \/ NestedTransfer(u) \/ NestedLeave(u) \/ Leave(u) \/ NestedEnter(u))
  BY <1>2 DEF InsideLabels, NestedLabels, Select, NestedSelect, ReadTransfer,
     WriteTransfer, NestedTransfer, NestedLeave, Leave, NestedEnter
<1>7. QED
  BY <1>3, <1>4, <1>5, <1>6 DEF Step, Inner

\* i2c_init and i2c_clean leave the tasks and the registers alone, and the slave
\* while a task is inside.
LEMMA LifecycleStep ==
  ASSUME LockInv, Lifecycle
  PROVE  /\ UNCHANGED <<pc, call, locals, cell>>
         /\ (\E t \in Task : Inside(t)) => UNCHANGED slave
BY DEF LockInv, Lifecycle, OpenDevice, CreateMutex, DeleteMutex, CloseDevice, wire

\* The slave selected for a transfer is the one the transfer goes to.
THEOREM Selection == Spec => []SelectionHolds
<1>1. Init => SelectionHolds
  BY DEF Init, SelectionHolds
<1>2. TypeOK /\ LockInv /\ SelectionHolds /\ [Next]_vars => SelectionHolds'
  <2> SUFFICES ASSUME TypeOK, LockInv, SelectionHolds, [Next]_vars, NEW t \in Task,
                      (pc[t] \in {"transfer", "nested_transfer"} /\ picked[t])'
               PROVE  slave' = call'[t].addr
    BY DEF SelectionHolds
  <2>1. CASE UNCHANGED vars
    BY <2>1 DEF vars, wire, locals, SelectionHolds
  <2>2. CASE Lifecycle
    BY <2>2, LifecycleStep DEF SelectionHolds, locals, Inside, InsideLabels,
                               NestedLabels
  <2>3. ASSUME NEW u \in Task, Step(u), u # t PROVE slave' = call'[t].addr
    <3>1. CASE Inside(t)
      BY <2>3, <3>1, WireStep, OthersStep DEF SelectionHolds, wire
    <3>2. CASE ~Inside(t)
      BY <2>3, <3>2, OthersStep DEF Inside, InsideLabels, NestedLabels
    <3>3. QED
      BY <3>1, <3>2
  <2>4. CASE Step(t)
    <3>1. pc'[t] \in {"transfer", "nested_transfer"}
      OBVIOUS
    <3>2. Select(t) \/ NestedSelect(t)
      BY <2>4, <3>1 DEF Step, Inner, Call, Enter, EnterInvalid, EnterInterrupted,
         NestedEnter, NestedTransfer, NestedLeave, ReadTransfer, WriteTransfer,
         Leave, ReleaseAgain, Return, Finish, Goto, TypeOK
    <3>3. QED
      BY <3>2 DEF Select, NestedSelect, SelectSlave, TypeOK
  <2>5. QED
    BY <2>1, <2>2, <2>3, <2>4 DEF Next
<1>3. QED
  BY <1>1, <1>2, Locking, PTL DEF Spec

(***************************************************************************)
(* From the moment its command has been written until its answer is read,  *)
(* the slave's register is the task's own.                                 *)
(***************************************************************************)
Unsent == {"idle", "enter", "nested_enter", "nested_select", "nested_transfer"}
Awaiting == {"nested_leave", "select", "transfer"}

AnswerInv(t) ==
  /\ pc[t] \in Unsent => ~sent[t].ok
  /\ pc[t] \in Unsent \cup Awaiting => ~xfer[t].ok
  /\ pc[t] \in Awaiting /\ sent[t].ok => cell[sent[t].at] = t
  /\ /\ call[t].op = "get_3com" /\ sent[t].ok
     /\ xfer[t].ok /\ xfer[t].at = sent[t].at
     => xfer[t].by = t

\* Every step keeps AnswerInv.
LEMMA AnswerStep ==
  ASSUME TypeOK, LockInv, [Next]_vars, NEW t \in Task, AnswerInv(t)
  PROVE  AnswerInv(t)'
<1> USE DEF AnswerInv, Unsent, Awaiting
<1>1. CASE UNCHANGED vars
  BY <1>1 DEF vars, wire, locals
<1>2. CASE Lifecycle
  BY <1>2, LifecycleStep DEF locals
<1>3. ASSUME NEW u \in Task, Step(u), u # t PROVE AnswerInv(t)'
  <2>1. CASE Inside(t)
    BY <1>3, <2>1, WireStep, OthersStep DEF wire
  <2>2. CASE ~Inside(t)
    BY <1>3, <2>2, OthersStep DEF Inside, InsideLabels, NestedLabels
  <2>3. QED
    BY <2>1, <2>2
<1>4. CASE Step(t)
  <2>1. CASE (\E c \in Calls : Call(t, c)) \/ Enter(t) \/ NestedEnter(t)
    BY <2>1 DEF Call, Enter, NestedEnter, Goto, locals, wire, TypeOK
  <2>2. CASE EnterInvalid(t) \/ EnterInterrupted(t) \/ Return(t)
    BY <2>2 DEF EnterInvalid, EnterInterrupted, Return, Finish, Goto, Clear,
                NoReply, TypeOK
  <2>3. CASE Select(t) \/ NestedSelect(t)
    BY <2>3 DEF Select, NestedSelect, SelectSlave, Goto, TypeOK
  <2>4. CASE ReadTransfer(t)
    BY <2>4 DEF ReadTransfer, Goto, Reply, TypeOK, wire
  <2>5. CASE WriteTransfer(t)
    BY <2>5 DEF WriteTransfer, Goto, Reply, TypeOK
  <2>6. CASE NestedTransfer(t)
    BY <2>6 DEF NestedTransfer, Goto, Reply, Written, TypeOK
  <2>7. CASE NestedLeave(t) \/ Leave(t) \/ ReleaseAgain(t)
    BY <2>7 DEF NestedLeave, Leave, ReleaseAgain, Release, Goto, locals, wire,
                TypeOK
  <2>8. QED
    BY <1>4, <2>1, <2>2, <2>3, <2>4, <2>5, <2>6, <2>7 DEF Step, Inner
<1>5. QED
  BY <1>1, <1>2, <1>3, <1>4 DEF Next

\* What i2c_get_3com reads is the answer to the command it has sent.
THEOREM Answers == Spec => []OwnAnswer
<1>1. Init => \A t \in Task : AnswerInv(t)
  <2> SUFFICES ASSUME Init, NEW t \in Task PROVE AnswerInv(t)
    OBVIOUS
  <2>1. ~sent[t].ok /\ ~xfer[t].ok
    BY DEF Init, NoReply
  <2>2. pc[t] = "idle"
    BY DEF Init
  <2>3. QED
    BY <2>1, <2>2 DEF AnswerInv, Awaiting
<1>2. /\ TypeOK /\ LockInv /\ (\A t \in Task : AnswerInv(t)) /\ [Next]_vars
      => (\A t \in Task : AnswerInv(t))'
  BY AnswerStep
<1>3. (\A t \in Task : AnswerInv(t)) => OwnAnswer
  BY DEF AnswerInv, OwnAnswer
<1>4. QED
  BY <1>1, <1>2, <1>3, Locking, PTL DEF Spec

-----------------------------------------------------------------------------
(***************************************************************************)
(* I2CBus implements AtomicBus.  What the task inside has done since it    *)
(* took the mutex is a prefix of its transaction, run from the slave and   *)
(* the registers as they were settled; the release that frees the mutex is *)
(* the transaction, and every other step of the calls a call, a return or  *)
(* nothing.                                                                *)
(***************************************************************************)
Untouched == slave = settled.slave /\ cell = settled.cell

Selected(t) ==
  slave \in Selectable(settled.slave, call[t].addr) /\ cell = settled.cell

Commanded(t) ==
  /\ slave \in Selectable(settled.slave, call[t].addr)
  /\ \E landed \in BOOLEAN :
       /\ landed => call[t].addr <= 127
       /\ cell = Written(settled.cell, slave, t, landed)

Reselected(t) ==
  \E s \in Selectable(settled.slave, call[t].addr), landed \in BOOLEAN :
    /\ landed => call[t].addr <= 127
    /\ cell = Written(settled.cell, s, t, landed)
    /\ slave \in Selectable(s, call[t].addr)

HasRead(t) ==
  \E ok \in BOOLEAN :
    (ok => Transfers(call[t])) /\ xfer[t] = Reply(ok, cell[slave], slave)

HasWritten(t) ==
  /\ slave \in Selectable(settled.slave, call[t].addr)
  /\ \E ok, landed \in BOOLEAN :
       /\ ok => landed
       /\ cell = Written(settled.cell, slave, t, landed)
       /\ xfer[t] = Reply(ok, t, slave)

Outcome(t) ==
  \/ call[t].op = "get" /\ Selected(t) /\ HasRead(t)
  \/ call[t].op \in {"set", "set_1com"} /\ HasWritten(t)
  \/ call[t].op = "get_3com" /\ Reselected(t) /\ HasRead(t)

Prefix(t) ==
  LET composite == call[t].op = "get_3com" IN
  /\ pc[t] \in {"nested_enter"} \cup NestedLabels => composite
  /\ pc[t] \in NestedLabels => call[t].addr <= 127
  /\ pc[t] \in {"nested_enter", "nested_select"} => Untouched
  /\ pc[t] = "nested_transfer" => Selected(t)
  /\ pc[t] = "nested_leave" => Commanded(t)
  /\ pc[t] = "select" => IF composite THEN Commanded(t) ELSE Untouched
  /\ pc[t] = "transfer" => IF composite THEN Reselected(t) ELSE Selected(t)
  /\ pc[t] = "leave" => Outcome(t)

\* Nobody inside: the bus is settled.  A task between calls has no reply.
SettledInv ==
  /\ mutex = Free => Untouched
  /\ \A t \in Task : pc[t] = "idle" => xfer[t] = NoReply

TransactionInv == SettledInv /\ \A t \in Task : Prefix(t)

\* While a task is inside, no other step moves what was settled.
LEMMA SettledStep ==
  ASSUME TypeOK, LockInv, NEW t \in Task, Inside(t),
         NEW u \in Task, Step(u), u # t
  PROVE  UNCHANGED settled
<1>1. pc[u] \notin InsideLabels /\ mutex.owner = t
  BY DEF LockInv, Inside
<1>2. CASE (\E c \in Calls : Call(u, c)) \/ Enter(u)
  BY <1>2 DEF Call, Enter
<1>3. CASE EnterInvalid(u) \/ EnterInterrupted(u) \/ Return(u)
  BY <1>3 DEF EnterInvalid, EnterInterrupted, Return
<1>4. CASE ReleaseAgain(u)
  BY <1>1, <1>4, TaskAssumption DEF ReleaseAgain, Release, Released
<1>5. ~(\/ Select(u) \/ NestedSelect(u) \/ ReadTransfer(u) \/ WriteTransfer(u)
        \/ NestedTransfer(u) \/ NestedLeave(u) \/ Leave(u) \/ NestedEnter(u))
  BY <1>1 DEF InsideLabels, NestedLabels, Select, NestedSelect, ReadTransfer,
     WriteTransfer, NestedTransfer, NestedLeave, Leave, NestedEnter
<1>6. QED
  BY <1>2, <1>3, <1>4, <1>5 DEF Step, Inner

\* A task inside the section makes a call of the interface.
LEMMA InsideCalls ==
  ASSUME TypeOK, LockInv, NEW t \in Task
  PROVE  /\ pc[t] \notin InsideLabels /\ mutex # Free =>
               mutex.owner \in Task \ {t}
         /\ Inside(t) => /\ mutex = [owner |-> t, depth |-> Depth(pc[t])]
                         /\ mutex # Free
BY TaskAssumption DEF LockInv, Inside, Free

\* Registers nobody has written to are as they were.
LEMMA NotWritten ==
  ASSUME NEW c, NEW s, NEW t
  PROVE  Written(c, s, t, FALSE) = c
BY DEF Written

\* The slave that is selected may stay selected; a refused address keeps it.
LEMMA SelectableFacts ==
  ASSUME NEW s, NEW a
  PROVE  /\ s \in Selectable(s, a)
         /\ \A u \in Selectable(s, a) : Selectable(u, a) \subseteq Selectable(s, a)
BY DEF Selectable

\* A step of a task takes its transaction further along.
LEMMA OwnPrefix ==
  ASSUME TypeOK, LockInv, SettledInv, NEW t \in Task, Prefix(t), Step(t)
  PROVE  Prefix(t)'
<1>lab. /\ InsideLabels = {"select", "transfer", "leave", "nested_enter",
                           "nested_select", "nested_transfer", "nested_leave"}
        /\ NestedLabels = {"nested_select", "nested_transfer", "nested_leave"}
  BY DEF InsideLabels, NestedLabels
<1> USE <1>lab DEF Prefix
<1>1. CASE \E c \in Calls : Call(t, c)
  BY <1>1 DEF Call, Goto, TypeOK
<1>2. CASE Enter(t)
  <2>1. mutex = Free
    BY <1>2, InsideCalls DEF Enter, Take, CanAcquire
  <2>2. Untouched /\ UNCHANGED <<settled, slave, cell>>
    BY <1>2, <2>1 DEF SettledInv, Enter, wire
  <2>3. Untouched'
    BY <2>2 DEF Untouched
  <2>4. pc'[t] = IF call[t].op = "get_3com" THEN "nested_enter" ELSE "select"
    BY <1>2 DEF Enter, Goto, TypeOK
  <2>5. call' = call
    BY <1>2 DEF Enter
  <2>6. QED
    BY <2>3, <2>4, <2>5
<1>3. CASE EnterInvalid(t) \/ EnterInterrupted(t) \/ Return(t)
  BY <1>3 DEF EnterInvalid, EnterInterrupted, Return, Finish, Goto, TypeOK
<1>4. CASE NestedEnter(t)
  <2>1. Untouched' /\ Untouched /\ UNCHANGED <<call, slave, cell, settled>>
    BY <1>4 DEF NestedEnter, Untouched, wire
  <2>2. CASE call[t].addr > 127
    <3>1. pc'[t] = "select"
      BY <1>4, <2>2 DEF NestedEnter, Goto, TypeOK
    <3>2. Commanded(t)'
      BY <2>1, NotWritten, SelectableFacts DEF Commanded, Untouched
    <3>3. call[t].op = "get_3com"
      BY <1>4 DEF NestedEnter
    <3>4. QED
      BY <2>1, <3>1, <3>2, <3>3
  <2>3. CASE ~(call[t].addr > 127)
    <3>1. pc'[t] = "nested_select"
      BY <1>4, <2>3 DEF NestedEnter, Goto, TypeOK
    <3>2. call[t].op = "get_3com"
      BY <1>4 DEF NestedEnter
    <3>3. call[t].addr \in 0..255
      BY CallType DEF TypeOK
    <3>4. call[t].addr <= 127
      BY <2>3, <3>3
    <3>5. QED
      BY <2>1, <3>1, <3>2, <3>4
  <2>4. QED
    BY <2>2, <2>3
<1>5. CASE NestedSelect(t)
  BY <1>5 DEF NestedSelect, SelectSlave, Goto, TypeOK, Untouched, Selected
<1>6. CASE NestedTransfer(t)
  <2>1. Commanded(t)'
    BY <1>6 DEF NestedTransfer, Selected, Commanded
  <2>2. QED
    BY <1>6, <2>1 DEF NestedTransfer, Goto, TypeOK
<1>7. CASE NestedLeave(t)
  <2>1. settled' = settled
    BY <1>7, InsideCalls, TaskAssumption
       DEF NestedLeave, Inside, Release, Released, Depth
  <2>2. Commanded(t)'
    BY <1>7, <2>1 DEF NestedLeave, Release, Commanded, wire
  <2>3. QED
    BY <1>7, <2>2 DEF NestedLeave, Release, Goto, TypeOK
<1>8. CASE Select(t)
  <2>1. /\ slave' \in Selectable(slave, call[t].addr)
        /\ UNCHANGED <<cell, call, settled>>
    BY <1>8 DEF Select, SelectSlave
  <2>2. CASE call[t].op = "get_3com"
    <3>1. Reselected(t)'
      BY <1>8, <2>1, <2>2 DEF Select, Commanded, Reselected
    <3>2. QED
      BY <1>8, <2>1, <2>2, <3>1 DEF Select, Goto, TypeOK
  <2>3. CASE call[t].op # "get_3com"
    BY <1>8, <2>1, <2>3 DEF Select, Goto, TypeOK, Untouched, Selected
  <2>4. QED
    BY <2>2, <2>3
<1>9. CASE ReadTransfer(t)
  <2>1. UNCHANGED <<slave, cell, call, settled>>
    BY <1>9 DEF ReadTransfer, wire
  <2>2. HasRead(t)'
    BY <1>9, <2>1 DEF ReadTransfer, HasRead, TypeOK
  <2>3. Outcome(t)'
    BY <1>9, <2>1, <2>2 DEF ReadTransfer, Outcome, Selected, Reselected
  <2>4. QED
    BY <1>9, <2>3 DEF ReadTransfer, Goto, TypeOK
<1>10. CASE WriteTransfer(t)
  <2>1. UNCHANGED <<slave, call, settled>>
    BY <1>10 DEF WriteTransfer
  <2>2. HasWritten(t)'
    BY <1>10, <2>1 DEF WriteTransfer, HasWritten, Selected, TypeOK
  <2>3. Outcome(t)'
    BY <1>10, <2>1, <2>2 DEF WriteTransfer, Outcome
  <2>4. QED
    BY <1>10, <2>3 DEF WriteTransfer, Goto, TypeOK
<1>11. CASE Leave(t) \/ ReleaseAgain(t)
  BY <1>11 DEF Leave, ReleaseAgain, Goto, TypeOK
<1>12. QED
  BY <1>1, <1>2, <1>3, <1>4, <1>5, <1>6, <1>7, <1>8, <1>9, <1>10, <1>11
     DEF Step, Inner

\* A release settles the bus, or leaves it to the task inside.
LEMMA ReleaseSettles ==
  ASSUME TypeOK, LockInv, SettledInv, NEW t \in Task, Release(t)
  PROVE  mutex' = Free => Untouched'
BY DEF Release, Untouched, wire, Free

\* Every step keeps the bus settled while the mutex is free.
LEMMA SettledKept ==
  ASSUME TypeOK, LockInv, SettledInv, [Next]_vars
  PROVE  SettledInv'
<1>lab. InsideLabels = {"select", "transfer", "leave", "nested_enter",
                        "nested_select", "nested_transfer", "nested_leave"}
  BY DEF InsideLabels, NestedLabels
<1>1. CASE UNCHANGED vars
  BY <1>1 DEF SettledInv, Untouched, vars, wire, locals
<1>2. CASE Lifecycle
  <2>1. xfer' = xfer /\ pc' = pc
    BY <1>2, LifecycleStep DEF locals
  <2>2. CASE OpenDevice
    BY <2>2 DEF OpenDevice, Untouched, SettledInv, locals, TypeOK
  <2>3. CASE CreateMutex
    <3>1. mutex = Free
      BY <2>3 DEF CreateMutex, LockInv, Inside
    <3>2. QED
      BY <2>1, <2>3, <3>1 DEF CreateMutex, Untouched, SettledInv, wire
  <2>4. CASE DeleteMutex \/ CloseDevice
    BY <2>1, <2>4 DEF DeleteMutex, CloseDevice, Untouched, SettledInv, wire
  <2>5. QED
    BY <1>2, <2>2, <2>3, <2>4 DEF Lifecycle
<1>3. ASSUME NEW t \in Task, Step(t) PROVE SettledInv'
  <2>1. ASSUME NEW u \in Task, u # t, pc'[u] = "idle" PROVE xfer'[u] = NoReply
    BY <1>3, <2>1, OthersStep DEF SettledInv
  <2>2. ASSUME xfer' = xfer, pc'[t] # "idle", mutex' = Free => Untouched'
        PROVE  SettledInv'
    BY <2>1, <2>2 DEF SettledInv
  <2>3. CASE \E c \in Calls : Call(t, c)
    BY <2>2, <2>3 DEF Call, Goto, locals, wire, SettledInv, Untouched, TypeOK
  <2>4. CASE Enter(t) \/ NestedEnter(t)
    <3>1. mutex' = mutex \/ mutex' # Free
      BY <2>4, TaskAssumption DEF Enter, NestedEnter, Take, Acquired, Free
    <3>2. pc'[t] # "idle" /\ UNCHANGED <<wire, xfer, settled>>
      BY <2>4 DEF Enter, NestedEnter, Goto, locals, TypeOK
    <3>3. QED
      BY <2>2, <3>1, <3>2 DEF SettledInv, Untouched, wire
  <2>5. CASE EnterInvalid(t) \/ EnterInterrupted(t) \/ Return(t)
    <3>1. UNCHANGED <<mutex, wire, settled>> /\ Finish(t)
      BY <2>5 DEF EnterInvalid, EnterInterrupted, Return
    <3>2. xfer'[t] = NoReply
      BY <3>1 DEF Finish, Clear, TypeOK
    <3>3. QED
      BY <2>1, <3>1, <3>2 DEF SettledInv, Untouched, wire
  <2>6. CASE \/ Select(t) \/ NestedSelect(t) \/ ReadTransfer(t)
             \/ WriteTransfer(t) \/ NestedTransfer(t)
    <3>1. pc[t] \in InsideLabels /\ pc'[t] # "idle" /\ mutex' = mutex
      BY <1>lab, <2>6 DEF Select, NestedSelect, SelectSlave, ReadTransfer,
         WriteTransfer, NestedTransfer, Goto, TypeOK
    <3>2. mutex' # Free
      BY <3>1, InsideCalls DEF Inside
    <3>3. QED
      BY <2>1, <3>1, <3>2 DEF SettledInv
  <2>7. CASE NestedLeave(t) \/ Leave(t) \/ ReleaseAgain(t)
    <3>1. Release(t) /\ pc'[t] # "idle"
      BY <2>7 DEF NestedLeave, Leave, ReleaseAgain, Goto, TypeOK
    <3>2. xfer' = xfer
      BY <3>1 DEF Release, locals
    <3>3. QED
      BY <2>2, <3>1, <3>2, ReleaseSettles
  <2>8. QED
    BY <1>3, <2>3, <2>4, <2>5, <2>6, <2>7 DEF Step, Inner
<1>4. QED
  BY <1>1, <1>2, <1>3 DEF Next

\* Every step keeps the prefix of every task.
LEMMA TransactionStep ==
  TypeOK /\ LockInv /\ TransactionInv /\ [Next]_vars => TransactionInv'
<1> SUFFICES ASSUME TypeOK, LockInv, TransactionInv, [Next]_vars,
                    NEW t \in Task
             PROVE  Prefix(t)'
  BY SettledKept DEF TransactionInv
<1>inv. SettledInv /\ Prefix(t)
  BY DEF TransactionInv
<1>def. ASSUME UNCHANGED <<wire, settled, pc[t], call[t], xfer[t]>>
        PROVE  Prefix(t)'
  BY <1>inv, <1>def DEF Prefix, Untouched, Selected, Commanded, Reselected,
     Outcome, HasRead, HasWritten, wire
<1>1. CASE UNCHANGED vars
  BY <1>1, <1>def DEF vars, wire, locals
<1>out. ASSUME pc'[t] \notin InsideLabels PROVE Prefix(t)'
  BY <1>out DEF Prefix, InsideLabels, NestedLabels
<1>2. CASE Lifecycle
  <2>1. CASE Inside(t)
    <3>1. UNCHANGED <<wire, pc, call, locals>>
      BY <1>2, <2>1, LifecycleStep DEF wire
    <3>2. UNCHANGED settled
      BY <1>2, <2>1 DEF Lifecycle, OpenDevice, CreateMutex, DeleteMutex,
         CloseDevice, LockInv
    <3>3. QED
      BY <1>def, <3>1, <3>2 DEF locals
  <2>2. CASE ~Inside(t)
    BY <1>2, <1>out, <2>2, LifecycleStep DEF Inside
  <2>3. QED
    BY <2>1, <2>2
<1>3. ASSUME NEW u \in Task, Step(u), u # t PROVE Prefix(t)'
  <2>1. CASE Inside(t)
    BY <1>3, <1>def, <2>1, WireStep, OthersStep, SettledStep
  <2>2. CASE ~Inside(t)
    BY <1>3, <1>out, <2>2, OthersStep DEF Inside
  <2>3. QED
    BY <2>1, <2>2
<1>4. CASE Step(t)
  BY <1>inv, <1>4, OwnPrefix
<1>5. QED
  BY <1>1, <1>2, <1>3, <1>4 DEF Next

\* At all times the task inside has made a prefix of its transaction, on the bus as
\* it was when the mutex was last free.
LEMMA Transactions == Spec => []TransactionInv
<1>1. Init => TransactionInv
  BY DEF Init, TransactionInv, SettledInv, Untouched, Prefix, InsideLabels,
         NestedLabels
<1>2. QED
  BY <1>1, TransactionStep, Locking, PTL DEF Spec

-----------------------------------------------------------------------------
\* The phase a label stands for.
PhaseAt(label) ==
  CASE label = "idle" -> "idle"
    [] label \in {"again", "return"} -> "done"
    [] OTHER -> "busy"

Phases == [t \in Task |-> Phase(t)]

Given(t) == IF Phase(t) = "busy" THEN NoReply ELSE xfer[t]

AllGiven == [t \in Task |-> Given(t)]

\* Both modules speak the vocabulary of I2CCalls.
LEMMA Vocabulary ==
  /\ Atomic!Calls = Calls /\ Atomic!NoCall = NoCall /\ Atomic!NoReply = NoReply
  /\ \A c : /\ Atomic!Rejected(c) <=> Rejected(c)
            /\ Atomic!Transfers(c) <=> Transfers(c)
  /\ \A s, a : Atomic!Selectable(s, a) = Selectable(s, a)
  /\ \A ok, by, at : Atomic!Reply(ok, by, at) = Reply(ok, by, at)
  /\ \A c, s, t, landed : Atomic!Written(c, s, t, landed) = Written(c, s, t, landed)
BY DEF Atomic!Calls, Calls, Atomic!Op, Op, Atomic!NoCall, NoCall, Atomic!NoReply,
   NoReply, Atomic!Rejected, Rejected, Atomic!Transfers, Transfers,
   Atomic!Selectable, Selectable, Atomic!Reply, Reply, Atomic!Written, Written

\* A goto moves the phase of one task.
LEMMA PhaseStep ==
  ASSUME TypeOK, NEW t \in Task, NEW l \in Labels, Goto(t, l)
  PROVE  /\ Phases' = [Phases EXCEPT ![t] = PhaseAt(l)]
         /\ Phase(t) = PhaseAt(pc[t]) /\ Phase(t)' = PhaseAt(l)
<1>1. \A u \in Task : Phase(u) = PhaseAt(pc[u]) /\ Phase(u)' = PhaseAt(pc'[u])
  BY DEF Phase, PhaseAt
<1>2. \A u \in Task : pc'[u] = IF u = t THEN l ELSE pc[u]
  BY DEF Goto, TypeOK
<1>3. QED
  BY <1>1, <1>2 DEF Phases

\* A step of a task moves what no other call gives.
LEMMA GivenStep ==
  ASSUME TypeOK, NEW t \in Task, Step(t)
  PROVE  AllGiven' = [AllGiven EXCEPT ![t] = Given(t)']
<1>1. ASSUME NEW u \in Task, u # t PROVE Given(u)' = Given(u)
  BY <1>1, OthersStep DEF Given, Phase
<1>2. QED
  BY <1>1 DEF AllGiven

\* A step of a call is a call, a return, a transaction, or nothing.
LEMMA TaskRefines ==
  ASSUME TypeOK, LockInv, TransactionInv, NEW t \in Task, Step(t)
  PROVE  Atomic!Next \/ UNCHANGED Atomic!vars
<1>lab. /\ InsideLabels = {"select", "transfer", "leave", "nested_enter",
                           "nested_select", "nested_transfer", "nested_leave"}
        /\ InsideLabels \cup {"idle", "enter", "again", "return"} \subseteq Labels
  BY DEF InsideLabels, NestedLabels, Labels
<1>ans. AllGiven' = [AllGiven EXCEPT ![t] = Given(t)']
  BY GivenStep
<1>inv. SettledInv /\ Prefix(t)
  BY DEF TransactionInv
<1>hid. ASSUME NEW l \in Labels, Goto(t, l), PhaseAt(l) = Phase(t),
               UNCHANGED <<settled, call>>,
               PhaseAt(l) = "busy" \/ UNCHANGED xfer
        PROVE  UNCHANGED Atomic!vars
  <2>1. Phases' = Phases /\ Phase(t)' = Phase(t)
    BY <1>hid, PhaseStep DEF Phases
  <2>2. Given(t)' = Given(t)
    BY <1>hid, <2>1 DEF Given
  <2>3. AllGiven' = AllGiven
    BY <1>ans, <2>2 DEF AllGiven
  <2>4. QED
    BY <1>hid, <2>1, <2>3 DEF Atomic!vars, Phases, AllGiven, Given
<1>1. ASSUME NEW c \in Calls, Call(t, c) PROVE Atomic!Next
  <2>1. /\ Phases' = [Phases EXCEPT ![t] = "busy"]
        /\ Phase(t) = "idle" /\ Phase(t)' = "busy"
    BY <1>lab, <1>1, PhaseStep DEF Call, PhaseAt
  <2>2. Given(t) = NoReply /\ Given(t)' = NoReply
    BY <1>1, <1>inv, <2>1 DEF Given, SettledInv, Call
  <2>3. AllGiven' = AllGiven
    BY <1>ans, <2>2 DEF AllGiven
  <2>4. Phases[t] = "idle"
    BY <2>1 DEF Phases
  <2>5. Atomic!Call(t, c)
    BY <1>1, <2>1, <2>3, <2>4 DEF Atomic!Call, Call, Phases, AllGiven, Given
  <2>6. QED
    BY <1>1, <2>5, Vocabulary DEF Call, Atomic!Next
<1>2. CASE Enter(t)
  <2>1. \E l \in {"nested_enter", "select"} : Goto(t, l)
    BY <1>2 DEF Enter
  <2>2. QED
    BY <1>2, <1>lab, <1>hid, <2>1 DEF Enter, PhaseAt, Phase
<1>3. CASE EnterInvalid(t) \/ EnterInterrupted(t) \/ Return(t)
  <2>1. Finish(t) /\ UNCHANGED settled /\ pc[t] \in {"enter", "return"}
    BY <1>3 DEF EnterInvalid, EnterInterrupted, Return
  <2>2. /\ Phases' = [Phases EXCEPT ![t] = "idle"]
        /\ Phase(t) \in {"busy", "done"} /\ Phase(t)' = "idle"
    BY <1>lab, <2>1, PhaseStep DEF Finish, PhaseAt
  <2>3. Given(t)' = NoReply
    BY <2>1, <2>2 DEF Given, Finish, Clear, TypeOK
  <2>4. Phases[t] \in {"busy", "done"}
    BY <2>2 DEF Phases
  <2>5. Atomic!Return(t)
    BY <1>ans, <2>1, <2>2, <2>3, <2>4, Vocabulary
       DEF Atomic!Return, Finish, Phases, AllGiven, Given
  <2>6. QED
    BY <2>5 DEF Atomic!Next
<1>4. CASE NestedEnter(t)
  <2>1. \E l \in {"nested_select", "select"} : Goto(t, l)
    BY <1>4 DEF NestedEnter
  <2>2. QED
    BY <1>4, <1>lab, <1>hid, <2>1 DEF NestedEnter, PhaseAt, Phase
<1>5. CASE Select(t) \/ NestedSelect(t)
  BY <1>5, <1>lab, <1>hid DEF Select, NestedSelect, SelectSlave, PhaseAt, Phase
<1>6. CASE ReadTransfer(t) \/ WriteTransfer(t) \/ NestedTransfer(t)
  BY <1>6, <1>lab, <1>hid
     DEF ReadTransfer, WriteTransfer, NestedTransfer, PhaseAt, Phase
<1>7. CASE NestedLeave(t)
  <2>1. settled' = settled
    BY <1>7, <1>lab, InsideCalls, TaskAssumption
       DEF NestedLeave, Inside, Release, Released, Depth, NestedLabels
  <2>2. QED
    BY <1>7, <1>lab, <1>hid, <2>1 DEF NestedLeave, Release, PhaseAt, Phase
<1>8. CASE ReleaseAgain(t)
  <2>1. settled' = settled
    BY <1>8, <1>inv, <1>lab, TaskAssumption
       DEF ReleaseAgain, Release, Released, SettledInv, Untouched, LockInv,
           Inside, TypeOK
  <2>2. QED
    BY <1>8, <1>lab, <1>hid, <2>1
       DEF ReleaseAgain, Release, locals, PhaseAt, Phase
<1>9. CASE Leave(t)
  <2>1. pc[t] = "leave" /\ Outcome(t)
    BY <1>9, <1>inv DEF Leave, Prefix
  <2>2. settled' = [slave |-> slave, cell |-> cell]
    BY <1>9, <1>lab, InsideCalls, TaskAssumption
       DEF Leave, Inside, Release, Released, Depth, NestedLabels, Free
  <2>3. UNCHANGED <<call, xfer, slave, cell>>
    BY <1>9 DEF Leave, Release, wire, locals
  <2>4. \E l \in {"again", "return"} : Goto(t, l)
    BY <1>9 DEF Leave
  <2>5. /\ Phases' = [Phases EXCEPT ![t] = "done"]
        /\ Phase(t) = "busy" /\ Phase(t)' = "done"
    BY <1>lab, <2>1, <2>4, PhaseStep DEF PhaseAt
  <2>6. Given(t)' = xfer[t] /\ Phases[t] = "busy"
    BY <2>3, <2>5 DEF Given, Phases
  <2>7. AllGiven' = [AllGiven EXCEPT ![t] = xfer[t]]
    BY <1>ans, <2>6
  <2>8. Atomic!Transact(t)
    <3>0. /\ [u \in Task |-> Phase(u)][t] = "busy"
          /\ [u \in Task |-> Phase(u)]' = [[u \in Task |-> Phase(u)] EXCEPT ![t] = "done"]
          /\ settled'.slave = slave /\ settled'.cell = cell /\ call' = call
      BY <2>2, <2>3, <2>5, <2>6 DEF Phases
    <3>1. CASE call[t].op = "get" /\ Selected(t) /\ HasRead(t)
      <4>1. Atomic!Read(t, settled'.slave, settled.cell)
        BY <2>2, <2>7, <3>1, Vocabulary
           DEF Atomic!Read, Selected, HasRead, AllGiven, Given
      <4>2. QED
        BY <3>0, <3>1, <4>1, Vocabulary DEF Selected, Atomic!Transact
    <3>2. CASE call[t].op \in {"set", "set_1com"} /\ HasWritten(t)
      <4>1. Atomic!Write(t, settled'.slave)
        BY <2>2, <2>7, <3>2, Vocabulary
           DEF Atomic!Write, HasWritten, AllGiven, Given
      <4>2. settled'.slave \in Atomic!Selectable(settled.slave, call[t].addr)
        BY <3>0, <3>2, Vocabulary DEF HasWritten
      <4>3. QED
        BY <3>0, <3>2, <4>1, <4>2 DEF Atomic!Transact
    <3>3. CASE call[t].op = "get_3com" /\ Reselected(t) /\ HasRead(t)
      <4>1. Atomic!Read(t, settled'.slave, settled'.cell)
        BY <2>2, <2>7, <3>3, Vocabulary
           DEF Atomic!Read, HasRead, AllGiven, Given
      <4>2. \E s \in Atomic!Selectable(settled.slave, call[t].addr),
               landed \in BOOLEAN :
              /\ landed => call[t].addr <= 127
              /\ settled'.cell = Atomic!Written(settled.cell, s, t, landed)
              /\ settled'.slave \in Atomic!Selectable(s, call[t].addr)
        BY <3>0, <3>3, Vocabulary DEF Reselected
      <4>3. QED
        BY <3>0, <3>3, <4>1, <4>2 DEF Atomic!Transact
    <3>4. QED
      BY <2>1, <3>1, <3>2, <3>3 DEF Outcome
  <2>9. QED
    BY <2>8 DEF Atomic!Next
<1>10. QED
  BY <1>1, <1>2, <1>3, <1>4, <1>5, <1>6, <1>7, <1>8, <1>9 DEF Step, Inner

\* i2c_init reopens the bus; nothing else of it or of i2c_clean is seen.
LEMMA LifecycleRefines ==
  ASSUME TypeOK, LockInv, Lifecycle
  PROVE  Atomic!Next \/ UNCHANGED Atomic!vars
<1>1. UNCHANGED <<pc, call, xfer>>
  BY LifecycleStep DEF locals
<1>2. Phases' = Phases /\ AllGiven' = AllGiven
  BY <1>1 DEF Phases, AllGiven, Given, Phase
<1>3. CASE OpenDevice
  <2>1. Atomic!Reopen
    BY <1>1, <1>2, <1>3
       DEF Atomic!Reopen, OpenDevice, Phases, AllGiven, Given, TypeOK
  <2>2. QED
    BY <2>1 DEF Atomic!Next
<1>4. CASE CreateMutex \/ DeleteMutex \/ CloseDevice
  BY <1>1, <1>2, <1>4
     DEF CreateMutex, DeleteMutex, CloseDevice, Atomic!vars, Phases, AllGiven,
         Given
<1>5. QED
  BY <1>3, <1>4 DEF Lifecycle

\* Every call of i2ctools.c is one indivisible transaction ("This function is
\* thread-safe"), the command and the answer of i2c_get_3com included.
THEOREM Atomicity == Spec => CallsAreAtomic
<1>1. Init => Atomic!Init
  BY Vocabulary DEF Init, Atomic!Init, Phase
<1>2. TypeOK /\ LockInv /\ TransactionInv /\ [Next]_vars
      => [Atomic!Next]_(Atomic!vars)
  <2> SUFFICES ASSUME TypeOK, LockInv, TransactionInv, [Next]_vars
               PROVE  Atomic!Next \/ UNCHANGED Atomic!vars
    OBVIOUS
  <2>1. CASE UNCHANGED vars
    BY <2>1 DEF vars, wire, locals, Atomic!vars, Phase
  <2>2. QED
    BY <2>1, TaskRefines, LifecycleRefines DEF Next
<1>3. QED
  BY <1>1, <1>2, Locking, Transactions, PTL DEF Atomic!Spec, Spec, CallsAreAtomic
=============================================================================
