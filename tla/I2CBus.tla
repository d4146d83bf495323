------------------------------- MODULE I2CBus --------------------------------
(***************************************************************************)
(* src/i2ctools.c step by step: one Linux i2c bus file, the recursive      *)
(* mutex of its I2CDEV, and the tasks inside i2c_get, i2c_set,             *)
(* i2c_get_3com and i2c_set_1com.  A step is one system call: an acquire,  *)
(* a release, the ioctl that selects the slave, one SMBus transfer.  The   *)
(* i2c_set that i2c_get_3com calls runs with the mutex already held and    *)
(* has labels of its own ("nested_...").                                   *)
(***************************************************************************)
EXTENDS I2CCalls

CONSTANT MaxFiles    \* bound on the bus files opened, leaked ones included

ASSUME MaxFilesAssumption == MaxFiles \in Nat

VARIABLES
  stage,   \* of the I2CDEV: "absent", "opened", "ready" or "deleted"
  files,   \* how many descriptors of the bus file are open
  mutex,   \* i2c->mutex
  slave,   \* the slave the current file addresses
  cell,    \* per slave, who wrote its register last
  pc,      \* per task, where it stands
  call,    \* per task, the call it makes
  picked,  \* per task, whether its last set_slave_addr worked (ignored)
  sent,    \* per task, what the nested i2c_set gave (ignored)
  xfer,    \* per task, res: what its own transfer gave
  err,     \* per task, what its last rt_mutex_release returned
  settled  \* history: slave and cell as they were when the mutex was last free

device == <<stage, files>>
wire   == <<slave, cell>>
locals == <<picked, sent, xfer>>
vars   == <<device, mutex, wire, pc, call, locals, err, settled>>

NestedLabels == {"nested_select", "nested_transfer", "nested_leave"}
InsideLabels == {"select", "transfer", "leave", "nested_enter"} \cup NestedLabels
Labels == InsideLabels \cup {"idle", "enter", "again", "return"}

Codes == {"ok", "EPERM"}

Init ==
  /\ stage = "absent" /\ files = 0
  /\ mutex = Free
  /\ slave = 0 /\ cell = [a \in Address |-> NoTask]
  /\ pc = [t \in Task |-> "idle"]
  /\ call = [t \in Task |-> NoCall]
  /\ picked = [t \in Task |-> FALSE]
  /\ sent = [t \in Task |-> NoReply]
  /\ xfer = [t \in Task |-> NoReply]
  /\ err = [t \in Task |-> "ok"]
  /\ settled = [slave |-> slave, cell |-> cell]

-----------------------------------------------------------------------------
\* i2c_init and i2c_clean.  A step that fails and changes nothing is a stutter.

\* Mutant of OpenDevice: the result of open is not checked.
OpenDeviceUnchecked ==
  /\ stage = "absent" /\ files < MaxFiles
  /\ stage' = "opened" /\ files' \in {files, files + 1}
  /\ slave' = 0 /\ settled' = [settled EXCEPT !.slave = 0]
  /\ UNCHANGED <<mutex, cell, pc, call, locals, err>>

\* Opening the bus file succeeds: no slave is selected on the new file yet.
OpenDevice ==
  /\ stage = "absent" /\ files < MaxFiles
  /\ stage' = "opened" /\ files' = files + 1
  /\ slave' = 0 /\ settled' = [settled EXCEPT !.slave = 0]
  /\ UNCHANGED <<mutex, cell, pc, call, locals, err>>

\* UTIL_MUTEX_CREATE; when it fails i2c_init returns and leaks the file.
CreateMutex ==
  /\ stage = "opened"
  /\ \/ stage' = "ready" /\ mutex' = Free
     \/ stage' = "absent" /\ UNCHANGED mutex
  /\ UNCHANGED <<files, wire, pc, call, locals, err, settled>>

\* i2c_clean runs when no call is in flight: its note leaves that to the user.
DeleteMutex ==
  /\ stage = "ready"
  /\ \A t \in Task : pc[t] = "idle"
  /\ stage' = "deleted"
  /\ UNCHANGED <<files, mutex, wire, pc, call, locals, err, settled>>

\* Mutant of CloseDevice: the file is closed twice.
CloseDeviceTwice ==
  /\ stage = "deleted"
  /\ stage' = "absent" /\ files' = files - 2
  /\ UNCHANGED <<mutex, wire, pc, call, locals, err, settled>>

CloseDevice ==
  /\ stage = "deleted"
  /\ stage' = "absent" /\ files' = files - 1
  /\ UNCHANGED <<mutex, wire, pc, call, locals, err, settled>>

-----------------------------------------------------------------------------
\* The four calls.

Goto(t, label) == pc' = [pc EXCEPT ![t] = label]

\* The locals of a call start afresh and die with it.
Clear(t) ==
  /\ picked' = [picked EXCEPT ![t] = FALSE]
  /\ sent' = [sent EXCEPT ![t] = NoReply]
  /\ xfer' = [xfer EXCEPT ![t] = NoReply]
  /\ err' = [err EXCEPT ![t] = "ok"]

Finish(t) == Goto(t, "idle") /\ call' = [call EXCEPT ![t] = NoCall] /\ Clear(t)

\* A call whose address is rejected returns -EADDRNOTAVAIL and does nothing.
Call(t, c) ==
  /\ pc[t] = "idle" /\ ~Rejected(c)
  /\ Goto(t, "enter")
  /\ call' = [call EXCEPT ![t] = c]
  /\ UNCHANGED <<device, mutex, wire, locals, err, settled>>

\* Mutant of Take: an acquire that fails is ignored.
TakeUnchecked(t) == stage = "ready" /\ mutex' = Acquired(mutex, t)

Take(t) ==
  /\ stage = "ready" /\ CanAcquire(mutex, t)
  /\ mutex' = Acquired(mutex, t)

\* Mutant of Enter: i2c_get_3com leaves the locking to the i2c_set it calls.
EnterUnlocked(t) ==
  /\ pc[t] = "enter"
  /\ IF call[t].op = "get_3com" THEN UNCHANGED mutex ELSE Take(t)
  /\ Goto(t, IF call[t].op = "get_3com" THEN "nested_enter" ELSE "select")
  /\ UNCHANGED <<device, wire, call, locals, err, settled>>

\* UTIL_MUTEX_ACQUIRE of the call itself.
Enter(t) ==
  /\ pc[t] = "enter"
  /\ Take(t)
  /\ Goto(t, IF call[t].op = "get_3com" THEN "nested_enter" ELSE "select")
  /\ UNCHANGED <<device, wire, call, locals, err, settled>>

\* The macro returns the error of an acquire that fails: the mutex does not
\* exist, or the wait for it was interrupted.
EnterInvalid(t) ==
  /\ pc[t] = "enter" /\ stage # "ready"
  /\ Finish(t)
  /\ UNCHANGED <<device, mutex, wire, settled>>

EnterInterrupted(t) ==
  /\ pc[t] = "enter" /\ stage = "ready" /\ ~CanAcquire(mutex, t)
  /\ Finish(t)
  /\ UNCHANGED <<device, mutex, wire, settled>>

\* The i2c_set inside i2c_get_3com checks its address, then acquires again;
\* i2c_get_3com goes on to its own transfer whatever i2c_set returned.
NestedEnter(t) ==
  /\ pc[t] = "nested_enter"
  /\ IF call[t].addr > 127
       THEN Goto(t, "select") /\ UNCHANGED mutex
       ELSE Take(t) /\ Goto(t, "nested_select")
  /\ UNCHANGED <<device, wire, call, locals, err, settled>>

\* set_slave_addr: nobody looks at its result.
SelectSlave(t) ==
  /\ slave' \in Selectable(slave, call[t].addr)
  /\ picked' = [picked EXCEPT ![t] = slave' = call[t].addr]
  /\ UNCHANGED <<device, mutex, cell, call, sent, xfer, err, settled>>

Select(t) == pc[t] = "select" /\ SelectSlave(t) /\ Goto(t, "transfer")

NestedSelect(t) ==
  pc[t] = "nested_select" /\ SelectSlave(t) /\ Goto(t, "nested_transfer")

\* Mutant of ReadTransfer: a failed transfer returns without the release.
ReadTransferReturns(t) ==
  /\ pc[t] = "transfer" /\ call[t].op \in {"get", "get_3com"}
  /\ \E ok \in BOOLEAN :
       /\ ok => Transfers(call[t])
       /\ xfer' = [xfer EXCEPT ![t] = Reply(ok, cell[slave], slave)]
       /\ Goto(t, IF ok THEN "leave" ELSE "return")
  /\ UNCHANGED <<device, mutex, wire, call, picked, sent, err, settled>>

ReadTransfer(t) ==
  /\ pc[t] = "transfer" /\ call[t].op \in {"get", "get_3com"}
  /\ \E ok \in BOOLEAN :
       /\ ok => Transfers(call[t])
       /\ xfer' = [xfer EXCEPT ![t] = Reply(ok, cell[slave], slave)]
  /\ Goto(t, "leave")
  /\ UNCHANGED <<device, mutex, wire, call, picked, sent, err, settled>>

WriteTransfer(t) ==
  /\ pc[t] = "transfer" /\ call[t].op \in {"set", "set_1com"}
  /\ \E ok, landed \in BOOLEAN :
       /\ ok => landed
       /\ cell' = Written(cell, slave, t, landed)
       /\ xfer' = [xfer EXCEPT ![t] = Reply(ok, t, slave)]
  /\ Goto(t, "leave")
  /\ UNCHANGED <<device, mutex, slave, call, picked, sent, err, settled>>

NestedTransfer(t) ==
  /\ pc[t] = "nested_transfer"
  /\ \E ok, landed \in BOOLEAN :
       /\ ok => landed
       /\ cell' = Written(cell, slave, t, landed)
       /\ sent' = [sent EXCEPT ![t] = Reply(ok, t, slave)]
  /\ Goto(t, "nested_leave")
  /\ UNCHANGED <<device, mutex, slave, call, picked, xfer, err, settled>>

\* UTIL_MUTEX_RELEASE.
Release(t) ==
  /\ mutex' = Released(mutex, t)
  /\ err' = [err EXCEPT ![t] = ReleaseCode(mutex, t)]
  /\ settled' = IF mutex'.owner = NoTask THEN [slave |-> slave, cell |-> cell]
                                         ELSE settled
  /\ UNCHANGED <<device, wire, call, locals>>

\* Mutant of NestedLeave: the mutex is not recursive, one release frees it.
NestedLeaveFrees(t) ==
  /\ pc[t] = "nested_leave" /\ Goto(t, "select")
  /\ mutex' = Free /\ settled' = [slave |-> slave, cell |-> cell]
  /\ UNCHANGED <<device, wire, call, locals, err>>

NestedLeave(t) == pc[t] = "nested_leave" /\ Release(t) /\ Goto(t, "select")

Leave(t) ==
  /\ pc[t] = "leave"
  /\ Release(t)
  /\ Goto(t, IF call[t].op = "set_1com" /\ ReleaseCode(mutex, t) = "ok"
               THEN "again" ELSE "return")

\* i2c_set_1com releases the mutex a second time.
ReleaseAgain(t) == pc[t] = "again" /\ Release(t) /\ Goto(t, "return")

\* What the call returns after its releases: their error first, then that of
\* the transfer, which i2c_get_3com drops.
ReturnCode(t) ==
  IF err[t] # "ok" THEN err[t]
  ELSE IF xfer[t].ok \/ call[t].op = "get_3com" THEN "ok"
  ELSE "EIO"

Return(t) ==
  /\ pc[t] = "return"
  /\ Finish(t)
  /\ UNCHANGED <<device, mutex, wire, settled>>

-----------------------------------------------------------------------------
Lifecycle == OpenDevice \/ CreateMutex \/ DeleteMutex \/ CloseDevice

Inner(t) ==
  \/ EnterInvalid(t) \/ NestedEnter(t)
  \/ NestedSelect(t) \/ NestedTransfer(t) \/ NestedLeave(t)
  \/ Select(t) \/ ReadTransfer(t) \/ WriteTransfer(t)
  \/ Leave(t) \/ ReleaseAgain(t) \/ Return(t)

Step(t) ==
  \/ \E c \in Calls : Call(t, c)
  \/ Enter(t) \/ EnterInterrupted(t) \/ Inner(t)

Next == Lifecycle \/ \E t \in Task : Step(t)

Spec == Init /\ [][Next]_vars

\* A task inside a call runs on; one that waits for the mutex is queued by
\* Xenomai and handed it again and again by owners that come and go.
Fairness == \A t \in Task : WF_vars(Inner(t)) /\ SF_vars(Enter(t))

FairSpec == Spec /\ Fairness

-----------------------------------------------------------------------------
TypeOK ==
  /\ stage \in {"absent", "opened", "ready", "deleted"}
  /\ files \in 0..MaxFiles
  /\ mutex \in Mutexes
  /\ slave \in Address
  /\ cell \in [Address -> Tag]
  /\ pc \in [Task -> Labels]
  /\ call \in [Task -> Calls \cup {NoCall}]
  /\ picked \in [Task -> BOOLEAN]
  /\ sent \in [Task -> Replies]
  /\ xfer \in [Task -> Replies]
  /\ err \in [Task -> Codes]
  /\ settled \in [slave : Address, cell : [Address -> Tag]]

Inside(t) == pc[t] \in InsideLabels

\* Two tasks are never inside the bus section at once: neither the nested
\* i2c_set of i2c_get_3com nor the second release of i2c_set_1com opens it.
OneTransaction == \A t, u \in Task : Inside(t) /\ Inside(u) => t = u

\* The slave a task selected stays selected until the transfer it was
\* selected for, whatever the other tasks on the same file do in between.
SelectionHolds ==
  \A t \in Task :
    pc[t] \in {"transfer", "nested_transfer"} /\ picked[t] => slave = call[t].addr

\* When the command of an i2c_get_3com was written, the byte read after it is
\* the answer to that command and not to one another task has sent since.
OwnAnswer ==
  \A t \in Task :
    /\ call[t].op = "get_3com" /\ sent[t].ok
    /\ xfer[t].ok /\ xfer[t].at = sent[t].at
    => xfer[t].by = t

\* A task outside the section owns nothing, whichever way its call ended, so
\* the mutex is free whenever nobody is inside.
NothingHeldOutside ==
  /\ \A t \in Task : ~Inside(t) => mutex.owner # t
  /\ (\A t \in Task : ~Inside(t)) => mutex = Free

\* The bus file is open as long as a task can use it under the mutex.
FileOpen == stage = "ready" \/ (\E t \in Task : Inside(t)) => files > 0

\* The thread-safe calls are atomic transactions: a transaction takes effect
\* at the release that frees the mutex.
Phase(t) == CASE pc[t] = "idle" -> "idle"
              [] pc[t] \in {"again", "return"} -> "done"
              [] OTHER -> "busy"

Atomic == INSTANCE AtomicBus WITH
  slave <- settled.slave,
  cell  <- settled.cell,
  phase <- [t \in Task |-> Phase(t)],
  req   <- call,
  reply <- [t \in Task |-> IF Phase(t) = "busy" THEN NoReply ELSE xfer[t]]

CallsAreAtomic == Atomic!Spec

\* Every call returns: no acquire waits for ever on a mutex nobody releases.
CallsReturn == \A t \in Task : pc[t] # "idle" ~> pc[t] = "idle"
=============================================================================
