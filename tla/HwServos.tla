------------------------------ MODULE HwServos -------------------------------
(***************************************************************************)
(* src/hwservos.c: the servo core, one register per servo holding a pulse  *)
(* width in microseconds and an enable bit, shared by tasks under          *)
(* servo->mutex, and the driver's own latch of the positions set.  Calls   *)
(* come from the tasks; hwservos_init and hwservos_clean run while no task *)
(* is in a call, as platex does by starting the tasks after the one and    *)
(* deleting them before the other.                                         *)
(***************************************************************************)
EXTENDS RtMutex

CONSTANTS Servo,      \* indices the tasks use, below num_of
          Request,    \* pulse widths the tasks ask for, in microseconds
          Min, Max    \* HWSERVOS_TIME_MIN_ANGLE and HWSERVOS_TIME_MAX_ANGLE

ASSUME PulseAssumption ==
  /\ Request \subseteq Nat
  /\ Min \in Nat \ {0} /\ Max \in Nat /\ Min <= Max

VARIABLES
  stage,    \* of the HWSERVOS structure
  left,     \* the servos hwservos_clean has still to disable
  pulse,    \* per servo, pulse width in its register
  enabled,  \* per servo, enable bit in its register
  values,   \* servo->values: per servo, the position latched
  mutex,    \* servo->mutex
  pc,       \* per task, where it stands
  op,       \* per task, the call it makes
  old       \* per task, what it has read from the register

register == <<pulse, enabled>>
driver   == <<stage, left>>
vars == <<driver, register, values, mutex, pc, op, old>>

Stages == {"absent", "mapped", "latched", "ready", "stopping", "unmapped"}
InsideLabels == {"access", "store", "latch", "leave"}
Labels == InsideLabels \cup {"idle", "enter", "return"}

Calls == [kind : {"set_pos"}, num : Servo, value : Request]
         \cup [kind : {"get_pos", "enable", "disable"}, num : Servo]

NoCall == [kind |-> "none"]

\* A register as it is read: enable bit and pulse width together.
Words == [enabled : BOOLEAN, pulse : Nat]
NoWord == [enabled |-> FALSE, pulse |-> 0]

Init ==
  /\ stage = "absent" /\ left = {}
  /\ pulse = [n \in Servo |-> 0] /\ enabled = [n \in Servo |-> FALSE]
  /\ values = [n \in Servo |-> 0]
  /\ mutex = Free
  /\ pc = [t \in Task |-> "idle"]
  /\ op = [t \in Task |-> NoCall]
  /\ old = [t \in Task |-> NoWord]

-----------------------------------------------------------------------------
\* hwservos_init: what fails leaves the steps before it in place.

Quiet == \A t \in Task : pc[t] = "idle"

Map ==
  /\ stage = "absent" /\ Quiet
  /\ stage' = "mapped"
  /\ UNCHANGED <<left, register, values, mutex, pc, op, old>>

\* num_of above HWSERVOS_MAX_NUM_OF: -ECHRNG, the region stays mapped.
RefuseNumOf ==
  /\ stage = "mapped"
  /\ stage' = "absent"
  /\ UNCHANGED <<left, register, values, mutex, pc, op, old>>

ClearLatch ==
  /\ stage = "mapped"
  /\ stage' = "latched" /\ values' = [n \in Servo |-> 0]
  /\ UNCHANGED <<left, register, mutex, pc, op, old>>

CreateMutex ==
  /\ stage = "latched"
  /\ stage' \in {"ready", "absent"} /\ mutex' = Free
  /\ UNCHANGED <<left, register, values, pc, op, old>>

\* Mutant of CleanStart: the loop over the servos skips the first.
CleanStartAtOne ==
  /\ stage = "ready" /\ Quiet
  /\ stage' = "stopping" /\ left' = Servo \ {0}
  /\ UNCHANGED <<register, values, mutex, pc, op, old>>

\* hwservos_clean: disable every servo, unmap, delete the mutex.
CleanStart ==
  /\ stage = "ready" /\ Quiet
  /\ stage' = "stopping" /\ left' = Servo
  /\ UNCHANGED <<register, values, mutex, pc, op, old>>

DisableNext ==
  /\ stage = "stopping"
  /\ \E n \in left :
       /\ \A m \in left : n <= m
       /\ left' = left \ {n}
       /\ enabled' = [enabled EXCEPT ![n] = FALSE]
  /\ UNCHANGED <<stage, pulse, values, mutex, pc, op, old>>

\* unmapio_region may fail, and clean returns with the mutex still there.
Unmap ==
  /\ stage = "stopping" /\ left = {}
  /\ stage' \in {"unmapped", "ready"}
  /\ UNCHANGED <<left, register, values, mutex, pc, op, old>>

DeleteMutex ==
  /\ stage = "unmapped"
  /\ stage' = "absent"
  /\ UNCHANGED <<left, register, values, mutex, pc, op, old>>

-----------------------------------------------------------------------------
Goto(t, label) == pc' = [pc EXCEPT ![t] = label]

\* A call before init or after clean returns the error of the acquire.
Call(t, c) ==
  /\ pc[t] = "idle" /\ stage = "ready"
  /\ op' = [op EXCEPT ![t] = c]
  /\ Goto(t, "enter")
  /\ UNCHANGED <<driver, register, values, mutex, old>>

\* Mutant of Enter: the functions do not acquire the mutex.
EnterUnlocked(t) ==
  /\ pc[t] = "enter"
  /\ Goto(t, IF op[t].kind = "set_pos" THEN "store" ELSE "access")
  /\ UNCHANGED <<driver, register, values, mutex, op, old>>

Enter(t) ==
  /\ pc[t] = "enter"
  /\ CanAcquire(mutex, t)
  /\ mutex' = Acquired(mutex, t)
  /\ Goto(t, IF op[t].kind = "set_pos" THEN "store" ELSE "access")
  /\ UNCHANGED <<driver, register, values, op, old>>

Read(t) ==
  /\ pc[t] = "access"
  /\ old' = [old EXCEPT ![t] = [enabled |-> enabled[op[t].num],
                                pulse |-> pulse[op[t].num]]]
  /\ Goto(t, IF op[t].kind = "get_pos" THEN "leave" ELSE "store")
  /\ UNCHANGED <<driver, register, values, mutex, op>>

\* Mutant of Clamped: only the lower limit is checked.
ClampedBelow(v) == IF v < Min THEN Min ELSE v

\* The sanity check of hwservos_set_pos.
Clamped(v) == IF v < Min THEN Min ELSE IF v > Max THEN Max ELSE v

\* One store of the whole word: set_pos enables the servo, enable and disable
\* write back the pulse they have read.
Store(t) ==
  /\ pc[t] = "store"
  /\ pulse' = [pulse EXCEPT ![op[t].num] =
                 IF op[t].kind = "set_pos" THEN Clamped(op[t].value) ELSE old[t].pulse]
  /\ enabled' = [enabled EXCEPT ![op[t].num] = op[t].kind # "disable"]
  /\ Goto(t, IF op[t].kind = "set_pos" THEN "latch" ELSE "leave")
  /\ UNCHANGED <<driver, values, mutex, op, old>>

Latch(t) ==
  /\ pc[t] = "latch"
  /\ values' = [values EXCEPT ![op[t].num] = Clamped(op[t].value)]
  /\ Goto(t, "leave")
  /\ UNCHANGED <<driver, register, mutex, op, old>>

Leave(t) ==
  /\ pc[t] = "leave"
  /\ mutex' = Released(mutex, t)
  /\ Goto(t, "return")
  /\ UNCHANGED <<driver, register, values, op, old>>

\* get_pos returns old[t].pulse, the register without its enable bit.
Return(t) ==
  /\ pc[t] = "return"
  /\ Goto(t, "idle")
  /\ op' = [op EXCEPT ![t] = NoCall]
  /\ old' = [old EXCEPT ![t] = NoWord]
  /\ UNCHANGED <<driver, register, values, mutex>>

Inside(t) == pc[t] \in InsideLabels

Lifecycle ==
  \/ Map \/ RefuseNumOf \/ ClearLatch \/ CreateMutex
  \/ CleanStart \/ DisableNext \/ Unmap \/ DeleteMutex

Step(t) ==
  \/ \E c \in Calls : Call(t, c)
  \/ Enter(t) \/ Read(t) \/ Store(t) \/ Latch(t) \/ Leave(t) \/ Return(t)

Next == Lifecycle \/ \E t \in Task : Step(t)

Spec == Init /\ [][Next]_vars

-----------------------------------------------------------------------------
\* A pulse is 0, of a servo never positioned, or within the limits.
TypeOK ==
  /\ stage \in Stages /\ left \subseteq Servo
  /\ pulse \in [Servo -> {0} \cup Min..Max] /\ enabled \in [Servo -> BOOLEAN]
  /\ values \in [Servo -> Nat]
  /\ mutex \in Mutexes
  /\ pc \in [Task -> Labels]
  /\ op \in [Task -> Calls \cup {NoCall}]
  /\ old \in [Task -> Words]

Busy(n) == \E t \in Task : Inside(t) /\ op[t].num = n

\* The position a task has set survives the enable and disable of others: once
\* a servo has been positioned, its register and the driver's latch agree
\* whenever nobody is changing it.
PositionKept == \A n \in Servo : values[n] # 0 /\ ~Busy(n) => pulse[n] = values[n]

\* "Disable servos before unmapping": no servo is driven once its core is
\* unmapped by a clean.
DisabledWhenUnmapped == stage = "unmapped" => \A n \in Servo : ~enabled[n]
=============================================================================
