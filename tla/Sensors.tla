------------------------------- MODULE Sensors -------------------------------
(***************************************************************************)
(* The three I2C sensors: src/lis3lv02dl.c (accelerometer), src/srf08.c    *)
(* (sonar) and src/hmc6352.c (compass).  Each has a mutex of its own, held *)
(* over the bus calls of one operation.  A bus call is one step here: that *)
(* is what I2CBus shows of the calls of src/i2ctools.c.  Any bus call may  *)
(* fail, and mostly in silence: UTIL_MUTEX_RELEASE stores its own 0 over   *)
(* the error before it is returned.                                        *)
(***************************************************************************)
EXTENDS RtMutex

VARIABLES
  up,        \* the program is between the inits and the cleans of the sensors
  mutex,     \* per sensor, its mutex
  pc, op,    \* per task, where it stands and the call it makes
  axis,      \* per task, the axis of the accelerometer it is at
  acc, cal,  \* acc->xacc, acc->xcal and their siblings: whose read they hold
  powered,   \* the accelerometer is powered up
  ranging,   \* the sonar still listens for the echoes of its last shot
  echo,      \* the shot its registers hold: the "last", or an "older" one
  heard,     \* per task, the shot of the first and of the second byte it has read
  busy,      \* what the compass is at: a "command", a "measure"
  begun,     \* history, per task: its call began with the sonar at rest
  switched,  \* history, per task: its call has powered the accelerometer up
  alone      \* history, per task: no measure of the compass was asked for since it
             \* went to sleep

lis  == <<acc, cal, powered>>
srf  == <<ranging, echo>>
hmc  == <<busy, alone>>
vars == <<up, mutex, pc, op, axis, lis, srf, heard, hmc, begun, switched>>

Sensor == {"lis", "srf", "hmc"}
Axis == 0..2

\* The operations of each sensor.
OpsOf == [lis |-> {"read", "calib", "init_3axis", "poweroff"},
          srf |-> {"get_echo", "get_light", "fire"},
          hmc |-> {"init", "read_nowait", "read_wait", "enter_calibration",
                   "exit_calibration", "sleep", "wakeup"}]

Calls == UNION {[on : {s}, do : OpsOf[s]] : s \in Sensor}

NoCall == [on |-> "none", do |-> "none"]

\* What a byte of an echo belongs to; "none" when it was not read.
Shot == {"last", "older"}
Heard == Shot \cup {"none"}

Init ==
  /\ up = FALSE
  /\ mutex = [s \in Sensor |-> Free]
  /\ pc = [t \in Task |-> "idle"]
  /\ op = [t \in Task |-> NoCall]
  /\ axis = [t \in Task |-> 0]
  /\ acc = [a \in Axis |-> NoTask]
  /\ cal = acc
  /\ powered = FALSE
  /\ ranging = FALSE /\ echo = "last"
  /\ heard = [t \in Task |-> <<"none", "none">>]
  /\ busy = {}
  /\ begun = [t \in Task |-> FALSE]
  /\ switched = [t \in Task |-> FALSE]
  /\ alone = [t \in Task |-> FALSE]

-----------------------------------------------------------------------------
\* The init and clean functions, while no task is in a call.

Quiet == \A t \in Task : pc[t] = "idle"

Start ==
  /\ ~up /\ Quiet
  /\ up' = TRUE /\ mutex' = [s \in Sensor |-> Free]
  /\ UNCHANGED <<pc, op, axis, lis, srf, heard, hmc, begun, switched>>

\* lis3lv02dl_clean powers the accelerometer off first; whether that worked is
\* overwritten by the result of deleting the mutex.
Clean ==
  /\ up /\ Quiet
  /\ up' = FALSE /\ powered' \in {FALSE, powered}
  /\ UNCHANGED <<mutex, pc, op, axis, acc, cal, srf, heard, hmc, begun, switched>>

-----------------------------------------------------------------------------
Goto(t, label) == pc' = [pc EXCEPT ![t] = label]

\* hmc6532_read_wait sleeps first, outside the mutex.
Call(t, c) ==
  /\ pc[t] = "idle" /\ up
  /\ op' = [op EXCEPT ![t] = c]
  /\ Goto(t, IF c.do = "read_wait" THEN "asleep" ELSE "enter")
  /\ alone' = [alone EXCEPT ![t] = c.do = "read_wait"]
  /\ UNCHANGED <<up, mutex, axis, lis, srf, heard, busy, begun, switched>>

\* Its 6 ms are enough for any measure asked for before them.
Wake(t) ==
  /\ pc[t] = "asleep" /\ (alone[t] => "measure" \notin busy)
  /\ Goto(t, "enter")
  /\ UNCHANGED <<up, mutex, op, axis, lis, srf, heard, hmc, begun, switched>>

\* The first step of an operation under the mutex of its sensor.
First(o) ==
  CASE o \in {"read", "calib"} -> "status"
    [] o = "init_3axis" -> "whoami"
    [] o = "get_echo" -> "hear"
    [] OTHER -> "command"

Acquire(t, label) ==
  /\ CanAcquire(mutex[op[t].on], t)
  /\ mutex' = [mutex EXCEPT ![op[t].on] = Acquired(@, t)]
  /\ Goto(t, label)

\* Mutant of Enter: the operations do not take the mutex of the sensor.
EnterUnlocked(t) ==
  /\ pc[t] = "enter" /\ Goto(t, First(op[t].do))
  /\ begun' = [begun EXCEPT ![t] = ~ranging]
  /\ UNCHANGED <<up, mutex, op, axis, lis, srf, heard, hmc, switched>>

Enter(t) ==
  /\ pc[t] = "enter" /\ Acquire(t, First(op[t].do))
  /\ begun' = [begun EXCEPT ![t] = ~ranging]
  /\ UNCHANGED <<up, op, axis, lis, srf, heard, hmc, switched>>

\* The commands after which the compass needs time, waited for under the mutex, and
\* those that have it measure: HMC6352_CMD_GETDATA gives the last measure and starts
\* the next.
Slow == {"exit_calibration", "wakeup"}
Measuring == {"read_nowait", "read_wait"}

\* A shot: the sonar listens, and what was the last shot is an older one now.
Fired ==
  /\ ranging' = TRUE /\ echo' = "older"
  /\ heard' = [t \in Task |-> [i \in 1..2 |->
                 IF heard[t][i] = "last" THEN "older" ELSE heard[t][i]]]

Commanded(do) ==
  /\ busy' = busy \cup (IF do \in Slow THEN {"command"} ELSE {})
                    \cup (IF do \in Measuring THEN {"measure"} ELSE {})
  /\ alone' = [t \in Task |-> alone[t] /\ do \notin Measuring]

\* Mutant of Command: the mutex is released before the compass is back.
CommandNoWait(t) ==
  /\ pc[t] = "command"
  /\ \E ok \in BOOLEAN :
       /\ IF ok /\ op[t].do = "fire" THEN Fired ELSE UNCHANGED <<srf, heard>>
       /\ powered' = (powered /\ ~(ok /\ op[t].do = "poweroff"))
       /\ IF ok THEN Commanded(op[t].do) ELSE UNCHANGED hmc
  /\ Goto(t, "leave")
  /\ UNCHANGED <<up, mutex, op, axis, acc, cal, begun, switched>>

\* An operation that is one bus call: the call of the bus, whose failure few of them
\* report, then the wait for the compass.  hmc6532_idcheck, given no byte to compare,
\* refuses every compass, so it is all there is of the init functions; the size that
\* srf08_get_light swaps with the register is refused before the bus is used.
Command(t) ==
  /\ pc[t] = "command"
  /\ \E ok \in BOOLEAN :
       /\ IF ok /\ op[t].do = "fire" THEN Fired ELSE UNCHANGED <<srf, heard>>
       /\ powered' = (powered /\ ~(ok /\ op[t].do = "poweroff"))
       /\ IF ok THEN Commanded(op[t].do) ELSE UNCHANGED hmc
  /\ Goto(t, IF op[t].do \in Slow THEN "settle" ELSE "leave")
  /\ UNCHANGED <<up, mutex, op, axis, acc, cal, begun, switched>>

\* __usleep, long enough for the compass to be back from the command.
Settle(t) ==
  /\ pc[t] = "settle"
  /\ busy' = busy \ {"command"}
  /\ Goto(t, "leave")
  /\ UNCHANGED <<up, mutex, op, axis, lis, srf, heard, alone, begun, switched>>

\* A measure is over, at the latest after the 6 ms of Wake.
MeasureEnds ==
  /\ "measure" \in busy
  /\ busy' = busy \ {"measure"}
  /\ UNCHANGED <<up, mutex, pc, op, axis, lis, srf, heard, alone, begun, switched>>

-----------------------------------------------------------------------------
\* lis3lv02dl_init_3axis: two sections, the first that of lis3lv02dl_id_check.

\* Another identity, or a failed read, ends the call: -ENODEV.
Whoami(t) ==
  /\ pc[t] = "whoami"
  /\ \E match \in BOOLEAN : Goto(t, IF match THEN "identified" ELSE "leave")
  /\ UNCHANGED <<up, mutex, op, axis, lis, srf, heard, hmc, begun, switched>>

Identified(t) ==
  /\ pc[t] = "identified"
  /\ mutex' = [mutex EXCEPT !["lis"] = Released(@, t)]
  /\ Goto(t, "again")
  /\ UNCHANGED <<up, op, axis, lis, srf, heard, hmc, begun, switched>>

\* Mutant of Again: the check and the configuration share no mutex.
AgainUnlocked(t) ==
  /\ pc[t] = "again" /\ Goto(t, "power")
  /\ UNCHANGED <<up, mutex, op, axis, lis, srf, heard, hmc, begun, switched>>

Again(t) ==
  /\ pc[t] = "again" /\ Acquire(t, "power")
  /\ UNCHANGED <<up, op, axis, lis, srf, heard, hmc, begun, switched>>

\* Mutant of Power: a failed power-up returns with the mutex held.
PowerReturns(t) ==
  /\ pc[t] = "power"
  /\ \E ok \in BOOLEAN :
       /\ powered' = (powered \/ ok) /\ switched' = [switched EXCEPT ![t] = ok]
       /\ Goto(t, IF ok THEN "scale" ELSE "return")
  /\ UNCHANGED <<up, mutex, op, axis, acc, cal, srf, heard, hmc, begun>>

\* When the power-up fails, the release hides it: init_3axis returns 0, as it does
\* when the scale cannot be set.
Power(t) ==
  /\ pc[t] = "power"
  /\ \E ok \in BOOLEAN :
       /\ powered' = (powered \/ ok) /\ switched' = [switched EXCEPT ![t] = ok]
       /\ Goto(t, IF ok THEN "scale" ELSE "leave")
  /\ UNCHANGED <<up, mutex, op, axis, acc, cal, srf, heard, hmc, begun>>

\* The scale, set or not, then the three offsets, which are only logged.
Scale(t) ==
  /\ pc[t] = "scale"
  /\ Goto(t, "leave")
  /\ UNCHANGED <<up, mutex, op, axis, lis, srf, heard, hmc, begun, switched>>

-----------------------------------------------------------------------------
\* lis3lv02dl_read and lis3lv02dl_calib.

\* A status that cannot be read ends the read, which returns 0.
Status(t) ==
  /\ pc[t] = "status"
  /\ \E ok \in BOOLEAN : Goto(t, IF ok THEN "store" ELSE "leave")
  /\ UNCHANGED <<up, mutex, op, axis, lis, srf, heard, hmc, begun, switched>>

\* On to the next axis, or back to the first one and to the label that follows.
NextAxis(t, label) ==
  /\ axis' = [axis EXCEPT ![t] = (@ + 1) % 3]
  /\ IF axis[t] = 2 THEN Goto(t, label) ELSE UNCHANGED pc

\* Six i2c_get, whose errors are taken for bytes, then the fields one by one.
Store(t) ==
  /\ pc[t] = "store"
  /\ acc' = [acc EXCEPT ![axis[t]] = t]
  /\ NextAxis(t, "leave")
  /\ UNCHANGED <<up, mutex, op, cal, powered, srf, heard, hmc, begun, switched>>

\* The calibration is copied once the read has released the mutex, and even when it
\* has read nothing.
Copy(t) ==
  /\ pc[t] = "copy"
  /\ cal' = [cal EXCEPT ![axis[t]] = acc[axis[t]]]
  /\ NextAxis(t, "return")
  /\ UNCHANGED <<up, mutex, op, acc, powered, srf, heard, hmc, begun, switched>>

-----------------------------------------------------------------------------
\* srf08_get_echo: two i2c_get, whose errors are shifted into the value.  The
\* compiler chooses which of the two, high or low byte, is called first.

HearByte(t, half, label) ==
  /\ heard' \in {heard, [heard EXCEPT ![t][half] = echo]}
  /\ Goto(t, label)
  /\ UNCHANGED <<up, mutex, op, axis, lis, srf, hmc, begun, switched>>

Hear(t) == pc[t] = "hear" /\ HearByte(t, 1, "hear_other")
HearOther(t) == pc[t] = "hear_other" /\ HearByte(t, 2, "leave")

\* The last echo is in: the registers hold those of the last shot.
RangingEnds ==
  /\ ranging
  /\ ranging' = FALSE /\ echo' = "last"
  /\ UNCHANGED <<up, mutex, pc, op, axis, lis, heard, hmc, begun, switched>>

-----------------------------------------------------------------------------
Leave(t) ==
  /\ pc[t] = "leave"
  /\ mutex' = [mutex EXCEPT ![op[t].on] = Released(@, t)]
  /\ Goto(t, IF op[t].do = "calib" THEN "copy" ELSE "return")
  /\ UNCHANGED <<up, op, axis, lis, srf, heard, hmc, begun, switched>>

Return(t) ==
  /\ pc[t] = "return"
  /\ Goto(t, "idle")
  /\ op' = [op EXCEPT ![t] = NoCall]
  /\ heard' = [heard EXCEPT ![t] = <<"none", "none">>]
  /\ begun' = [begun EXCEPT ![t] = FALSE]
  /\ switched' = [switched EXCEPT ![t] = FALSE]
  /\ alone' = [alone EXCEPT ![t] = FALSE]
  /\ UNCHANGED <<up, mutex, axis, lis, srf, busy>>

Step(t) ==
  \/ \E c \in Calls : Call(t, c)
  \/ Wake(t) \/ Enter(t) \/ Command(t) \/ Settle(t) \/ Leave(t) \/ Return(t)
  \/ Whoami(t) \/ Identified(t) \/ Again(t) \/ Power(t) \/ Scale(t)
  \/ Status(t) \/ Store(t) \/ Copy(t)
  \/ Hear(t) \/ HearOther(t)

Next ==
  \/ Start \/ Clean \/ RangingEnds \/ MeasureEnds
  \/ \E t \in Task : Step(t)

Spec == Init /\ [][Next]_vars

-----------------------------------------------------------------------------
InsideLabels == {"command", "settle", "leave", "whoami", "identified", "power", "scale",
                 "status", "store", "hear", "hear_other"}
Labels == InsideLabels \cup {"idle", "asleep", "enter", "again", "copy", "return"}

TypeOK ==
  /\ up \in BOOLEAN
  /\ mutex \in [Sensor -> Mutexes]
  /\ pc \in [Task -> Labels] /\ op \in [Task -> Calls \cup {NoCall}]
  /\ axis \in [Task -> Axis]
  /\ begun \in [Task -> BOOLEAN] /\ switched \in [Task -> BOOLEAN]
  /\ busy \subseteq {"command", "measure"} /\ alone \in [Task -> BOOLEAN]
  /\ acc \in [Axis -> Task \cup {NoTask}] /\ cal \in [Axis -> Task \cup {NoTask}]
  /\ powered \in BOOLEAN /\ ranging \in BOOLEAN
  /\ echo \in Shot /\ heard \in [Task -> [1..2 -> Heard]]

Inside(t, s) == pc[t] \in InsideLabels /\ op[t].on = s

\* Every way out of an operation, the error ones included, releases the mutex:
\* the owner of a sensor is inside one of its sections.
OwnedInside ==
  up => \A s \in Sensor, t \in Task : (mutex[s].owner = t) = Inside(t, s)

\* The acceleration on the three axes comes from one read, whoever reads: the
\* fields agree whenever nobody is inside a section.
AccelerationOfOneRead ==
  (\A t \in Task : ~Inside(t, "lis")) => \A a, b \in Axis : acc[a] = acc[b]

\* An echo read when the sonar was at rest is the echo of one shot, the last: no
\* other task fires between its two bytes.
EchoOfOneShot ==
  \A t \in Task :
    pc[t] = "leave" /\ op[t].do = "get_echo" /\ begun[t] =>
      \A i \in 1..2 : heard[t][i] \in {"last", "none"}

\* The compass is back from its last command when the next one reaches it; and a
\* read that has waited finds it measuring only when another task asked it to since
\* the wait began, which the wait, outside the mutex, cannot see.
CompassSettles ==
  \A t \in Task : pc[t] = "command" /\ op[t].on = "hmc" =>
    /\ "command" \notin busy
    /\ op[t].do = "read_wait" /\ "measure" \in busy => ~alone[t]

\* An init_3axis whose power-up went through ends with the accelerometer on, whoever
\* powers it off around its two sections, and whatever becomes of the scale.
InitPowersUp ==
  \A t \in Task :
    pc[t] = "leave" /\ op[t].do = "init_3axis" /\ switched[t] => powered

-----------------------------------------------------------------------------
\* "This function is thread-safe": a calibration is that of one read, once
\* every field of it has been read.
CalibrationOfOneRead ==
  (\A t \in Task : op[t].do # "calib") /\ (\A a \in Axis : cal[a] # NoTask) =>
    \A a, b \in Axis : cal[a] = cal[b]
=============================================================================
