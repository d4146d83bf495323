---------------------------- MODULE SensorsProofs -----------------------------
(***************************************************************************)
(* Proofs about Sensors, for any number of tasks.                          *)
(***************************************************************************)
EXTENDS Sensors, TLAPS

USE TaskAssumption

-----------------------------------------------------------------------------
\* The owner of a sensor is the one task inside a section of it, once.
LockInv ==
  /\ \A s \in Sensor :
       mutex[s] = Free \/ (mutex[s].owner \in Task /\ Inside(mutex[s].owner, s))
  /\ \A t \in Task, s \in Sensor :
       Inside(t, s) => mutex[s] = [owner |-> t, depth |-> 1]

\* A task is in a call only while the program is up, and where its call takes it.
CallInv ==
  \A t \in Task :
    pc[t] # "idle" =>
      /\ up /\ op[t] \in Calls
      /\ pc[t] \in {"status", "store"} => op[t].do \in {"read", "calib"}
      /\ pc[t] = "copy" => op[t].do = "calib"
      /\ pc[t] \in {"whoami", "identified", "again", "power", "scale"} =>
           op[t].do = "init_3axis"
      /\ pc[t] \in {"hear", "hear_other"} => op[t].do = "get_echo"
      /\ pc[t] = "command" =>
           op[t].do \notin {"read", "calib", "init_3axis", "get_echo"}
      /\ pc[t] = "settle" => op[t].do \in Slow
      /\ pc[t] = "asleep" => op[t].do = "read_wait"

\* The axes before the one a reader is at are those of its read, and the three
\* are of one read once no reader is between them.
ReadInv ==
  /\ \A t \in Task : pc[t] \notin {"store", "copy"} => axis[t] = 0
  /\ \A t \in Task : pc[t] = "store" => \A a \in Axis : a < axis[t] => acc[a] = t
  /\ (\A t \in Task : pc[t] # "store") => \A a, b \in Axis : acc[a] = acc[b]

\* The registers of a sonar at rest hold the last shot, and it stays at rest while
\* a task that found it so reads them.
Hearing(t) ==
  pc[t] \in {"hear", "hear_other", "leave"} /\ op[t].do = "get_echo" /\ begun[t]

EchoInv ==
  /\ ~ranging => echo = "last"
  /\ \A t \in Task : Hearing(t) => ~ranging
  /\ \A t \in Task :
       /\ Hearing(t) => \A i \in 1..2 : heard[t][i] \in {"last", "none"}
       /\ pc[t] \in {"idle", "asleep", "enter"} => \A i \in 1..2 : heard[t][i] = "none"

\* A compass that is not back is waited for by the task that commanded it.
SettleInv == "command" \in busy => \E t \in Task : pc[t] = "settle"

\* A wait has been long enough unless a measure was asked for since it began.
WaitInv ==
  \A t \in Task :
    pc[t] \in {"enter", "command"} /\ op[t].do = "read_wait" /\ alone[t] =>
      "measure" \notin busy

\* From the power-up on, the accelerometer is on until the section is left.
PowerInv ==
  \A t \in Task : switched[t] =>
    /\ pc[t] \in {"scale", "leave", "return"} /\ op[t].do = "init_3axis"
    /\ pc[t] # "return" => powered

IInv ==
  /\ TypeOK /\ LockInv /\ CallInv
  /\ ReadInv /\ EchoInv /\ SettleInv /\ WaitInv /\ PowerInv

-----------------------------------------------------------------------------
\* The labels of the calls, listed.
LEMMA Labelling ==
  /\ Labels = {"command", "settle", "leave", "whoami", "identified", "power", "scale",
               "status", "store", "hear", "hear_other", "idle", "asleep", "enter",
               "again", "copy", "return"}
  /\ InsideLabels = {"command", "settle", "leave", "whoami", "identified", "power",
                     "scale", "status", "store", "hear", "hear_other"}
BY DEF Labels, InsideLabels

\* An operation is on one of the sensors.
LEMMA CallType ==
  ASSUME NEW c \in Calls
  PROVE  \/ c.on = "lis" /\ c.do \in {"read", "calib", "init_3axis", "poweroff"}
         \/ c.on = "srf" /\ c.do \in {"get_echo", "get_light", "fire"}
         \/ c.on = "hmc" /\ c.do \in {"init", "read_nowait", "read_wait", "enter_calibration",
                                      "exit_calibration", "sleep", "wakeup"}
BY DEF Calls, Sensor, OpsOf

\* The first step of an operation is inside its section.
LEMMA FirstStep ==
  ASSUME NEW c \in Calls
  PROVE  /\ First(c.do) \in {"status", "whoami", "hear", "command"}
         /\ First(c.do) = "status" => c.do \in {"read", "calib"}
         /\ First(c.do) = "whoami" => c.do = "init_3axis"
         /\ First(c.do) = "hear" => c.do = "get_echo"
         /\ First(c.do) = "command" =>
              c.do \notin {"read", "calib", "init_3axis", "get_echo"}
BY CallType DEF First

\* Acquiring and releasing give mutexes; the mutex held once is freed.
LEMMA MutexType ==
  ASSUME NEW m \in Mutexes, NEW t \in Task
  PROVE  /\ Acquired(m, t) \in Mutexes /\ Released(m, t) \in Mutexes
         /\ m = [owner |-> t, depth |-> 1] => m # Free /\ Released(m, t) = Free
         /\ m = Free => Acquired(m, t) = [owner |-> t, depth |-> 1]
BY DEF Mutexes, Acquired, Released, Free

\* A step of a task leaves the others alone, but for a shot they may have heard.
LEMMA Frame ==
  ASSUME TypeOK, NEW t \in Task, Step(t)
  PROVE  /\ \A u \in Task : u # t =>
              UNCHANGED <<pc[u], op[u], axis[u], begun[u], switched[u]>>
         /\ up' = up
<1>typ. /\ pc \in [Task -> Labels] /\ op \in [Task -> Calls \cup {NoCall}]
        /\ axis \in [Task -> Axis]
        /\ begun \in [Task -> BOOLEAN] /\ switched \in [Task -> BOOLEAN]
  BY DEF TypeOK
<1> USE DEF Goto
<1>1. up' = up /\ \A u \in Task : u # t => pc'[u] = pc[u]
  BY <1>typ DEF Step, Call, Wake, Enter, Acquire, Command, Settle, Leave, Return, Whoami,
     Identified, Again, Power, Scale, Status, Store, Copy, Hear, HearOther, NextAxis,
     HearByte
<1>2. \A u \in Task : u # t => op'[u] = op[u]
  BY <1>typ DEF Step, Call, Wake, Enter, Command, Settle, Leave, Return, Whoami,
     Identified, Again, Power, Scale, Status, Store, Copy, Hear, HearOther, HearByte
<1>3. \A u \in Task : u # t => axis'[u] = axis[u]
  BY <1>typ DEF Step, Call, Wake, Enter, Command, Settle, Leave, Return, Whoami,
     Identified, Again, Power, Scale, Status, Store, Copy, Hear, HearOther, NextAxis,
     HearByte
<1>4. \A u \in Task : u # t => switched'[u] = switched[u]
  BY <1>typ DEF Step, Call, Wake, Enter, Command, Settle, Leave, Return, Whoami,
     Identified, Again, Power, Scale, Status, Store, Copy, Hear, HearOther, HearByte
<1>5. \A u \in Task : u # t => begun'[u] = begun[u]
  BY <1>typ DEF Step, Call, Wake, Enter, Command, Settle, Leave, Return, Whoami,
     Identified, Again, Power, Scale, Status, Store, Copy, Hear, HearOther, HearByte
<1>6. QED
  BY <1>1, <1>2, <1>3, <1>4, <1>5

\* No two tasks are inside sections of the same sensor.
LEMMA Alone ==
  ASSUME LockInv, NEW t \in Task, NEW u \in Task, NEW s \in Sensor,
         Inside(t, s), Inside(u, s)
  PROVE  t = u
<1>1. mutex[s] = [owner |-> t, depth |-> 1] /\ mutex[s] = [owner |-> u, depth |-> 1]
  BY DEF LockInv
<1>2. QED
  BY <1>1

\* The steps other than those of the tasks leave the calls alone.
LEMMA Outside ==
  ASSUME IInv, Start \/ Clean \/ RangingEnds \/ MeasureEnds \/ UNCHANGED vars
  PROVE  /\ UNCHANGED <<pc, op, axis, acc, cal, heard, begun, switched, alone>>
         /\ mutex' = mutex \/ (mutex' = [s \in Sensor |-> Free] /\ Quiet)
         /\ (up' = up /\ powered' = powered) \/ Quiet
         /\ (ranging' = ranging /\ echo' = echo) \/ (~ranging' /\ echo' = "last")
         /\ busy' = busy \/ busy' = busy \ {"measure"}
BY DEF Start, Clean, RangingEnds, MeasureEnds, vars, lis, srf, hmc

\* A shot turns the bytes of the last one into bytes of an older one.
LEMMA FiredType ==
  ASSUME heard \in [Task -> [1..2 -> Heard]], Fired
  PROVE  heard' \in [Task -> [1..2 -> Heard]]
BY DEF Fired, Heard, Shot

-----------------------------------------------------------------------------
\* Every step keeps the types.
LEMMA TypeStep ==
  ASSUME IInv, [Next]_vars
  PROVE  TypeOK'
<1>typ. /\ up \in BOOLEAN
        /\ mutex \in [Sensor -> Mutexes]
        /\ pc \in [Task -> Labels] /\ op \in [Task -> Calls \cup {NoCall}]
        /\ axis \in [Task -> Axis]
        /\ begun \in [Task -> BOOLEAN] /\ switched \in [Task -> BOOLEAN]
        /\ busy \subseteq {"command", "measure"} /\ alone \in [Task -> BOOLEAN]
        /\ acc \in [Axis -> Task \cup {NoTask}] /\ cal \in [Axis -> Task \cup {NoTask}]
        /\ powered \in BOOLEAN /\ ranging \in BOOLEAN
        /\ echo \in Shot /\ heard \in [Task -> [1..2 -> Heard]]
  BY DEF IInv, TypeOK
<1>call. \A t \in Task : pc[t] # "idle" => op[t] \in Calls /\ op[t].on \in Sensor
  BY CallType DEF IInv, CallInv, Sensor
<1>1. CASE Start \/ Clean \/ RangingEnds \/ MeasureEnds \/ UNCHANGED vars
  <2>1. UNCHANGED <<pc, op, axis, acc, cal, heard, begun, switched, alone>>
    BY <1>1, Outside
  <2>2. up' \in BOOLEAN /\ powered' \in BOOLEAN /\ ranging' \in BOOLEAN
    BY <1>1, <1>typ DEF Start, Clean, RangingEnds, MeasureEnds, vars, lis, srf
  <2>3. mutex' \in [Sensor -> Mutexes]
    BY <1>1, <1>typ, Outside DEF Free, Mutexes
  <2>4. echo' \in Shot /\ busy' \subseteq {"command", "measure"}
    BY <1>1, <1>typ, Outside DEF Shot
  <2>5. QED
    BY <1>typ, <2>1, <2>2, <2>3, <2>4 DEF TypeOK
<1>2. ASSUME NEW t \in Task, Step(t) PROVE TypeOK'
  <2> USE DEF Step, Goto
  <2>1. up' \in BOOLEAN
    BY <1>2, <1>typ, Frame DEF IInv
  <2>2. mutex' \in [Sensor -> Mutexes]
    <3>1. CASE mutex' = mutex
      BY <1>typ, <3>1
    <3>2. CASE Enter(t) \/ Again(t)
      <4>1. op[t].on \in Sensor
        BY <3>2, <1>call DEF Enter, Again
      <4>2. Acquired(mutex[op[t].on], t) \in Mutexes
        BY <4>1, <1>typ, MutexType
      <4>3. mutex' = [mutex EXCEPT ![op[t].on] = Acquired(mutex[op[t].on], t)]
        BY <3>2, <4>1, <1>typ DEF Enter, Again, Acquire
      <4>4. QED
        BY <4>1, <4>2, <4>3, <1>typ
    <3>3. CASE Leave(t)
      BY <3>3, <1>call, <1>typ, MutexType DEF Leave
    <3>4. CASE Identified(t)
      BY <3>4, <1>typ, MutexType DEF Identified, Sensor
    <3>5. QED
      BY <1>2, <3>1, <3>2, <3>3, <3>4 DEF Call, Wake, Command, Settle, Return, Whoami, Power,
         Scale, Status, Store, Copy, Hear, HearOther, HearByte
  <2>3. pc' \in [Task -> Labels]
    <3>1. CASE Enter(t)
      <4>1. First(op[t].do) \in Labels
        BY <3>1, <1>call, FirstStep, Labelling DEF Enter
      <4>2. QED
        BY <3>1, <4>1, <1>typ DEF Enter, Acquire
    <3>2. CASE ~Enter(t)
      BY <1>2, <3>2, <1>typ, Labelling
         DEF Call, Wake, Acquire, Command, Settle, Leave, Return, Whoami, Identified, Again,
             Power, Scale, Status, Store, Copy, Hear, HearOther, NextAxis, HearByte
    <3>3. QED
      BY <3>1, <3>2
  <2>4. op' \in [Task -> Calls \cup {NoCall}]
    <3>1. UNCHANGED op \/ \E c \in Calls \cup {NoCall} : op' = [op EXCEPT ![t] = c]
      BY <1>2 DEF Call, Wake, Enter, Command, Settle, Leave, Return, Whoami, Identified,
         Again, Power, Scale, Status, Store, Copy, Hear, HearOther, HearByte
    <3>2. QED
      BY <3>1, <1>typ
  <2>5. axis' \in [Task -> Axis]
    <3>1. ASSUME NEW a \in Axis PROVE (a + 1) % 3 \in Axis
      BY DEF Axis
    <3>2. QED
      BY <1>2, <3>1, <1>typ DEF Call, Wake, Enter, Command, Settle, Leave, Return, Whoami,
         Identified, Again, Power, Scale, Status, Store, Copy, Hear, HearOther, NextAxis,
         HearByte
  <2>6. switched' \in [Task -> BOOLEAN]
    <3>1. UNCHANGED switched \/ \E f \in BOOLEAN : switched' = [switched EXCEPT ![t] = f]
      BY <1>2 DEF Call, Wake, Enter, Command, Settle, Leave, Return, Whoami,
         Identified, Again, Power, Scale, Status, Store, Copy, Hear, HearOther, HearByte
    <3>2. QED
      BY <3>1, <1>typ
  <2>7. begun' \in [Task -> BOOLEAN]
    <3>1. UNCHANGED begun \/ \E f \in BOOLEAN : begun' = [begun EXCEPT ![t] = f]
      BY <1>2 DEF Call, Wake, Enter, Command, Settle, Leave, Return, Whoami,
         Identified, Again, Power, Scale, Status, Store, Copy, Hear, HearOther, HearByte
    <3>2. QED
      BY <3>1, <1>typ
  <2>8. acc' \in [Axis -> Task \cup {NoTask}] /\ cal' \in [Axis -> Task \cup {NoTask}]
    BY <1>2, <1>typ DEF Call, Wake, Enter, Command, Settle, Leave, Return, Whoami, Identified,
       Again, Power, Scale, Status, Store, Copy, Hear, HearOther, HearByte, lis
  <2>9. powered' \in BOOLEAN
    BY <1>2, <1>typ DEF Call, Wake, Enter, Command, Settle, Leave, Return, Whoami, Identified,
       Again, Power, Scale, Status, Store, Copy, Hear, HearOther, HearByte, lis
  <2>10. ranging' \in BOOLEAN /\ echo' \in Shot
    BY <1>2, <1>typ DEF Call, Wake, Enter, Command, Settle, Leave, Return, Whoami, Identified,
       Again, Power, Scale, Status, Store, Copy, Hear, HearOther, HearByte, srf, Fired,
       Shot
  <2>11. heard' \in [Task -> [1..2 -> Heard]]
    <3>1. CASE UNCHANGED heard
      BY <1>typ, <3>1
    <3>2. CASE Fired
      BY <1>typ, <3>2, FiredType
    <3>3. CASE Hear(t) \/ HearOther(t)
      <4>1. echo \in Heard
        BY <1>typ DEF Heard
      <4>2. heard' = heard \/ \E h \in 1..2 : heard' = [heard EXCEPT ![t][h] = echo]
        BY <3>3 DEF Hear, HearOther, HearByte
      <4>3. ASSUME NEW h \in 1..2, heard' = [heard EXCEPT ![t][h] = echo]
            PROVE  heard' \in [Task -> [1..2 -> Heard]]
        <5>1. [heard[t] EXCEPT ![h] = echo] \in [1..2 -> Heard]
          BY <4>1, <1>typ
        <5>2. QED
          BY <4>3, <5>1, <1>typ
      <4>4. QED
        BY <4>2, <4>3, <1>typ
    <3>4. CASE Return(t)
      <4>1. <<"none", "none">> \in [1..2 -> Heard]
        BY DEF Heard
      <4>2. QED
        BY <3>4, <4>1, <1>typ DEF Return
    <3>5. QED
      BY <1>2, <3>1, <3>2, <3>3, <3>4 DEF Call, Wake, Enter, Command, Settle, Leave, Whoami,
         Identified, Again, Power, Scale, Status, Store, Copy
  <2>12. busy' \subseteq {"command", "measure"}
    <3>1. CASE Command(t)
      BY <3>1, <1>typ DEF Command, Commanded, hmc
    <3>2. CASE ~Command(t)
      <4>1. busy' = busy \/ busy' = busy \ {"command"}
        BY <1>2, <3>2 DEF Call, Wake, Enter, Settle, Leave, Return, Whoami, Identified,
           Again, Power, Scale, Status, Store, Copy, Hear, HearOther, HearByte, hmc
      <4>2. QED
        BY <4>1, <1>typ
    <3>3. QED
      BY <3>1, <3>2
  <2>13. alone' \in [Task -> BOOLEAN]
    <3>1. CASE Command(t)
      <4>1. alone' = alone \/
              alone' = [u \in Task |-> alone[u] /\ op[t].do \notin Measuring]
        BY <3>1 DEF Command, Commanded, hmc
      <4>2. QED
        BY <4>1, <1>typ
    <3>2. CASE ~Command(t)
      <4>1. UNCHANGED alone \/ \E f \in BOOLEAN : alone' = [alone EXCEPT ![t] = f]
        BY <1>2, <3>2 DEF Call, Wake, Enter, Settle, Leave, Return, Whoami, Identified,
           Again, Power, Scale, Status, Store, Copy, Hear, HearOther, HearByte, hmc
      <4>2. QED
        BY <4>1, <1>typ
    <3>3. QED
      BY <3>1, <3>2
  <2>14. QED
    BY <2>1, <2>2, <2>3, <2>4, <2>5, <2>6, <2>7, <2>8, <2>9, <2>10, <2>11, <2>12, <2>13
       DEF TypeOK
<1>3. QED
  BY <1>1, <1>2 DEF Next

\* Where a call stands tells its operation.
LEMMA CallStep ==
  ASSUME IInv, [Next]_vars
  PROVE  CallInv'
<1>inv. TypeOK /\ CallInv
  BY DEF IInv
<1>1. CASE Start \/ Clean \/ RangingEnds \/ MeasureEnds \/ UNCHANGED vars
  <2>1. UNCHANGED <<pc, op>> /\ (up' = up \/ \A t \in Task : pc[t] = "idle")
    BY <1>1, Outside DEF Quiet
  <2>2. QED
    BY <2>1, <1>inv DEF CallInv
<1>2. ASSUME NEW t \in Task, Step(t) PROVE CallInv'
  <2>typ. /\ pc \in [Task -> Labels] /\ op \in [Task -> Calls \cup {NoCall}]
          /\ axis \in [Task -> Axis]
    BY <1>inv DEF TypeOK
  <2>1. (\A u \in Task : u # t => UNCHANGED <<pc[u], op[u]>>) /\ up' = up
    BY <1>2, <1>inv, Frame
  <2>2. ASSUME pc'[t] # "idle"
        PROVE  /\ up /\ op'[t] \in Calls
               /\ pc'[t] \in {"status", "store"} => op'[t].do \in {"read", "calib"}
               /\ pc'[t] = "copy" => op'[t].do = "calib"
               /\ pc'[t] \in {"whoami", "identified", "again", "power", "scale"} =>
                    op'[t].do = "init_3axis"
               /\ pc'[t] \in {"hear", "hear_other"} => op'[t].do = "get_echo"
               /\ pc'[t] = "command" =>
                    op'[t].do \notin {"read", "calib", "init_3axis", "get_echo"}
               /\ pc'[t] = "settle" => op'[t].do \in Slow
               /\ pc'[t] = "asleep" => op'[t].do = "read_wait"
    <3>1. CASE \E c \in Calls : Call(t, c)
      BY <3>1, <2>typ DEF Call, Goto
    <3>2. CASE ~\E c \in Calls : Call(t, c)
      <4>1. pc[t] # "idle" /\ (op' = op \/ pc'[t] = "idle")
        BY <1>2, <3>2, <2>typ DEF Step, Wake, Enter, Command, Settle, Leave, Return, Whoami,
           Identified, Again, Power, Scale, Status, Store, Copy, Hear, HearOther,
           HearByte, Goto
      <4>2. /\ up /\ op[t] \in Calls /\ op'[t] = op[t]
        BY <4>1, <2>2, <1>inv DEF CallInv
      <4>3. CASE Enter(t)
        <5>1. pc'[t] = First(op[t].do)
          BY <4>3, <2>typ DEF Enter, Acquire, Goto
        <5>2. QED
          BY <4>2, <5>1, FirstStep
      <4>4. CASE Wake(t) \/ Command(t) \/ Settle(t) \/ Leave(t) \/ Return(t)
        BY <4>2, <4>4, <2>2, <2>typ DEF Wake, Command, Settle, Leave, Return, Goto
      <4>5. CASE Whoami(t) \/ Identified(t) \/ Again(t) \/ Power(t) \/ Scale(t)
        <5>1. op[t].do = "init_3axis"
          BY <4>5, <1>inv DEF Whoami, Identified, Again, Power, Scale, CallInv
        <5>2. pc'[t] \in {"identified", "return", "again", "power", "scale", "leave"}
          BY <4>5, <2>typ DEF Whoami, Identified, Again, Power, Scale, Acquire, Goto
        <5>3. QED
          BY <4>2, <5>1, <5>2
      <4>6. CASE Status(t) \/ Store(t) \/ Copy(t)
        <5>1. op[t].do \in {"read", "calib"} /\ (Copy(t) => op[t].do = "calib")
          BY <4>6, <1>inv DEF Status, Store, Copy, CallInv
        <5>2. \/ pc'[t] \in {"store", "leave", "return"}
              \/ pc'[t] = "copy" /\ Copy(t)
          BY <4>6, <2>typ DEF Status, Store, Copy, NextAxis, Goto
        <5>3. QED
          BY <4>2, <5>1, <5>2
      <4>7. CASE Hear(t) \/ HearOther(t)
        <5>1. op[t].do = "get_echo" /\ pc'[t] \in {"hear_other", "leave"}
          BY <4>7, <2>typ, <1>inv DEF Hear, HearOther, HearByte, Goto, CallInv
        <5>2. QED
          BY <4>2, <5>1
      <4>8. QED
        BY <1>2, <3>2, <4>3, <4>4, <4>5, <4>6, <4>7 DEF Step
    <3>3. QED
      BY <3>1, <3>2
  <2>3. QED
    BY <2>1, <2>2, <1>inv DEF CallInv
<1>3. QED
  BY <1>1, <1>2 DEF Next

-----------------------------------------------------------------------------
\* A task that enters a section of a free sensor owns it ...
LEMMA Entering ==
  ASSUME TypeOK, LockInv, NEW t \in Task, NEW s \in Sensor, op[t].on = s,
         pc[t] \notin InsideLabels, NEW l \in InsideLabels,
         Acquire(t, l), op' = op
  PROVE  LockInv'
<1>typ. /\ pc \in [Task -> Labels] /\ mutex \in [Sensor -> Mutexes]
  BY DEF TypeOK
<1>1. mutex[s] = Free
  BY DEF Acquire, CanAcquire, LockInv, Inside
<1>2. mutex' = [mutex EXCEPT ![s] = [owner |-> t, depth |-> 1]]
  BY <1>1, <1>typ DEF Acquire, Acquired, Free
<1>3. \A u \in Task, r \in Sensor :
        Inside(u, r)' <=> Inside(u, r) \/ (u = t /\ r = s)
  BY <1>typ DEF Acquire, Goto, Inside
<1>4. \A u \in Task : ~Inside(u, s)
  <2> SUFFICES ASSUME NEW u \in Task, Inside(u, s) PROVE FALSE
    OBVIOUS
  <2>1. mutex[s] = [owner |-> u, depth |-> 1]
    BY DEF LockInv
  <2>2. QED
    BY <1>1, <2>1 DEF Free
<1>5. ASSUME NEW r \in Sensor
      PROVE  \/ mutex'[r] = Free
             \/ mutex'[r].owner \in Task /\ Inside(mutex[r].owner, r)'
  <2>1. CASE r = s
    BY <1>2, <1>3, <1>typ, <2>1
  <2>2. CASE r # s
    <3>1. mutex'[r] = mutex[r]
      BY <1>2, <1>typ, <2>2
    <3>2. QED
      BY <1>3, <3>1 DEF LockInv, Inside
  <2>3. QED
    BY <2>1, <2>2
<1>6. ASSUME NEW u \in Task, NEW r \in Sensor, Inside(u, r)'
      PROVE  mutex'[r] = [owner |-> u, depth |-> 1]
  BY <1>2, <1>3, <1>4, <1>6, <1>typ DEF LockInv
<1>7. QED
  BY <1>5, <1>6 DEF LockInv

\* ... and one that leaves it frees it.
LEMMA Leaving ==
  ASSUME TypeOK, LockInv, NEW t \in Task, NEW s \in Sensor, Inside(t, s),
         NEW l \in Labels \ InsideLabels, Goto(t, l), op' = op,
         mutex' = [mutex EXCEPT ![s] = Released(mutex[s], t)]
  PROVE  LockInv'
<1>typ. /\ pc \in [Task -> Labels] /\ mutex \in [Sensor -> Mutexes]
  BY DEF TypeOK
<1>1. mutex' = [mutex EXCEPT ![s] = Free]
  BY <1>typ, MutexType DEF LockInv
<1>2. \A u \in Task, r \in Sensor : Inside(u, r)' <=> Inside(u, r) /\ u # t
  BY <1>typ DEF Goto, Inside
<1>3. \A u \in Task : Inside(u, s) => u = t
  BY Alone
<1>4. \A r \in Sensor : r # s => ~Inside(t, r)
  BY DEF Inside
<1>5. ASSUME NEW r \in Sensor
      PROVE  \/ mutex'[r] = Free
             \/ mutex'[r].owner \in Task /\ Inside(mutex[r].owner, r)'
  <2>1. CASE r = s
    BY <1>1, <1>typ, <2>1
  <2>2. CASE r # s
    <3>1. mutex'[r] = mutex[r]
      BY <1>1, <1>typ, <2>2
    <3>2. CASE mutex[r] = Free
      BY <3>1, <3>2
    <3>3. CASE mutex[r] # Free
      <4>1. mutex[r].owner \in Task /\ Inside(mutex[r].owner, r)
        BY <3>3 DEF LockInv
      <4>2. mutex[r].owner # t
        BY <1>4, <2>2, <4>1
      <4>3. QED
        BY <1>2, <3>1, <4>1, <4>2 DEF Inside
    <3>4. QED
      BY <3>2, <3>3
  <2>3. QED
    BY <2>1, <2>2
<1>6. ASSUME NEW u \in Task, NEW r \in Sensor, Inside(u, r)'
      PROVE  mutex'[r] = [owner |-> u, depth |-> 1]
  <2>1. Inside(u, r) /\ r # s
    BY <1>2, <1>3, <1>6
  <2>2. QED
    BY <1>1, <2>1, <1>typ DEF LockInv
<1>7. QED
  BY <1>5, <1>6 DEF LockInv

\* Every step keeps the sensors with the tasks that are inside.
LEMMA LockStep ==
  ASSUME IInv, [Next]_vars
  PROVE  LockInv'
<1>inv. TypeOK /\ LockInv /\ CallInv
  BY DEF IInv
<1>1. CASE Start \/ Clean \/ RangingEnds \/ MeasureEnds \/ UNCHANGED vars
  <2>1. UNCHANGED <<pc, op>>
    BY <1>1, Outside
  <2>2. CASE mutex' = mutex
    BY <2>1, <2>2, <1>inv DEF LockInv, Inside
  <2>3. CASE mutex' = [s \in Sensor |-> Free] /\ Quiet
    BY <2>1, <2>3, Labelling DEF LockInv, Inside, Quiet
  <2>4. QED
    BY <1>1, <2>2, <2>3, Outside
<1>2. ASSUME NEW t \in Task, Step(t) PROVE LockInv'
  <2>typ. /\ pc \in [Task -> Labels] /\ op \in [Task -> Calls \cup {NoCall}]
          /\ axis \in [Task -> Axis]
    BY <1>inv DEF TypeOK
  <2>1. CASE Enter(t)
    <3>1. op[t] \in Calls /\ op[t].on \in Sensor
      BY <2>1, <1>inv, CallType DEF Enter, CallInv, Sensor
    <3>2. First(op[t].do) \in InsideLabels /\ pc[t] \notin InsideLabels
      BY <2>1, <3>1, FirstStep, Labelling DEF Enter
    <3>3. QED
      BY <2>1, <3>1, <3>2, <1>inv, Entering DEF Enter
  <2>2. CASE Again(t)
    <3>1. op[t] \in Calls /\ op[t].on \in Sensor
      BY <2>2, <1>inv, CallType DEF Again, CallInv, Sensor
    <3>2. "power" \in InsideLabels /\ pc[t] \notin InsideLabels
      BY <2>2, Labelling DEF Again
    <3>3. QED
      BY <2>2, <3>1, <3>2, <1>inv, Entering DEF Again
  <2>3. CASE Leave(t)
    <3>1. op[t].on \in Sensor /\ Inside(t, op[t].on)
      BY <2>3, <1>inv, CallType, Labelling DEF Leave, CallInv, Sensor, Inside
    <3>2. \E l \in Labels \ InsideLabels : Goto(t, l)
      BY <2>3, Labelling DEF Leave
    <3>3. QED
      BY <2>3, <3>1, <3>2, <1>inv, Leaving DEF Leave
  <2>4. CASE Identified(t)
    <3>1. "lis" \in Sensor /\ Inside(t, "lis")
      BY <2>4, <1>inv, CallType, Labelling DEF Identified, CallInv, Sensor, Inside
    <3>2. \E l \in Labels \ InsideLabels : Goto(t, l)
      BY <2>4, Labelling DEF Identified
    <3>3. QED
      BY <2>4, <3>1, <3>2, <1>inv, Leaving DEF Identified
  <2>5. CASE Return(t) \/ Wake(t) \/ \E c \in Calls : Call(t, c)
    <3>1. \A u \in Task, s \in Sensor : Inside(u, s)' <=> Inside(u, s)
      BY <2>5, <2>typ, Labelling DEF Return, Wake, Call, Goto, Inside
    <3>2. mutex' = mutex
      BY <2>5 DEF Return, Wake, Call
    <3>3. QED
      BY <3>1, <3>2, <1>inv DEF LockInv, Inside
  <2>6. CASE \/ Command(t) \/ Settle(t) \/ Whoami(t) \/ Power(t) \/ Scale(t)
             \/ Status(t) \/ Store(t) \/ Copy(t) \/ Hear(t) \/ HearOther(t)
    <3>1. UNCHANGED <<mutex, op>>
      BY <2>6 DEF Command, Settle, Whoami, Power, Scale, Status, Store, Copy, Hear,
         HearOther, HearByte
    <3>2. \A u \in Task, s \in Sensor : Inside(u, s)' <=> Inside(u, s)
      BY <2>6, <2>typ, <3>1, Labelling DEF Command, Settle, Whoami, Power, Scale, Status,
         Store, Copy, Hear, HearOther, HearByte, NextAxis, Goto, Inside
    <3>3. QED
      BY <3>1, <3>2, <1>inv DEF LockInv, Inside
  <2>7. QED
    BY <1>2, <2>1, <2>2, <2>3, <2>4, <2>5, <2>6 DEF Step
<1>3. QED
  BY <1>1, <1>2 DEF Next

-----------------------------------------------------------------------------
\* A task at a label of an operation is inside the section of its sensor.
LEMMA Sections ==
  ASSUME CallInv, NEW t \in Task
  PROVE  /\ "lis" \in Sensor /\ "srf" \in Sensor /\ "hmc" \in Sensor
         /\ pc[t] \in {"status", "store", "power", "scale"} => Inside(t, "lis")
         /\ pc[t] \in {"command", "leave"} /\ op[t].do \in {"init_3axis", "poweroff"} =>
              Inside(t, "lis")
         /\ Hearing(t) => Inside(t, "srf")
         /\ pc[t] = "command" /\ op[t].do = "fire" => Inside(t, "srf")
         /\ pc[t] = "settle" => Inside(t, "hmc")
         /\ pc[t] \in InsideLabels => op[t].on \in Sensor
<1>1. pc[t] \in InsideLabels =>
        op[t] \in Calls /\ op[t].on \in Sensor
  BY CallType, Labelling DEF CallInv, Sensor
<1>2. pc[t] \in {"status", "store", "power", "scale"} =>
        op[t].do \in {"read", "calib", "init_3axis"}
  BY DEF CallInv
<1>3. pc[t] = "settle" => op[t].do \in Slow
  BY DEF CallInv
<1>4. QED
  BY <1>1, <1>2, <1>3, CallType, Labelling DEF Inside, Hearing, Sensor, Slow

\* The fields are written by one reader at a time.
LEMMA ReadStep ==
  ASSUME IInv, [Next]_vars
  PROVE  ReadInv'
<1>inv. TypeOK /\ LockInv /\ CallInv /\ ReadInv
  BY DEF IInv
<1>1. CASE Start \/ Clean \/ RangingEnds \/ MeasureEnds \/ UNCHANGED vars
  BY <1>1, <1>inv, Outside DEF ReadInv
<1>2. ASSUME NEW t \in Task, Step(t) PROVE ReadInv'
  <2>typ. /\ pc \in [Task -> Labels] /\ axis \in [Task -> Axis]
          /\ acc \in [Axis -> Task \cup {NoTask}]
    BY <1>inv DEF TypeOK
  <2>oth. \A u \in Task : u # t => UNCHANGED <<pc[u], axis[u]>>
    BY <1>2, <1>inv, Frame
  <2>1. CASE Store(t)
    <3>1. pc[t] = "store" /\ axis[t] \in Axis
      BY <2>1, <2>typ DEF Store
    <3>2. \A u \in Task : u # t => pc[u] # "store"
      BY <3>1, <1>inv, Sections, Alone
    <3>3. \A a \in Axis : acc'[a] = IF a = axis[t] THEN t ELSE acc[a]
      BY <2>1, <2>typ DEF Store
    <3>4. \A a \in Axis : a < axis[t] => acc[a] = t
      BY <3>1, <1>inv DEF ReadInv
    <3>5. CASE axis[t] = 2
      <4>1. pc'[t] = "leave" /\ axis'[t] = 0
        BY <2>1, <3>5, <2>typ DEF Store, NextAxis, Goto
      <4>2. \A a \in Axis : acc'[a] = t
        BY <3>3, <3>4, <3>5 DEF Axis
      <4>3. QED
        BY <4>1, <4>2, <3>2, <2>oth, <1>inv DEF ReadInv
    <3>6. CASE axis[t] # 2
      <4>1. pc'[t] = "store" /\ axis'[t] = axis[t] + 1
        BY <2>1, <3>1, <3>6, <2>typ DEF Store, NextAxis, Axis
      <4>2. \A a \in Axis : a < axis[t] + 1 => acc'[a] = t
        BY <3>1, <3>3, <3>4 DEF Axis
      <4>3. QED
        BY <4>1, <4>2, <3>2, <2>oth, <1>inv DEF ReadInv
    <3>7. QED
      BY <3>5, <3>6
  <2>2. CASE ~Store(t)
    <3>1. acc' = acc /\ pc[t] # "store"
      BY <1>2, <2>2 DEF Step, Call, Wake, Enter, Command, Settle, Leave, Return, Whoami,
         Identified, Again, Power, Scale, Status, Copy, Hear, HearOther, HearByte, lis
    <3>2. /\ pc'[t] \notin {"store", "copy"} => axis'[t] = 0
          /\ pc'[t] = "store" => axis'[t] = 0
      <4>1. CASE Copy(t)
        BY <4>1, <2>typ DEF Copy, NextAxis, Goto
      <4>2. CASE ~Copy(t)
        <5>1. pc[t] \notin {"store", "copy"} /\ axis' = axis
          BY <1>2, <2>2, <3>1, <4>2 DEF Step, Call, Wake, Enter, Command, Settle, Leave, Return,
             Whoami, Identified, Again, Power, Scale, Status, Hear, HearOther, HearByte
        <5>2. QED
          BY <5>1, <1>inv DEF ReadInv
      <4>3. QED
        BY <4>1, <4>2
    <3>3. \A a \in Axis : ~(a < 0)
      BY DEF Axis
    <3>4. \A u \in Task : pc'[u] \notin {"store", "copy"} => axis'[u] = 0
      BY <2>oth, <3>2, <1>inv DEF ReadInv
    <3>5. ASSUME NEW u \in Task, pc'[u] = "store", NEW a \in Axis, a < axis'[u]
          PROVE  acc'[a] = u
      <4>1. CASE u = t
        BY <3>2, <3>3, <3>5, <4>1
      <4>2. CASE u # t
        BY <2>oth, <3>1, <3>5, <4>2, <1>inv DEF ReadInv
      <4>3. QED
        BY <4>1, <4>2
    <3>6. ASSUME \A u \in Task : pc'[u] # "store"
          PROVE  \A a, b \in Axis : acc'[a] = acc'[b]
      <4>1. \A u \in Task : pc[u] # "store"
        BY <2>oth, <3>1, <3>6
      <4>2. QED
        BY <3>1, <4>1, <1>inv DEF ReadInv
    <3>7. QED
      BY <3>4, <3>5, <3>6 DEF ReadInv
  <2>3. QED
    BY <2>1, <2>2
<1>3. QED
  BY <1>1, <1>2 DEF Next

\* A shot is fired only while nobody reads the echoes of one.
LEMMA EchoStep ==
  ASSUME IInv, [Next]_vars
  PROVE  EchoInv'
<1>inv. TypeOK /\ LockInv /\ CallInv /\ EchoInv
  BY DEF IInv
<1>1. CASE Start \/ Clean \/ RangingEnds \/ MeasureEnds \/ UNCHANGED vars
  BY <1>1, <1>inv, Outside DEF EchoInv, Hearing
<1>2. ASSUME NEW t \in Task, Step(t) PROVE EchoInv'
  <2>typ. /\ pc \in [Task -> Labels] /\ heard \in [Task -> [1..2 -> Heard]]
          /\ op \in [Task -> Calls \cup {NoCall}] /\ begun \in [Task -> BOOLEAN]
    BY <1>inv DEF TypeOK
  <2>oth. \A u \in Task : u # t => UNCHANGED <<pc[u], op[u], begun[u]>>
    BY <1>2, <1>inv, Frame
  <2>hear. \A u \in Task : u # t => (Hearing(u)' <=> Hearing(u))
    BY <2>oth DEF Hearing
  <2>1. CASE Command(t) /\ Fired /\ op[t].do = "fire"
    <3>1. pc[t] = "command" /\ pc'[t] \in {"settle", "leave"} /\ op' = op
      BY <2>1, <2>typ DEF Command, Goto
    <3>2. \A u \in Task : ~Hearing(u)
      BY <2>1, <3>1, <1>inv, Sections, Alone DEF Hearing
    <3>3. \A u \in Task : ~Hearing(u)'
      BY <2>1, <2>hear, <3>1, <3>2 DEF Hearing
    <3>4. ASSUME NEW u \in Task, pc'[u] \in {"idle", "asleep", "enter"}, NEW i \in 1..2
          PROVE  heard'[u][i] = "none"
      <4>1. heard[u][i] = "none"
        BY <2>oth, <3>1, <3>4, <1>inv DEF EchoInv
      <4>2. QED
        BY <2>1, <4>1 DEF Fired
    <3>5. QED
      BY <2>1, <3>3, <3>4 DEF EchoInv, Fired
  <2>2. CASE ~(Command(t) /\ Fired /\ op[t].do = "fire")
    <3>1. ranging' = ranging /\ echo' = echo
      BY <1>2, <2>2 DEF Step, Call, Wake, Enter, Command, Settle, Leave, Return, Whoami,
         Identified, Again, Power, Scale, Status, Store, Copy, Hear, HearOther, HearByte,
         srf
    <3>2. \A u \in Task : u # t => heard'[u] = heard[u]
      <4>1. CASE UNCHANGED heard
        BY <4>1
      <4>2. CASE Hear(t) \/ HearOther(t) \/ Return(t)
        BY <4>2, <2>typ DEF Hear, HearOther, HearByte, Return
      <4>3. CASE Command(t)
        BY <2>2, <4>3 DEF Command
      <4>4. QED
        BY <1>2, <4>1, <4>2, <4>3 DEF Step, Call, Wake, Enter, Settle, Leave, Whoami,
           Identified, Again, Power, Scale, Status, Store, Copy
    <3>3. /\ Hearing(t)' => ~ranging /\ \A i \in 1..2 : heard'[t][i] \in {"last", "none"}
          /\ pc'[t] \in {"idle", "asleep", "enter"} => \A i \in 1..2 : heard'[t][i] = "none"
      <4>1. CASE Wake(t) \/ \E c \in Calls : Call(t, c)
        BY <4>1, <2>typ, <1>inv DEF Wake, Call, Goto, EchoInv, Hearing
      <4>2. CASE Enter(t)
        <5>1. /\ \A i \in 1..2 : heard[t][i] = "none"
              /\ op[t] \in Calls
          BY <4>2, <1>inv DEF Enter, EchoInv, CallInv
        <5>2. begun'[t] = ~ranging /\ heard' = heard /\ pc'[t] = First(op[t].do)
          BY <4>2, <2>typ DEF Enter, Acquire, Goto
        <5>3. QED
          BY <5>1, <5>2, FirstStep DEF Hearing
      <4>3. CASE Hear(t) \/ HearOther(t)
        <5>1. Hearing(t)' => Hearing(t)
          BY <4>3, <1>inv DEF Hear, HearOther, HearByte, Hearing, CallInv
        <5>2. pc'[t] \notin {"idle", "asleep", "enter"}
          BY <4>3, <2>typ DEF Hear, HearOther, HearByte, Goto
        <5>3. ASSUME Hearing(t), NEW i \in 1..2 PROVE heard'[t][i] \in {"last", "none"}
          <6>1. ~ranging /\ echo = "last" /\ heard[t][i] \in {"last", "none"}
            BY <5>3, <1>inv DEF EchoInv
          <6>2. heard' = heard \/ \E h \in {1, 2} : heard' = [heard EXCEPT ![t][h] = echo]
            BY <4>3 DEF Hear, HearOther, HearByte
          <6>3. QED
            BY <6>1, <6>2, <2>typ
        <5>4. QED
          BY <5>1, <5>2, <5>3, <1>inv DEF EchoInv
      <4>4. CASE Return(t)
        <5>1. pc'[t] = "idle" /\ heard'[t] = <<"none", "none">>
          BY <4>4, <2>typ DEF Return, Goto
        <5>2. QED
          BY <5>1 DEF Hearing
      <4>5. CASE Leave(t) \/ Identified(t) \/ Again(t) \/ Copy(t)
        BY <4>5, <2>typ DEF Leave, Identified, Again, Copy, Acquire, NextAxis, Goto,
           Hearing
      <4>6. CASE Whoami(t) \/ Command(t) \/ Settle(t) \/ Power(t) \/ Scale(t)
                 \/ Status(t) \/ Store(t)
        <5>1. op[t].do # "get_echo" /\ op' = op
          BY <4>6, <1>inv DEF Whoami, Command, Settle, Power, Scale, Status, Store,
             CallInv, Slow
        <5>2. pc'[t] \notin {"idle", "asleep", "enter"}
          BY <4>6, <2>typ DEF Whoami, Command, Settle, Power, Scale, Status, Store, NextAxis, Goto
        <5>3. QED
          BY <5>1, <5>2 DEF Hearing
      <4>7. QED
        BY <1>2, <4>1, <4>2, <4>3, <4>4, <4>5, <4>6 DEF Step
    <3>4. ASSUME NEW u \in Task
          PROVE  /\ Hearing(u)' =>
                      ~ranging /\ \A i \in 1..2 : heard'[u][i] \in {"last", "none"}
                 /\ pc'[u] \in {"idle", "asleep", "enter"} =>
                      \A i \in 1..2 : heard'[u][i] = "none"
      <4>1. CASE u = t
        BY <3>3, <4>1
      <4>2. CASE u # t
        BY <2>oth, <2>hear, <3>2, <4>2, <1>inv DEF EchoInv
      <4>3. QED
        BY <4>1, <4>2
    <3>5. QED
      BY <3>1, <3>4, <1>inv DEF EchoInv
  <2>3. QED
    BY <2>1, <2>2
<1>3. QED
  BY <1>1, <1>2 DEF Next

\* The compass is waited for by the task that commanded it.
LEMMA SettleStep ==
  ASSUME IInv, [Next]_vars
  PROVE  SettleInv'
<1>inv. TypeOK /\ SettleInv
  BY DEF IInv
<1>1. CASE Start \/ Clean \/ RangingEnds \/ MeasureEnds \/ UNCHANGED vars
  <2>1. pc' = pc /\ ("command" \in busy' => "command" \in busy)
    BY <1>1, Outside
  <2>2. QED
    BY <2>1, <1>inv DEF SettleInv
<1>2. ASSUME NEW t \in Task, Step(t) PROVE SettleInv'
  <2>typ. pc \in [Task -> Labels]
    BY <1>inv DEF TypeOK
  <2>oth. \A u \in Task : u # t => pc'[u] = pc[u]
    BY <1>2, <1>inv, Frame
  <2>1. CASE Settle(t)
    BY <2>1 DEF Settle, SettleInv
  <2>2. CASE ~Settle(t)
    <3>1. pc[t] # "settle"
      BY <1>2, <2>2 DEF Step, Call, Wake, Enter, Command, Leave, Return, Whoami,
         Identified, Again, Power, Scale, Status, Store, Copy, Hear, HearOther
    <3>2. "command" \in busy' => "command" \in busy \/ pc'[t] = "settle"
      <4>1. CASE Command(t)
        BY <4>1, <2>typ DEF Command, Commanded, Goto, hmc
      <4>2. CASE ~Command(t)
        BY <1>2, <2>2, <4>2 DEF Step, Call, Wake, Enter, Leave, Return, Whoami,
           Identified, Again, Power, Scale, Status, Store, Copy, Hear, HearOther, HearByte,
           hmc
      <4>3. QED
        BY <4>1, <4>2
    <3>3. QED
      BY <2>oth, <3>1, <3>2, <1>inv DEF SettleInv
  <2>3. QED
    BY <2>1, <2>2
<1>3. QED
  BY <1>1, <1>2 DEF Next

\* A measure that is asked for ends the waits that count on there being none.
LEMMA WaitStep ==
  ASSUME IInv, [Next]_vars
  PROVE  WaitInv'
<1>inv. TypeOK /\ CallInv /\ WaitInv
  BY DEF IInv
<1>1. CASE Start \/ Clean \/ RangingEnds \/ MeasureEnds \/ UNCHANGED vars
  <2>1. UNCHANGED <<pc, op, alone>> /\ ("measure" \in busy' => "measure" \in busy)
    BY <1>1, Outside
  <2>2. QED
    BY <2>1, <1>inv DEF WaitInv
<1>2. ASSUME NEW t \in Task, Step(t) PROVE WaitInv'
  <2>typ. /\ pc \in [Task -> Labels] /\ op \in [Task -> Calls \cup {NoCall}]
          /\ alone \in [Task -> BOOLEAN]
    BY <1>inv DEF TypeOK
  <2>oth. \A u \in Task : u # t => UNCHANGED <<pc[u], op[u]>>
    BY <1>2, <1>inv, Frame
  <2> DEFINE Waited(u) == pc[u] \in {"enter", "command"} /\ op[u].do = "read_wait" /\ alone[u]
  <2>1. CASE Command(t)
    <3>1. pc'[t] \in {"settle", "leave"}
      BY <2>1, <2>typ DEF Command, Goto
    <3>2. UNCHANGED hmc \/ Commanded(op[t].do)
      BY <2>1 DEF Command
    <3>3. ASSUME NEW u \in Task, Waited(u)' PROVE "measure" \notin busy'
      <4>1. u # t
        BY <3>1, <3>3
      <4>2. CASE UNCHANGED hmc
        BY <2>oth, <3>3, <4>1, <4>2, <1>inv DEF WaitInv, hmc
      <4>3. CASE Commanded(op[t].do)
        <5>1. alone[u] /\ op[t].do \notin Measuring
          BY <3>3, <4>3 DEF Commanded
        <5>2. "measure" \notin busy
          BY <2>oth, <3>3, <4>1, <5>1, <1>inv DEF WaitInv
        <5>3. QED
          BY <4>3, <5>1, <5>2 DEF Commanded
      <4>4. QED
        BY <3>2, <4>2, <4>3
    <3>4. QED
      BY <3>3 DEF WaitInv
  <2>2. CASE Wake(t)
    <3>1. UNCHANGED <<op, busy, alone>> /\ (alone[t] => "measure" \notin busy)
      BY <2>2 DEF Wake, hmc
    <3>2. QED
      BY <2>oth, <3>1, <1>inv DEF WaitInv
  <2>3. CASE \E c \in Calls : Call(t, c)
    <3>1. PICK c \in Calls : Call(t, c)
      BY <2>3
    <3>2. /\ busy' = busy /\ (\A u \in Task : u # t => alone'[u] = alone[u])
          /\ op'[t] = c /\ (pc'[t] = "asleep" \/ (pc'[t] = "enter" /\ c.do # "read_wait"))
      BY <3>1, <2>typ DEF Call, Goto
    <3>3. QED
      BY <2>oth, <3>2, <1>inv DEF WaitInv
  <2>4. CASE Return(t)
    <3>1. /\ busy' = busy /\ (\A u \in Task : u # t => alone'[u] = alone[u])
          /\ pc'[t] = "idle"
      BY <2>4, <2>typ DEF Return, Goto
    <3>2. QED
      BY <2>oth, <3>1, <1>inv DEF WaitInv
  <2>5. CASE Enter(t)
    <3>1. pc[t] = "enter" /\ UNCHANGED <<op, busy, alone>>
      BY <2>5 DEF Enter, hmc
    <3>2. QED
      BY <2>oth, <3>1, <1>inv DEF WaitInv
  <2>6. CASE \/ Settle(t) \/ Leave(t) \/ Whoami(t) \/ Identified(t) \/ Again(t) \/ Power(t)
             \/ Scale(t) \/ Status(t) \/ Store(t) \/ Copy(t) \/ Hear(t) \/ HearOther(t)
    <3>1. alone' = alone /\ ("measure" \in busy' => "measure" \in busy)
      BY <2>6 DEF Settle, Leave, Whoami, Identified, Again, Power, Scale, Status, Store,
         Copy, Hear, HearOther, HearByte, hmc
    <3>2. pc'[t] \notin {"enter", "command"}
      BY <2>6, <2>typ DEF Settle, Leave, Whoami, Identified, Again, Power, Scale, Status,
         Store, Copy, Hear, HearOther, HearByte, Acquire, NextAxis, Goto
    <3>3. QED
      BY <2>oth, <3>1, <3>2, <1>inv DEF WaitInv
  <2>7. QED
    BY <1>2, <2>1, <2>2, <2>3, <2>4, <2>5, <2>6 DEF Step
<1>3. QED
  BY <1>1, <1>2 DEF Next

\* Nobody powers the accelerometer off inside the second section of an init.
LEMMA PowerStep ==
  ASSUME IInv, [Next]_vars
  PROVE  PowerInv'
<1>inv. TypeOK /\ LockInv /\ CallInv /\ PowerInv
  BY DEF IInv
<1>1. CASE Start \/ Clean \/ RangingEnds \/ MeasureEnds \/ UNCHANGED vars
  <2>1. UNCHANGED <<pc, op, switched>> /\ (powered' = powered \/ Quiet)
    BY <1>1, Outside
  <2>2. QED
    BY <2>1, <1>inv DEF PowerInv, Quiet
<1>2. ASSUME NEW t \in Task, Step(t) PROVE PowerInv'
  <2>typ. /\ pc \in [Task -> Labels] /\ switched \in [Task -> BOOLEAN]
          /\ op \in [Task -> Calls \cup {NoCall}]
    BY <1>inv DEF TypeOK
  <2>oth. \A u \in Task : u # t => UNCHANGED <<pc[u], op[u], switched[u]>>
    BY <1>2, <1>inv, Frame
  <2>1. CASE Command(t)
    <3>1. pc[t] = "command" /\ ~switched[t] /\ switched' = switched
      BY <2>1, <1>inv DEF Command, PowerInv
    <3>2. ASSUME powered, ~powered' PROVE op[t].do = "poweroff"
      BY <2>1, <3>2 DEF Command
    <3>3. ASSUME NEW u \in Task, u # t, switched[u], pc[u] # "return",
                 op[t].do = "poweroff"
          PROVE  FALSE
      <4>1. pc[u] \in {"scale", "leave"} /\ op[u].do = "init_3axis"
        BY <3>3, <1>inv DEF PowerInv
      <4>2. Inside(u, "lis") /\ Inside(t, "lis") /\ "lis" \in Sensor
        BY <3>1, <3>3, <4>1, <1>inv, Sections
      <4>3. QED
        BY <3>3, <4>2, <1>inv, Alone
    <3>4. QED
      BY <2>oth, <3>1, <3>2, <3>3, <1>inv DEF PowerInv
  <2>2. CASE Power(t)
    <3>1. (powered => powered') /\ op' = op /\ op[t].do = "init_3axis"
      BY <2>2, <1>inv DEF Power, CallInv
    <3>2. switched'[t] => pc'[t] = "scale" /\ powered'
      BY <2>2, <2>typ DEF Power, Goto
    <3>3. QED
      BY <2>oth, <3>1, <3>2, <1>inv DEF PowerInv
  <2>3. CASE Return(t)
    <3>1. powered' = powered /\ ~switched'[t]
      BY <2>3, <2>typ DEF Return, lis
    <3>2. QED
      BY <2>oth, <3>1, <1>inv DEF PowerInv
  <2>4. CASE ~Command(t) /\ ~Power(t) /\ ~Return(t)
    <3>1. powered' = powered /\ switched' = switched
      BY <1>2, <2>4 DEF Step, Call, Wake, Enter, Settle, Leave, Whoami, Identified,
         Again, Scale, Status, Store, Copy, Hear, HearOther, HearByte, lis
    <3>2. CASE switched[t]
      <4>1. pc[t] \in {"scale", "leave"} /\ op[t].do = "init_3axis" /\ powered
        <5>1. pc[t] # "return"
          BY <1>2, <2>4 DEF Step, Call, Wake, Enter, Settle, Leave, Whoami, Identified,
             Again, Scale, Status, Store, Copy, Hear, HearOther
        <5>2. QED
          BY <3>2, <5>1, <1>inv DEF PowerInv
      <4>2. Scale(t) \/ Leave(t)
        BY <1>2, <2>4, <4>1 DEF Step, Call, Wake, Enter, Settle, Whoami, Identified,
           Again, Status, Store, Copy, Hear, HearOther
      <4>3. pc'[t] \in {"leave", "return"} /\ op' = op
        BY <4>1, <4>2, <2>typ DEF Scale, Leave, Goto
      <4>4. QED
        BY <2>oth, <3>1, <4>1, <4>3, <1>inv DEF PowerInv
    <3>3. CASE ~switched[t]
      BY <2>oth, <3>1, <3>3, <1>inv DEF PowerInv
    <3>4. QED
      BY <3>2, <3>3
  <2>5. QED
    BY <2>1, <2>2, <2>3, <2>4
<1>3. QED
  BY <1>1, <1>2 DEF Next

-----------------------------------------------------------------------------
\* No call and no shot has been made at first.
LEMMA InitInv == Init => IInv
<1> SUFFICES ASSUME Init PROVE IInv
  OBVIOUS
<1>1. TypeOK
  <2>1. mutex \in [Sensor -> Mutexes]
    BY DEF Init, Free, Mutexes
  <2>2. <<"none", "none">> \in [1..2 -> Heard]
    BY DEF Heard
  <2>3. heard \in [Task -> [1..2 -> Heard]]
    BY <2>2 DEF Init
  <2>4. pc \in [Task -> Labels] /\ axis \in [Task -> Axis]
    BY Labelling DEF Init, Axis
  <2>5. QED
    BY <2>1, <2>3, <2>4 DEF Init, TypeOK, Shot
<1>2. \A t \in Task : pc[t] = "idle" /\ axis[t] = 0 /\ heard[t] = <<"none", "none">>
  BY DEF Init
<1>3. LockInv /\ CallInv
  BY <1>2, Labelling DEF Init, LockInv, CallInv, Inside
<1>4. ReadInv
  BY <1>2 DEF Init, ReadInv
<1>5. EchoInv
  BY <1>2 DEF Init, EchoInv, Hearing
<1>6. SettleInv /\ WaitInv /\ PowerInv
  BY <1>2 DEF Init, SettleInv, WaitInv, PowerInv
<1>7. QED
  BY <1>1, <1>3, <1>4, <1>5, <1>6 DEF IInv

\* The invariant holds at all times.
LEMMA Invariance == Spec => []IInv
<1>1. IInv /\ [Next]_vars => IInv'
  BY TypeStep, LockStep, CallStep, ReadStep, EchoStep, SettleStep, WaitStep, PowerStep
     DEF IInv
<1>2. QED
  BY <1>1, InitInv, PTL DEF Spec

\* The variables have their types.
THEOREM Typing == Spec => []TypeOK
<1>1. IInv => TypeOK
  BY DEF IInv
<1>2. QED
  BY <1>1, Invariance, PTL

\* Every way out of an operation of the sensors releases the mutex, the error ones
\* included: the owner is inside one of its sections, and nobody else is.
THEOREM Owned == Spec => []OwnedInside
<1>1. ASSUME LockInv, NEW s \in Sensor, NEW t \in Task
      PROVE  (mutex[s].owner = t) = Inside(t, s)
  <2>1. Inside(t, s) => mutex[s].owner = t
    <3>1. Inside(t, s) => mutex[s] = [owner |-> t, depth |-> 1]
      BY <1>1 DEF LockInv
    <3>2. QED
      BY <3>1
  <2>2. mutex[s].owner = t => Inside(t, s)
    BY <1>1 DEF LockInv, Free
  <2>3. Inside(t, s) \in BOOLEAN
    BY DEF Inside
  <2>4. QED
    BY <2>1, <2>2, <2>3
<1>2. LockInv => OwnedInside
  BY <1>1 DEF OwnedInside
<1>3. QED
  BY <1>2, Invariance, PTL DEF IInv

\* lis3lv02dl_read keeps the axes of one read together, whoever else reads.
THEOREM OneRead == Spec => []AccelerationOfOneRead
<1>1. ASSUME IInv, \A t \in Task : ~Inside(t, "lis")
      PROVE  \A a, b \in Axis : acc[a] = acc[b]
  <2>1. \A t \in Task : pc[t] # "store"
    BY <1>1, Sections DEF IInv
  <2>2. QED
    BY <1>1, <2>1 DEF IInv, ReadInv
<1>2. IInv => AccelerationOfOneRead
  BY <1>1 DEF AccelerationOfOneRead
<1>3. QED
  BY <1>2, Invariance, PTL

\* srf08_get_echo of a sonar at rest gives the echo of its last shot.
THEOREM OneShot == Spec => []EchoOfOneShot
<1>1. IInv => EchoOfOneShot
  BY DEF IInv, EchoInv, Hearing, EchoOfOneShot
<1>2. QED
  BY <1>1, Invariance, PTL

\* exit_calibration and wakeup keep the compass until it is back, and the wait of
\* hmc6532_read_wait, which keeps nothing, is undone only by another task's read.
THEOREM Settled == Spec => []CompassSettles
<1>1. ASSUME IInv, NEW t \in Task, pc[t] = "command", op[t].on = "hmc", "command" \in busy
      PROVE  FALSE
  <2>1. PICK u \in Task : pc[u] = "settle"
    BY <1>1 DEF IInv, SettleInv
  <2>2. Inside(u, "hmc") /\ Inside(t, "hmc") /\ "hmc" \in Sensor
    BY <1>1, <2>1, Sections, Labelling DEF IInv, Inside
  <2>3. QED
    BY <1>1, <2>1, <2>2, Alone DEF IInv
<1>2. ASSUME IInv, NEW t \in Task, pc[t] = "command", op[t].do = "read_wait",
             "measure" \in busy
      PROVE  ~alone[t]
  BY <1>2 DEF IInv, WaitInv
<1>3. IInv => CompassSettles
  BY <1>1, <1>2 DEF CompassSettles
<1>4. QED
  BY <1>3, Invariance, PTL

\* A lis3lv02dl_init_3axis whose power-up went through leaves the accelerometer on,
\* whoever powers it off between the two sections.
THEOREM PoweredUp == Spec => []InitPowersUp
<1>1. IInv => InitPowersUp
  BY DEF IInv, PowerInv, InitPowersUp
<1>2. QED
  BY <1>1, Invariance, PTL
=============================================================================
