------------------------------- MODULE Motors --------------------------------
(***************************************************************************)
(* The thread-safe functions of src/motors.c between motors_init_motor and *)
(* motors_clean_motor: duty cycles and frequency dividers of the PWM core, *)
(* counters of the quadrature encoders.  Every motor and every encoder has *)
(* a mutex of its own; a device below is one of either, named as in        *)
(* MotorsLife.  The driver keeps a copy of what it wrote to a motor and of *)
(* the two last readings of an encoder, in arrays malloc does not clear.   *)
(***************************************************************************)
EXTENDS RtMutex, MotorsLife

CONSTANTS Motor, Enc,           \* the motors and encoders the tasks use
          Setting,              \* duty cycles and dividers they ask for
          MaxSpeed, MaxFreqDiv, \* MOTORS_MAX_SPEED and MOTORS_MAX_FREQ_DIV
          MaxCount,             \* bound on the encoder counters
          Junk                  \* what a word of the heap holds before it is set

ASSUME MotorsAssumption ==
  /\ Motor \subseteq {m \in Mutex : m[1] = "pwm"}
  /\ Enc \subseteq {m \in Mutex : m[1] = "qenc"}
  /\ Setting \subseteq Int
  /\ MaxSpeed \in Nat /\ MaxFreqDiv \in Nat /\ MaxCount \in Nat
  /\ Junk \in Int

Device == Motor \cup Enc

Param == {"speed", "freq_div"}    \* the two registers of a motor

VARIABLES
  pwm,      \* per motor and parameter, its register
  copy,     \* per motor and parameter, pwms[].speed and pwms[].freq_div
  counter,  \* per encoder, its hardware counter
  value,    \* per encoder, encoders[].qenc_value
  prev,     \* per encoder, encoders[].qenc_prev_value
  mutex,    \* per device, its mutex
  pc,       \* per task, where it stands
  op,       \* per task, the call it makes
  out,      \* per task, the values the call returns
  reported  \* history: per encoder, the count last given out, 0 after a reset

hardware == <<pwm, counter>>
copies   == <<copy, value, prev>>
calling  == <<mutex, pc, op, out>>
vars == <<life, hardware, copies, calling, reported>>

Counts == (-MaxCount)..MaxCount

Calls == [kind : {"set"}, dev : Motor, param : Param, value : Setting]
         \cup [kind : {"read"}, dev : Motor, param : Param]
         \cup [kind : {"setzero", "read_enc"}, dev : Enc]

NoCall == [kind |-> "none"]
NoOut == [value |-> 0, prev |-> 0]

InsideLabels == {"write", "copy", "lower", "clear", "shift", "sample", "give", "leave"}
Labels == InsideLabels \cup {"idle", "enter"}

Init ==
  /\ LifeInit
  /\ pwm = [r \in Motor \X Param |-> 0] /\ copy = [r \in Motor \X Param |-> Junk]
  /\ counter = [e \in Enc |-> 0]
  /\ value = [e \in Enc |-> Junk] /\ prev = [e \in Enc |-> Junk]
  /\ mutex = [d \in Device |-> Free]
  /\ pc = [t \in Task |-> "idle"]
  /\ op = [t \in Task |-> NoCall]
  /\ out = [t \in Task |-> NoOut]
  /\ reported = [e \in Enc |-> 0]

-----------------------------------------------------------------------------
\* The steps of init and clean that touch the arrays or the registers.  No
\* task is in a call then: platex starts its tasks after the init and deletes
\* them before the clean, and they end with the program it restarts.

\* malloc gives an array that holds anything.
InitAllocPwm ==
  /\ AllocPwm
  /\ copy' = [r \in Motor \X Param |-> Junk]
  /\ UNCHANGED <<hardware, value, prev, calling, reported>>

InitAllocQenc ==
  /\ AllocQenc
  /\ value' = [e \in Enc |-> Junk] /\ prev' = [e \in Enc |-> Junk]
  /\ UNCHANGED <<hardware, copy, calling, reported>>

\* Every motor is stopped and every encoder reset; the dividers are left as
\* they are, in the registers and in the array.
InitDefaults ==
  /\ Up
  /\ pwm' = [r \in DOMAIN pwm |-> IF r[2] = "speed" THEN 0 ELSE pwm[r]]
  /\ copy' = [r \in DOMAIN copy |-> IF r[2] = "speed" THEN 0 ELSE copy[r]]
  /\ counter' = [e \in Enc |-> 0]
  /\ value' = [e \in Enc |-> 0] /\ prev' = [e \in Enc |-> 0]
  /\ reported' = [e \in Enc |-> 0]
  /\ UNCHANGED calling

Quiet == \A t \in Task : pc[t] = "idle"

Clean == CleanStart /\ Quiet /\ UNCHANGED <<hardware, copies, calling, reported>>

\* A motor whose mutex is gone is passed over: the error of its call is dropped.
StopMotor ==
  /\ StopNext
  /\ LET stop(f) == [r \in DOMAIN f |-> IF r = <<<<"pwm", im>>, "speed">> THEN 0 ELSE f[r]]
     IN IF <<"pwm", im>> \in live THEN pwm' = stop(pwm) /\ copy' = stop(copy)
                                  ELSE UNCHANGED <<pwm, copy>>
  /\ UNCHANGED <<counter, value, prev, calling, reported>>

Lifecycle ==
  \/ LifeStep /\ UNCHANGED <<hardware, copies, calling, reported>>
  \/ Restart /\ Quiet /\ UNCHANGED <<hardware, copies, calling, reported>>
  \/ InitAllocPwm \/ InitAllocQenc \/ InitDefaults \/ Clean \/ StopMotor

-----------------------------------------------------------------------------
\* The calls of the tasks, also on a driver whose init failed and returned 0.

GotoLabel(t, label) == pc' = [pc EXCEPT ![t] = label]

Call(t, c) ==
  /\ pc[t] = "idle" /\ (at = "up" \/ (at = "returned" /\ err = "ok"))
  /\ op' = [op EXCEPT ![t] = c]
  /\ GotoLabel(t, "enter")
  /\ UNCHANGED <<life, hardware, copies, mutex, out, reported>>

FirstLabel(kind) == CASE kind \in {"set", "setzero"} -> "write"
                      [] kind = "read" -> "give"
                      [] kind = "read_enc" -> "shift"

\* Mutant of Enter: the functions do not acquire the mutex.
EnterUnlocked(t) ==
  /\ pc[t] = "enter" /\ op[t].dev \in live
  /\ GotoLabel(t, FirstLabel(op[t].kind))
  /\ UNCHANGED <<life, hardware, copies, mutex, op, out, reported>>

Enter(t) ==
  /\ pc[t] = "enter" /\ op[t].dev \in live
  /\ CanAcquire(mutex[op[t].dev], t)
  /\ mutex' = [mutex EXCEPT ![op[t].dev] = Acquired(@, t)]
  /\ GotoLabel(t, FirstLabel(op[t].kind))
  /\ UNCHANGED <<life, hardware, copies, op, out, reported>>

\* The mutex is gone: the acquire fails, and the call returns without touching the
\* register and the array.
Refused(t) ==
  /\ pc[t] = "enter" /\ op[t].dev \notin live
  /\ GotoLabel(t, "idle")
  /\ op' = [op EXCEPT ![t] = NoCall]
  /\ UNCHANGED <<life, hardware, copies, mutex, out, reported>>

\* Only the upper limit is checked: a negative setting is written as it is.
Limit(p) == IF p = "speed" THEN MaxSpeed ELSE MaxFreqDiv

Clamped(p, v) == IF v > Limit(p) THEN Limit(p) ELSE v

Register(c) == <<c.dev, c.param>>

WritePwm(t) ==
  /\ pc[t] = "write" /\ op[t].kind = "set"
  /\ pwm' = [pwm EXCEPT ![Register(op[t])] = Clamped(op[t].param, op[t].value)]
  /\ GotoLabel(t, "copy")
  /\ UNCHANGED <<life, counter, copies, mutex, op, out, reported>>

\* Mutant of CopyPwm: the setting is copied as it was asked for.
CopyPwmUnclamped(t) ==
  /\ pc[t] = "copy"
  /\ copy' = [copy EXCEPT ![Register(op[t])] = op[t].value]
  /\ GotoLabel(t, "leave")
  /\ UNCHANGED <<life, hardware, value, prev, mutex, op, out, reported>>

CopyPwm(t) ==
  /\ pc[t] = "copy"
  /\ copy' = [copy EXCEPT ![Register(op[t])] = Clamped(op[t].param, op[t].value)]
  /\ GotoLabel(t, "leave")
  /\ UNCHANGED <<life, hardware, value, prev, mutex, op, out, reported>>

GivePwm(t) ==
  /\ pc[t] = "give" /\ op[t].kind = "read"
  /\ out' = [out EXCEPT ![t] = [value |-> copy[Register(op[t])], prev |-> 0]]
  /\ GotoLabel(t, "leave")
  /\ UNCHANGED <<life, hardware, copies, mutex, op, reported>>

\* motors_qenc_setzero: a glitch of 1 resets the counter, then the copies.
RaiseReset(t) ==
  /\ pc[t] = "write" /\ op[t].kind = "setzero"
  /\ counter' = [counter EXCEPT ![op[t].dev] = 0]
  /\ GotoLabel(t, "lower")
  /\ UNCHANGED <<life, pwm, copies, mutex, op, out, reported>>

LowerReset(t) ==
  /\ pc[t] = "lower"
  /\ GotoLabel(t, "clear")
  /\ UNCHANGED <<life, hardware, copies, mutex, op, out, reported>>

ClearCopies(t) ==
  /\ pc[t] = "clear"
  /\ value' = [value EXCEPT ![op[t].dev] = 0]
  /\ prev' = [prev EXCEPT ![op[t].dev] = 0]
  /\ reported' = [reported EXCEPT ![op[t].dev] = 0]
  /\ GotoLabel(t, "leave")
  /\ UNCHANGED <<life, hardware, copy, mutex, op, out>>

\* motors_qenc_read_enc: the last value becomes the previous one, the register
\* is sampled, and both are given out.
ShiftValue(t) ==
  /\ pc[t] = "shift"
  /\ prev' = [prev EXCEPT ![op[t].dev] = value[op[t].dev]]
  /\ GotoLabel(t, "sample")
  /\ UNCHANGED <<life, hardware, copy, value, mutex, op, out, reported>>

Sample(t) ==
  /\ pc[t] = "sample"
  /\ value' = [value EXCEPT ![op[t].dev] = counter[op[t].dev]]
  /\ GotoLabel(t, "give")
  /\ UNCHANGED <<life, hardware, copy, prev, mutex, op, out, reported>>

GiveCounts(t) ==
  /\ pc[t] = "give" /\ op[t].kind = "read_enc"
  /\ out' = [out EXCEPT ![t] = [value |-> value[op[t].dev], prev |-> prev[op[t].dev]]]
  /\ reported' = [reported EXCEPT ![op[t].dev] = value[op[t].dev]]
  /\ GotoLabel(t, "leave")
  /\ UNCHANGED <<life, hardware, copies, mutex, op>>

\* The mutex is released and the call returns what it has given out.
Leave(t) ==
  /\ pc[t] = "leave"
  /\ mutex' = [mutex EXCEPT ![op[t].dev] = Released(@, t)]
  /\ GotoLabel(t, "idle")
  /\ op' = [op EXCEPT ![t] = NoCall]
  /\ out' = [out EXCEPT ![t] = NoOut]
  /\ UNCHANGED <<life, hardware, copies, reported>>

\* A wheel turns a step; the counter stays at 0 while its reset is held.
Turn(e) ==
  /\ \A t \in Task : ~(pc[t] = "lower" /\ op[t].dev = e)
  /\ \E d \in {-1, 1} :
       /\ counter[e] + d \in Counts
       /\ counter' = [counter EXCEPT ![e] = @ + d]
  /\ UNCHANGED <<life, pwm, copies, mutex, pc, op, out, reported>>

Step(t) ==
  \/ \E c \in Calls : Call(t, c)
  \/ Enter(t) \/ Refused(t) \/ Leave(t)
  \/ WritePwm(t) \/ CopyPwm(t) \/ GivePwm(t)
  \/ RaiseReset(t) \/ LowerReset(t) \/ ClearCopies(t)
  \/ ShiftValue(t) \/ Sample(t) \/ GiveCounts(t)

Next == Lifecycle \/ (\E e \in Enc : Turn(e)) \/ \E t \in Task : Step(t)

Spec == Init /\ [][Next]_vars

-----------------------------------------------------------------------------
TypeOK ==
  /\ LifeTypeOK
  /\ pwm \in [Motor \X Param -> Int] /\ copy \in [Motor \X Param -> Int]
  /\ counter \in [Enc -> Counts]
  /\ value \in [Enc -> Counts \cup {Junk}] /\ prev \in [Enc -> Counts \cup {Junk}]
  /\ mutex \in [Device -> Mutexes]
  /\ pc \in [Task -> Labels]
  /\ op \in [Task -> Calls \cup {NoCall}]
  /\ out \in [Task -> [value : Int, prev : Int]]
  /\ reported \in [Enc -> Counts]

\* Nothing is used once it is gone, whatever the init returned: a task writes or
\* reads a register and an entry of an array only while the one is mapped and the
\* other allocated, and nothing is undone that is not there.
NothingUsedOnceGone ==
  /\ UndoneOnce
  /\ \A t \in Task : pc[t] \in InsideLabels => op[t].dev[1] \in heap \cap mapped

Using(d) == \E t \in Task : pc[t] \in InsideLabels /\ op[t].dev = d

\* motors_pwm_read_speed and motors_pwm_read_freq_div report what is really
\* applied: from the init on, the driver's copy and the register agree whenever
\* nobody is using that motor, except for a divider nobody has set yet, whose
\* copy is what malloc left there.
CopyIsApplied ==
  \A m \in Motor :
    at = "up" /\ ~Using(m) =>
      /\ copy[<<m, "speed">>] = pwm[<<m, "speed">>]
      /\ copy[<<m, "freq_div">>] \in {Junk, pwm[<<m, "freq_div">>]}

\* Readings chain: the previous value a read gives is the value the read before
\* it gave, to whichever task, or 0 right after a reset, so the distances the
\* tasks compute add up and none is lost or counted twice.
ReadingsChain ==
  [][\A t \in Task : GiveCounts(t) => out'[t].prev = reported[op[t].dev]]_vars

\* A robot whose motor driver has been cleaned stands still: no motor is left
\* running once nothing can reach its register any more, however the run, its
\* failed steps and the restarts before it went.
StoppedWhenCleaned ==
  "pwm" \notin mapped => \A m \in Motor : pwm[<<m, "speed">>] = 0
=============================================================================
