------------------------------- MODULE Platex --------------------------------
(***************************************************************************)
(* src/ex/platex.c, the program that runs every driver of the robot:       *)
(* main_task starts the drivers one after the other and a periodic worker  *)
(* on each, a signal makes clean_exit spawn clean_rt_task, which deletes   *)
(* the workers and cleans the drivers, and exit ends all of them.  What a  *)
(* driver does inside is in the modules of the drivers; here it is a       *)
(* device that is absent, up or down; the motors are "broken" when their   *)
(* init failed and returned 0.                                             *)
(*                                                                         *)
(* One processor, fixed priorities: the workers of the servos, the motors  *)
(* and the watchdog are above main_task, the cleaner and the Linux thread  *)
(* and only touch mapped registers, so nothing of these runs while such a  *)
(* worker is inside its driver; the other workers block in an ioctl on a   *)
(* bus with their mutexes held.                                            *)
(***************************************************************************)
EXTENDS Naturals, Sequences

\* The workers are named after the device they use; the watchdog's is gpio.
Worker == {"gpio", "servos", "motors", "adc", "acc", "sonar"}
Actuator == {"servos", "motors"}

CONSTANTS MaxSignals,   \* bound on the SIGINT and SIGTERM that arrive
          Quitters,     \* the workers that may end by themselves
          JoinWaits     \* FALSE: rt_task_join may return before the cleaner has ended

ASSUME PlatexAssumption ==
  MaxSignals \in Nat /\ Quitters \subseteq Worker /\ JoinWaits \in BOOLEAN

VARIABLES
  thread,    \* the Linux thread: "starting", "paused", in the "handler" or "ended"
  boot,      \* the step of Boot main_task is at; 0 before it is spawned
  clean,     \* the step of Cleanup the cleaner is at; 0 before it is spawned
  end,       \* the flag the workers look at
  dev,       \* per device, its driver: "absent", "up", "broken" or "down"
  work,      \* per worker, what it is doing
  moving,    \* the actuators the hardware drives
  lost,      \* the mutexes that workers took with them when deleted
  signals,   \* how many signals have arrived
  late,      \* history: the first of them arrived after main_task had ended
  process    \* "running", or how it ended: "failed", "cleaned" or "unclean"

platexVars ==
  <<thread, boot, clean, end, dev, work, moving, lost, signals, late, process>>

Device == {"gpio", "servos", "motors", "spi", "adc", "i2c1", "i2c2", "acc", "sonar"}

\* The bus each of the slower devices is on, and the mutexes a call on it holds.
BusOf == [adc |-> "spi", acc |-> "i2c1", sonar |-> "i2c2"]
OnBus == DOMAIN BusOf
MutexesOf(d) == IF d \in OnBus THEN {d, BusOf[d]} ELSE {d}

\* Mutant of Boot: the task of the converter is spawned before its driver is up.
BootTaskFirst ==
  << <<"init", "gpio">>,   <<"spawn", "gpio">>,
     <<"init", "servos">>, <<"spawn", "servos">>,
     <<"init", "motors">>, <<"spawn", "motors">>,
     <<"init", "spi">>,    <<"spawn", "adc">>,   <<"init", "adc">>,
     <<"init", "i2c1">>,   <<"init", "i2c2">>,
     <<"init", "acc">>,    <<"spawn", "acc">>,
     <<"init", "sonar">>,  <<"spawn", "sonar">> >>

\* main_task, in order.
Boot ==
  << <<"init", "gpio">>,   <<"spawn", "gpio">>,
     <<"init", "servos">>, <<"spawn", "servos">>,
     <<"init", "motors">>, <<"spawn", "motors">>,
     <<"init", "spi">>,    <<"init", "adc">>,    <<"spawn", "adc">>,
     <<"init", "i2c1">>,   <<"init", "i2c2">>,
     <<"init", "acc">>,    <<"spawn", "acc">>,
     <<"init", "sonar">>,  <<"spawn", "sonar">> >>

\* The workers that call their driver before they look at the flag.
SetsUp == {"motors", "adc", "acc"}

\* Mutant of Cleanup: motors_clean_motor unmaps the core before it stops the motors.
CleanupUnmapsFirst ==
  << <<"delete", "servos">>, <<"stop", "servos">>,  <<"clean", "servos">>,
     <<"delete", "motors">>, <<"clean", "motors">>, <<"stop", "motors">>,
     <<"delete", "adc">>,    <<"clean", "adc">>,    <<"clean", "spi">>,
     <<"delete", "acc">>,    <<"clean", "acc">>,
     <<"delete", "sonar">>,  <<"clean", "sonar">>,
     <<"clean", "i2c1">>,    <<"clean", "i2c2">>,
     <<"delete", "gpio">>,   <<"clean", "gpio">> >>

\* clean_rt_task, in order.  hwservos_clean and motors_clean_motor disable every
\* servo and stop every motor first, then unmap the core.
Cleanup ==
  << <<"delete", "servos">>, <<"stop", "servos">>,  <<"clean", "servos">>,
     <<"delete", "motors">>, <<"stop", "motors">>,  <<"clean", "motors">>,
     <<"delete", "adc">>,    <<"clean", "adc">>,    <<"clean", "spi">>,
     <<"delete", "acc">>,    <<"clean", "acc">>,
     <<"delete", "sonar">>,  <<"clean", "sonar">>,
     <<"clean", "i2c1">>,    <<"clean", "i2c2">>,
     <<"delete", "gpio">>,   <<"clean", "gpio">> >>

Booted  == boot = Len(Boot) + 1
Cleaned == clean = Len(Cleanup) + 1

Running == process = "running"

\* No worker that outranks them has the processor: main_task, the cleaner and the
\* Linux thread may run.
Idle == Running /\ \A w \in Worker \ OnBus : work[w] # "using"

PlatexInit ==
  /\ thread = "starting" /\ boot = 0 /\ clean = 0
  /\ end = FALSE
  /\ dev = [d \in Device |-> "absent"]
  /\ work = [w \in Worker |-> "unborn"]
  /\ moving = {} /\ lost = {}
  /\ signals = 0 /\ late = FALSE
  /\ process = "running"

-----------------------------------------------------------------------------
\* main and the signal handler, on the Linux thread.

\* exit ends every task, and the data of the program are gone; what the hardware
\* drives it goes on driving.
Exit(how) ==
  /\ process' = how
  /\ work' = [w \in Worker |-> "ended"] /\ dev' = [d \in Device |-> "absent"]
  /\ thread' = "ended" /\ boot' = 0 /\ clean' = 0 /\ end' = FALSE /\ lost' = {}
  /\ UNCHANGED moving

\* mlockall or the spawn of main_task fails, or main goes on to pause.
Start ==
  /\ Running /\ thread = "starting"
  /\ \/ Exit("failed")
     \/ /\ thread' = "paused" /\ boot' = 1
        /\ UNCHANGED <<clean, end, dev, work, moving, lost, process>>
  /\ UNCHANGED <<signals, late>>

\* clean_exit spawns the cleaner.  When the spawn fails it exits at once;
\* a signal that comes while the cleaner runs finds its name taken: the spawn fails.
Signal ==
  /\ Idle /\ signals < MaxSignals
  /\ signals' = signals + 1
  /\ late' = IF signals = 0 THEN Booted ELSE late
  /\ \/ /\ clean = 0 \/ Cleaned
        /\ thread' = "handler" /\ clean' = 1
        /\ UNCHANGED <<boot, end, dev, work, moving, lost, process>>
     \/ Exit("failed")

\* rt_task_join returns when the cleaner is through, and the handler calls exit(0).
Join ==
  /\ Idle /\ thread = "handler" /\ Cleaned
  /\ Exit("cleaned")
  /\ UNCHANGED <<signals, late>>

\* Or it does not wait for a task that was spawned with mode 0, not T_JOINABLE.
JoinAtOnce ==
  /\ ~JoinWaits
  /\ Idle /\ thread = "handler" /\ ~Cleaned
  /\ Exit("unclean")
  /\ UNCHANGED <<signals, late>>

-----------------------------------------------------------------------------
\* main_task.

At(script, i, what) == i \in 1..Len(script) /\ script[i][1] = what

\* An init or a spawn that fails calls exit(err).
Fail ==
  /\ Idle /\ boot \in 1..Len(Boot)
  /\ Exit("failed")
  /\ UNCHANGED <<signals, late>>

\* motors_init_motor returns 0 after most of its failures, too.
InitDevice ==
  /\ Idle /\ At(Boot, boot, "init")
  /\ LET d == Boot[boot][2] IN
       \E s \in {"up"} \cup (IF d = "motors" THEN {"broken"} ELSE {}) :
         dev' = [dev EXCEPT ![d] = s]
  /\ boot' = boot + 1
  /\ UNCHANGED <<thread, clean, end, work, moving, lost, signals, late, process>>

\* A worker runs at once, up to its first wait for a period or its first call.
SpawnWorker ==
  /\ Idle /\ At(Boot, boot, "spawn")
  /\ LET w == Boot[boot][2] IN
       work' = [work EXCEPT ![w] = IF end /\ w \notin SetsUp THEN "ended" ELSE "resting"]
  /\ boot' = boot + 1
  /\ UNCHANGED <<thread, clean, end, dev, moving, lost, signals, late, process>>

-----------------------------------------------------------------------------
\* The periodic workers.

\* A worker calls its driver, whatever has become of the driver.  Workers share no
\* driver: one that uses registers only is done before another begins.
Begin(w) ==
  /\ Idle /\ work[w] = "resting"
  /\ work' = [work EXCEPT ![w] = "using"]
  /\ UNCHANGED <<thread, boot, clean, end, dev, moving, lost, signals, late, process>>

\* The calls have returned, with the error of the mutex and without any effect when
\* the driver is not up; the flag is looked at next.  The calls drive the actuator,
\* but for those of the motors' task that set speed 0.
Finish(w) ==
  /\ Running /\ work[w] = "using"
  /\ \/ (w = "servos" => dev[w] # "up") /\ UNCHANGED moving
     \/ w \in Actuator /\ dev[w] = "up" /\ moving' = moving \cup {w}
  /\ work' = [work EXCEPT ![w] = IF end THEN "ended" ELSE "resting"]
  /\ UNCHANGED <<thread, boot, clean, end, dev, lost, signals, late, process>>

\* The array of a broken driver was freed or never allocated: a call on it, or its
\* clean, may end the process instead of being refused.
Crash ==
  /\ Running /\ dev["motors"] = "broken"
  /\ \/ work["motors"] = "using"
     \/ Idle /\ clean \in 1..Len(Cleanup) /\ Cleanup[clean] = <<"clean", "motors">>
  /\ Exit("failed")
  /\ UNCHANGED <<signals, late>>

\* rt_task_set_periodic or rt_task_wait_period gives an error, an overrun
\* included, or the calibration of the accelerometer fails: the task returns.
Quit(w) ==
  /\ Running /\ work[w] = "resting"
  /\ work' = [work EXCEPT ![w] = "ended"]
  /\ UNCHANGED <<thread, boot, clean, end, dev, moving, lost, signals, late, process>>

-----------------------------------------------------------------------------
\* The cleaner.

\* rt_task_delete: a task that is not there is an error nobody looks at.  A task
\* blocked in a transfer may take its mutexes with it.
DeleteWorker ==
  /\ Idle /\ At(Cleanup, clean, "delete")
  /\ LET w == Cleanup[clean][2] IN
       /\ work' = IF work[w] # "unborn"
                    THEN [work EXCEPT ![w] = "ended"] ELSE work
       /\ lost' \in {lost} \cup
                    (IF work[w] = "using" THEN {lost \cup MutexesOf(w)} ELSE {})
  /\ clean' = clean + 1
  /\ UNCHANGED <<thread, boot, end, dev, moving, signals, late, process>>

StopActuator ==
  /\ Idle /\ At(Cleanup, clean, "stop")
  /\ LET d == Cleanup[clean][2] IN
       moving' = IF dev[d] = "up" THEN moving \ {d} ELSE moving
  /\ clean' = clean + 1
  /\ UNCHANGED <<thread, boot, end, dev, work, lost, signals, late, process>>

Users(m) == {w \in Worker : work[w] = "using" /\ m \in MutexesOf(w)}

Held(d) == \E m \in MutexesOf(d) : m \in lost \/ Users(m) # {}

\* Mutant of CleanDevice: a driver that was never started is waited for.
CleanStartedDevice ==
  /\ Idle /\ At(Cleanup, clean, "clean")
  /\ LET d == Cleanup[clean][2] IN
       /\ dev[d] = "up"
       /\ d = "acc" => ~Held(d)
       /\ dev' = [dev EXCEPT ![d] = "down"]
  /\ clean' = clean + 1 /\ end' = (end \/ clean = Len(Cleanup))
  /\ UNCHANGED <<thread, boot, work, moving, lost, signals, late, process>>

\* lis3lv02dl_clean powers the accelerometer off first: it needs the mutexes.  The
\* last clean, that of the GPIOs, is followed by the assignment of the flag.
CleanDevice ==
  /\ Idle /\ At(Cleanup, clean, "clean")
  /\ LET d == Cleanup[clean][2] IN
       /\ d = "acc" /\ dev[d] = "up" => ~Held(d)
       /\ dev' = IF dev[d] = "absent" THEN dev ELSE [dev EXCEPT ![d] = "down"]
  /\ clean' = clean + 1 /\ end' = (end \/ clean = Len(Cleanup))
  /\ UNCHANGED <<thread, boot, work, moving, lost, signals, late, process>>

PlatexNext ==
  \/ Start \/ Signal \/ Join \/ JoinAtOnce
  \/ Fail \/ InitDevice \/ SpawnWorker
  \/ \E w \in Worker : Begin(w) \/ Finish(w)
  \/ \E w \in Quitters : Quit(w)
  \/ Crash
  \/ DeleteWorker \/ StopActuator \/ CleanDevice

\* The workers wait for their periods and leave the processor to the cleaner and the
\* handler again and again; a call of a worker ends.  Nothing says when the join that
\* does not wait returns.
Fairness ==
  /\ SF_platexVars(Join \/ DeleteWorker \/ StopActuator \/ CleanDevice)
  /\ WF_platexVars(\E w \in Worker \ OnBus : Finish(w))
  /\ \A w \in OnBus : WF_platexVars(Finish(w))

PlatexSpec == PlatexInit /\ [][PlatexNext]_platexVars /\ Fairness

-----------------------------------------------------------------------------
PlatexTypeOK ==
  /\ thread \in {"starting", "paused", "handler", "ended"}
  /\ boot \in 0..Len(Boot) + 1 /\ clean \in 0..Len(Cleanup) + 1
  /\ end \in BOOLEAN
  /\ dev \in [Device -> {"absent", "up", "broken", "down"}]
  /\ work \in [Worker -> {"unborn", "resting", "using", "ended"}]
  /\ moving \subseteq Actuator /\ lost \subseteq Device
  /\ signals \in 0..MaxSignals /\ late \in BOOLEAN
  /\ process \in {"running", "failed", "cleaned", "unclean"}

\* main_task spawns a task after the init of its driver and of the bus it is on has
\* returned 0, and clean_rt_task deletes the users of a driver before it cleans the
\* driver and cleans a bus after the drivers on it: until a signal comes, and for
\* ever when it came after main_task had ended, a task that calls a driver finds all
\* it uses started and not cleaned yet.
UsersHaveDevices ==
  signals = 0 \/ late =>
    \A w \in Worker : work[w] = "using" =>
      \A m \in MutexesOf(w) : dev[m] \in {"up", "broken"}

\* After such a signal an actuator that has been cleaned is never driven again, and
\* none is driven once clean_rt_task is through, nor after the exit of a handler that
\* has waited for that.
SafeStop ==
  late => /\ \A d \in Actuator : dev[d] = "down" => d \notin moving
          /\ Cleaned \/ process = "cleaned" => moving = {}

\* A signal ends the program, unless a deleted task took a mutex with it.
SignalEnds == signals > 0 ~> ~Running \/ lost # {}

-----------------------------------------------------------------------------
\* "Signal-handler, to ensure clean exit on Ctrl-C": an exit through the handler
\* leaves no actuator driven, whenever the signal came.
CleanExit == process = "cleaned" => moving = {}
=============================================================================
