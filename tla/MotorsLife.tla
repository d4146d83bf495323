----------------------------- MODULE MotorsLife ------------------------------
(***************************************************************************)
(* The control of motors_init_motor and motors_clean_motor of              *)
(* src/motors.c: what they map, allocate and create, in their order, with  *)
(* every step able to fail, and the goto chain that undoes a failed init.  *)
(* Part "pwm" drives the motors, part "qenc" the encoders; both are asked  *)
(* for, with num_of_encs = QENC_NUM_OF, as in platex.c.  Module Motors     *)
(* adds the registers and the tasks that use them in between.              *)
(*                                                                         *)
(* The structure is static: counts and pointers are zero until their       *)
(* malloc, and stay as they are when the chain frees what they are for.    *)
(* Most failures are returned as 0, and the driver is then called and      *)
(* cleaned like one that is up: an acquire or a delete of a mutex that is  *)
(* gone is refused (on a null pointer or memory reused it may end the      *)
(* process instead, which is a behaviour that stops there).                *)
(***************************************************************************)
EXTENDS Integers

CONSTANTS NumMotors, NumEncs    \* num_of_motors and num_of_encs

ASSUME NumAssumption == NumMotors \in 1..16 /\ NumEncs \in 1..16

VARIABLES
  at,       \* label in motors_init_motor or motors_clean_motor
  mapped,   \* the parts whose registers are mapped
  heap,     \* the parts whose array is allocated
  live,     \* the mutexes that exist: <<part, index>>
  im, iq,   \* loop indices, kept when a loop is left by a goto
  err,      \* the variable err of the C functions
  sized,    \* the parts whose count is set, num_of_motors and num_of_encs
  stuck     \* history: some step undoing it failed, too

resources == <<mapped, heap, live>>
life == <<at, resources, im, iq, err, sized, stuck>>

Part == {"pwm", "qenc"}
Mutex == ({"pwm"} \X (0..(NumMotors - 1))) \cup ({"qenc"} \X (0..(NumEncs - 1)))

LifeLabels ==
  {"start", "alloc_pwm", "create_pwm", "map_qenc", "alloc_qenc", "create_qenc",
   "up", "delete_qenc", "unmap_qenc", "delete_pwm", "unmap_pwm", "returned",
   "stopping", "clean_qenc", "clean_unmap_qenc", "clean_pwm", "clean_unmap_pwm",
   "cleaned"}

LifeInit ==
  /\ at = "start"
  /\ mapped = {} /\ heap = {} /\ live = {}
  /\ im = 0 /\ iq = 0 /\ err = "ok"
  /\ sized = {} /\ stuck = FALSE

\* num_of_motors and num_of_encs: no entry is used before the malloc.
Size(part) == IF part \notin sized THEN 0
              ELSE IF part = "pwm" THEN NumMotors ELSE NumEncs

Goto(from, to) == at = from /\ at' = to

\* A step on the way, or the goto of one that fails on the way up.
GoOn(from, to) == Goto(from, to) /\ UNCHANGED stuck

-----------------------------------------------------------------------------
\* The way up.

MapPwm ==
  /\ \/ GoOn("start", "alloc_pwm") /\ mapped' = mapped \cup {"pwm"} /\ err' = "ok"
     \/ GoOn("start", "returned") /\ err' = "error" /\ UNCHANGED mapped
  /\ UNCHANGED <<heap, live, im, iq, sized>>

\* malloc does not set err.
AllocPwm ==
  /\ \/ /\ GoOn("alloc_pwm", "create_pwm")
        /\ heap' = heap \cup {"pwm"} /\ sized' = sized \cup {"pwm"}
     \/ GoOn("alloc_pwm", "unmap_pwm") /\ UNCHANGED <<heap, sized>>
  /\ UNCHANGED <<mapped, live, im, iq, err>>

CreatePwm ==
  /\ im < NumMotors
  /\ \/ /\ GoOn("create_pwm", "create_pwm")
        /\ live' = live \cup {<<"pwm", im>>}
        /\ im' = im + 1 /\ err' = "ok"
     \/ GoOn("create_pwm", "delete_pwm") /\ err' = "error" /\ UNCHANGED <<live, im>>
  /\ UNCHANGED <<mapped, heap, iq, sized>>

PwmDone ==
  /\ im = NumMotors /\ GoOn("create_pwm", "map_qenc")
  /\ UNCHANGED <<resources, im, iq, err, sized>>

\* Mutant of MapQenc: its failure jumps past the mutexes of the motors.
MapQencSkips ==
  /\ \/ GoOn("map_qenc", "alloc_qenc") /\ mapped' = mapped \cup {"qenc"} /\ err' = "ok"
     \/ GoOn("map_qenc", "unmap_pwm") /\ err' = "error" /\ UNCHANGED mapped
  /\ UNCHANGED <<heap, live, im, iq, sized>>

MapQenc ==
  /\ \/ GoOn("map_qenc", "alloc_qenc") /\ mapped' = mapped \cup {"qenc"} /\ err' = "ok"
     \/ GoOn("map_qenc", "delete_pwm") /\ err' = "error" /\ UNCHANGED mapped
  /\ UNCHANGED <<heap, live, im, iq, sized>>

AllocQenc ==
  /\ \/ /\ GoOn("alloc_qenc", "create_qenc")
        /\ heap' = heap \cup {"qenc"} /\ sized' = sized \cup {"qenc"}
     \/ GoOn("alloc_qenc", "unmap_qenc") /\ UNCHANGED <<heap, sized>>
  /\ UNCHANGED <<mapped, live, im, iq, err>>

CreateQenc ==
  /\ iq < NumEncs
  /\ \/ /\ GoOn("create_qenc", "create_qenc")
        /\ live' = live \cup {<<"qenc", iq>>}
        /\ iq' = iq + 1 /\ err' = "ok"
     \/ GoOn("create_qenc", "delete_qenc") /\ err' = "error" /\ UNCHANGED <<live, iq>>
  /\ UNCHANGED <<mapped, heap, im, sized>>

\* The defaults are set, and init returns 0.
Up ==
  /\ iq = NumEncs /\ GoOn("create_qenc", "up")
  /\ UNCHANGED <<resources, im, iq, err, sized>>

-----------------------------------------------------------------------------
\* The goto chain.  UTIL_MUTEX_DELETE assigns err, whatever it held, and
\* returns from the function when a delete fails.

Undo(part, i) ==
  \/ live' = live \ {<<part, i>>} /\ err' = "ok" /\ UNCHANGED <<at, stuck>>
  \/ err' = "error" /\ at' = "returned" /\ stuck' = TRUE /\ UNCHANGED live

DeleteQenc ==
  /\ at = "delete_qenc" /\ iq # 0
  /\ iq' = iq - 1 /\ Undo("qenc", iq - 1)
  /\ UNCHANGED <<mapped, heap, im, sized>>

FreeQenc ==
  /\ iq = 0 /\ GoOn("delete_qenc", "unmap_qenc")
  /\ heap' = heap \ {"qenc"}
  /\ UNCHANGED <<mapped, live, im, iq, err, sized>>

\* A failed unmap is logged only.
UnmapQenc ==
  /\ Goto("unmap_qenc", "delete_pwm")
  /\ \/ mapped' = mapped \ {"qenc"} /\ UNCHANGED stuck
     \/ stuck' = TRUE /\ UNCHANGED mapped
  /\ UNCHANGED <<heap, live, im, iq, err, sized>>

DeletePwm ==
  /\ at = "delete_pwm" /\ im # 0
  /\ im' = im - 1 /\ Undo("pwm", im - 1)
  /\ UNCHANGED <<mapped, heap, iq, sized>>

FreePwm ==
  /\ im = 0 /\ GoOn("delete_pwm", "unmap_pwm")
  /\ heap' = heap \ {"pwm"}
  /\ UNCHANGED <<mapped, live, im, iq, err, sized>>

UnmapPwm ==
  /\ Goto("unmap_pwm", "returned")
  /\ \/ mapped' = mapped \ {"pwm"} /\ UNCHANGED stuck
     \/ stuck' = TRUE /\ UNCHANGED mapped
  /\ UNCHANGED <<heap, live, im, iq, err, sized>>

-----------------------------------------------------------------------------
\* motors_clean_motor stops the motors, then gives everything back.

\* What platex takes for a driver to clean: one not started yet, one whose init
\* returned 0, and, at a second signal, one cleaned before.
Cleanable == at \in {"start", "up", "cleaned"} \/ (at = "returned" /\ err = "ok")

\* Mutant of CleanStart: the loop that stops the motors starts at the second.
CleanStartAtOne ==
  /\ Cleanable
  /\ at' = "stopping" /\ im' = 1
  /\ UNCHANGED <<resources, iq, err, sized, stuck>>

CleanStart ==
  /\ Cleanable
  /\ at' = "stopping" /\ im' = 0
  /\ UNCHANGED <<resources, iq, err, sized, stuck>>

StopNext ==
  /\ at = "stopping" /\ im < Size("pwm")
  /\ im' = im + 1
  /\ UNCHANGED <<at, resources, iq, err, sized, stuck>>

Stopped ==
  /\ im = Size("pwm") /\ GoOn("stopping", "clean_qenc")
  /\ iq' = 0
  /\ UNCHANGED <<resources, im, err, sized>>

\* Mutant of Delete: the clean goes on after a delete that fails.
DeleteOrNot(part, i) == live' = live \ {<<part, i>>} /\ err' = "ok" /\ UNCHANGED at

\* Delete the i-th mutex of a part; a delete that fails ends the clean.
Delete(part, i) ==
  \/ /\ <<part, i>> \in live
     /\ live' = live \ {<<part, i>>} /\ err' = "ok" /\ UNCHANGED at
  \/ err' = "error" /\ at' = "cleaned" /\ UNCHANGED live

CleanQenc ==
  /\ at = "clean_qenc" /\ iq < Size("qenc")
  /\ Delete("qenc", iq) /\ iq' = iq + 1
  /\ UNCHANGED <<mapped, heap, im, sized, stuck>>

\* free(NULL), of an array never allocated, does nothing.
CleanFreeQenc ==
  /\ iq = Size("qenc") /\ GoOn("clean_qenc", "clean_unmap_qenc")
  /\ heap' = heap \ {"qenc"}
  /\ UNCHANGED <<mapped, live, im, iq, err, sized>>

\* A failed unmap ends the clean, too.
CleanUnmap(part, then) ==
  /\ \/ mapped' = mapped \ {part} /\ err' = "ok" /\ at' = then
     \/ err' = "error" /\ at' = "cleaned" /\ UNCHANGED mapped
  /\ UNCHANGED <<heap, live, iq, stuck, sized>>

CleanUnmapQenc ==
  /\ at = "clean_unmap_qenc"
  /\ CleanUnmap("qenc", "clean_pwm") /\ im' = 0

CleanPwm ==
  /\ at = "clean_pwm" /\ im < Size("pwm")
  /\ Delete("pwm", im) /\ im' = im + 1
  /\ UNCHANGED <<mapped, heap, iq, stuck, sized>>

CleanFreePwm ==
  /\ im = Size("pwm") /\ GoOn("clean_pwm", "clean_unmap_pwm")
  /\ heap' = heap \ {"pwm"}
  /\ UNCHANGED <<mapped, live, im, iq, err, sized>>

CleanUnmapPwm ==
  /\ at = "clean_unmap_pwm"
  /\ CleanUnmap("pwm", "cleaned") /\ UNCHANGED im

\* The robot starts again, with nothing left from the run before.
Held == mapped = {} /\ heap = {} /\ live = {}

Restart ==
  /\ at \in {"returned", "cleaned"} /\ Held
  /\ at' = "start" /\ im' = 0 /\ iq' = 0 /\ err' = "ok"
  /\ sized' = {} /\ stuck' = FALSE
  /\ UNCHANGED resources

\* The steps that touch neither the arrays' contents nor a register.
LifeStep ==
  \/ MapPwm \/ CreatePwm \/ PwmDone \/ MapQenc \/ CreateQenc
  \/ DeleteQenc \/ FreeQenc \/ UnmapQenc \/ DeletePwm \/ FreePwm \/ UnmapPwm
  \/ Stopped \/ CleanQenc \/ CleanFreeQenc \/ CleanUnmapQenc
  \/ CleanPwm \/ CleanFreePwm \/ CleanUnmapPwm

-----------------------------------------------------------------------------
LifeTypeOK ==
  /\ at \in LifeLabels
  /\ mapped \subseteq Part /\ heap \subseteq Part /\ live \subseteq Mutex
  /\ im \in 0..NumMotors /\ iq \in 0..NumEncs
  /\ err \in {"ok", "error"}
  /\ sized \subseteq Part /\ stuck \in BOOLEAN

\* The goto chain and the clean give back everything: an init that failed leaves
\* nothing mapped, allocated or created, unless undoing itself failed, and a clean
\* that returned 0 leaves nothing either.
NothingLeft ==
  /\ at = "returned" /\ ~stuck => Held
  /\ at = "cleaned" /\ err = "ok" => Held

\* What the chain and the clean undo is there: a mutex is in an array and for
\* registers that exist, only what was mapped and allocated is freed or unmapped on
\* the way back, and the clean frees no array a second time, also after an init that
\* failed and returned 0.
UndoneOnce ==
  /\ \A m \in live : m[1] \in heap \cap mapped
  /\ at = "delete_qenc" => {"pwm", "qenc"} \subseteq mapped \cap heap
  /\ at = "unmap_qenc" => "qenc" \in mapped
  /\ at = "delete_pwm" => "pwm" \in mapped \cap heap
  /\ at = "unmap_pwm" => "pwm" \in mapped
  /\ at = "clean_qenc" /\ iq = Size("qenc") => "qenc" \in heap \/ "qenc" \notin sized
  /\ at = "clean_pwm" /\ im = Size("pwm") => "pwm" \in heap \/ "pwm" \notin sized
=============================================================================
