------------------------------- MODULE GpioLife -------------------------------
(***************************************************************************)
(* gpio_init and gpio_clean of src/gpio.c, called by Main through          *)
(* pio_init_geninputs of src/platform_io.c, around the register access of  *)
(* Gpio.  gpio_init maps the core, creates the mutex and, when a function  *)
(* is given for the interrupt, an interrupt object and the task "Int"; the *)
(* last steps of it are calls of the driver itself.  On an error it        *)
(* returns at once and leaves what it has made, but gpio_set_dir is called *)
(* all the same; the program then exits.  The arguments of gpio_init are   *)
(* chosen where they are first looked at.                                  *)
(***************************************************************************)
EXTENDS Gpio, MapIo, Sequences

CONSTANT Main    \* the task that starts and stops the driver

ASSUME MainAssumption == Main \in IrqTask /\ "enable" \in IrqKinds

VARIABLES
  phase,   \* where Main stands in gpio_init or gpio_clean
  todo,    \* the calls of the driver Main still makes on its way
  fd,      \* axs_mem_fd of busio.c
  mapped,  \* whether gpio->vadd points into a mapping
  alive,   \* whether gpio->mutex exists
  intr     \* interrupt: object of rt_intr_create, task, gpio->isr

life == <<phase, todo, fd, mapped, alive, intr>>

lifeVars == <<vars, life>>

\* "finishing" and "failing": gpio_init is done but for the calls in todo.
Phases == {"down", "create", "intr", "spawn", "finishing", "failing", "up",
           "delete", "intr_delete", "gone"}

SetDir == [kind |-> "dir", on |-> TRUE]

\* gpio_irq_enable_global, then gpio_irq_enable_channel in the order of the switch.
EnableIrqs(flags) ==
  <<[kind |-> "gie", on |-> TRUE]>>
  \o (IF 1 \in flags THEN <<[kind |-> "enable", n |-> 1]>> ELSE <<>>)
  \o (IF 2 \in flags THEN <<[kind |-> "enable", n |-> 2]>> ELSE <<>>)

LifeInit ==
  /\ Init
  /\ phase = "down" /\ todo = <<>>
  /\ fd = "none" /\ mapped = FALSE /\ alive = FALSE
  /\ intr = [object |-> FALSE, task |-> FALSE, isr |-> FALSE]

Quiet == \A t \in Task : pc[t] = "idle"

\* gpio_init goes on at p, or returns an error.
Goes(ok, p) ==
  /\ phase' = IF ok THEN p ELSE "failing"
  /\ todo' = IF ok /\ p # "finishing" THEN <<>> ELSE <<SetDir>>

-----------------------------------------------------------------------------
Map ==
  /\ phase = "down"
  /\ \E m \in Ioremap(fd) :
       fd' = m.fd /\ mapped' = m.ok /\ Goes(m.ok, "create")
  /\ UNCHANGED <<vars, alive, intr>>

CreateMutex ==
  /\ phase = "create"
  /\ alive' \in BOOLEAN
  /\ \E fisr \in BOOLEAN :
       /\ Goes(alive', IF fisr THEN "intr" ELSE "finishing")
       /\ intr' = [intr EXCEPT !.isr = @ /\ (fisr \/ ~alive')]
  /\ UNCHANGED <<vars, fd, mapped>>

CreateIntr ==
  /\ phase = "intr"
  /\ \E ok \in BOOLEAN :
       /\ Goes(ok, "spawn")
       /\ intr' = [intr EXCEPT !.object = ok]
  /\ UNCHANGED <<vars, fd, mapped, alive>>

\* The name "Int" is taken as long as the task of an earlier start exists, which
\* gpio_clean does not delete.
Spawn ==
  /\ phase = "spawn"
  /\ \/ /\ ~intr.task
        /\ intr' = [intr EXCEPT !.task = TRUE, !.isr = TRUE]
        /\ phase' = "finishing"
        /\ \E flags \in {{1}, {2}, Channel} : todo' = EnableIrqs(flags) \o <<SetDir>>
     \/ Goes(FALSE, "spawn") /\ UNCHANGED intr
  /\ UNCHANGED <<vars, fd, mapped, alive>>

\* The function of the interrupt may return, and its task ends.
IntEnds ==
  /\ intr.task
  /\ intr' = [intr EXCEPT !.task = FALSE]
  /\ UNCHANGED <<vars, phase, todo, fd, mapped, alive>>

NextCall ==
  /\ todo # <<>>
  /\ Call(Main, Head(todo)) /\ todo' = Tail(todo)
  /\ UNCHANGED <<phase, fd, mapped, alive, intr>>

\* pio_init_geninputs returns what gpio_init did; after an error its callers exit.
Started ==
  /\ phase \in {"finishing", "failing"} /\ todo = <<>> /\ pc[Main] = "idle"
  /\ phase' = IF phase = "finishing" THEN "up" ELSE "gone"
  /\ UNCHANGED <<vars, todo, fd, mapped, alive, intr>>

\* gpio_clean runs when no call is in flight: its note leaves that to the user.
Unmap ==
  /\ phase = "up" /\ Quiet
  /\ phase' = "delete" /\ mapped' = FALSE
  /\ UNCHANGED <<vars, todo, fd, alive, intr>>

\* Mutant of DeleteMutex: the mutex is forgotten.
DeleteMutexForgotten ==
  /\ phase = "delete"
  /\ phase' = IF intr.isr THEN "intr_delete" ELSE "down"
  /\ UNCHANGED <<vars, todo, fd, mapped, alive, intr>>

DeleteMutex ==
  /\ phase = "delete"
  /\ alive' = FALSE
  /\ phase' = IF intr.isr THEN "intr_delete" ELSE "down"
  /\ UNCHANGED <<vars, todo, fd, mapped, intr>>

\* Neither the GIE nor the IER is written; the interrupt task is not deleted.
DeleteIntr ==
  /\ phase = "intr_delete"
  /\ phase' = "down"
  /\ intr' = [intr EXCEPT !.object = FALSE]
  /\ UNCHANGED <<vars, todo, fd, mapped, alive>>

Lifecycle ==
  \/ Map \/ CreateMutex \/ CreateIntr \/ Spawn \/ NextCall \/ Started
  \/ Unmap \/ DeleteMutex \/ DeleteIntr

\* The callers of pio_* set neither GIE nor direction themselves.
UserStep(t) ==
  /\ \/ phase = "up" /\ \E c \in CallsOf(t) \ WordCalls : Call(t, c)
     \/ alive /\ Entering(t)
     \/ (~alive \/ ~CanAcquire(mutex, t)) /\ Refused(t)
     \/ Inner(t)
  /\ UNCHANGED life

LifeNext ==
  \/ Lifecycle \/ IntEnds
  \/ InputChanges /\ UNCHANGED life
  \/ \E t \in Task : UserStep(t)

LifeSpec == LifeInit /\ [][LifeNext]_lifeVars

-----------------------------------------------------------------------------
LifeTypeOK ==
  /\ phase \in Phases
  /\ todo \in Seq(Calls)
  /\ fd \in MemFds
  /\ mapped \in BOOLEAN /\ alive \in BOOLEAN
  /\ intr \in [object : BOOLEAN, task : BOOLEAN, isr : BOOLEAN]

\* No task touches a register of a core that is not mapped, though gpio_set_dir is
\* called even after a gpio_init that failed, perhaps to map the core again: what
\* stops it is that the mutex never outlives the mapping it guards.
UsedWhileMapped ==
  \A t \in Task : pc[t] \in {"read_load", "load", "store"} => mapped
=============================================================================
