---------------------------- MODULE ModeSelection -----------------------------
(***************************************************************************)
(* mode_selection/mode_selection.c, with pio_init_all and pio_clean_all of *)
(* src/platform_io.c under it and the pipe to lcd_daemon beside it:        *)
(* main_task asks for a mode by display and LEDs, polls the buttons and    *)
(* ends the program with the mode chosen.  SIGTERM and SIGINT run          *)
(* clean_exit on the Linux thread, one inside the other if the second      *)
(* comes meanwhile; afterwards pause returns and so does main.             *)
(*                                                                         *)
(* A register access of main_task, above the Linux thread in priority, is  *)
(* one step; its system calls are steps of their own.  The display shows   *)
(* lines, not characters: what happens below that is in Lcd.  A message    *)
(* written is read, though its writer ends: lcd_task has the higher        *)
(* priority and takes it at once unless it is printing.                    *)
(***************************************************************************)
EXTENDS MapIo, Naturals, Sequences, SequencesExt

CONSTANTS MaxSignals,   \* bound on the signals that arrive
          PipeMax       \* bound on the messages in the pipe

ASSUME ModeAssumption == MaxSignals \in Nat /\ PipeMax \in Nat \ {0}

VARIABLES
  process,   \* "running", or how it ended: "failed", "chosen" or "stopped"
  thread,    \* the Linux thread: "starting", "spawned", "paused", "waking", "ended"
  handlers,  \* the clean_exit running on it, innermost last: signal and step
  pending,   \* signals not delivered yet
  signals,   \* how many have arrived
  task,      \* where main_task stands
  sel,       \* sel_flag: "none", "dev" or "exec"
  core,      \* the General Inputs and Outputs: mapped, with an address, mutex alive
  fd,        \* axs_mem_fd of busio.c
  leds,      \* the position LEDs: "off", "left_right" or "center"
  piped,     \* whether lcd_pipe is open
  pipe,      \* the messages in the pipe
  printing,  \* the lines lcd_task still prints of the last one, with their numbers
  shown,     \* the two lines of the display
  ready      \* history: pio_init_all has succeeded

linux   == <<process, thread, handlers, pending, signals>>
gpio    == <<core, fd>>
display == <<printing, shown>>
vars    == <<linux, task, sel, gpio, leds, piped, pipe, display, ready>>

Core   == {"in", "out"}
Signal == {"SIGTERM", "SIGINT"}
Mode   == {"dev", "exec"}

\* Mutant of Lines: the last message is padded to two lines, like the others.
LinesPadded ==
  [select   |-> <<"Select mode:", "Press left/right">>,
   dev      |-> <<"Pres center!", "Dev mode ON">>,
   exec     |-> <<"Pres center!", "Exec mode ON">>,
   selected |-> <<"Mode Selected", "">>]

\* What each message puts on the display.  The last is 16 bytes: it leaves the
\* second line as it is.
Lines ==
  [select   |-> <<"Select mode:", "Press left/right">>,
   dev      |-> <<"Pres center!", "Dev mode ON">>,
   exec     |-> <<"Pres center!", "Exec mode ON">>,
   selected |-> <<"Mode Selected">>]

Banner == <<"RRCon Platform", "HW SW">>

Init ==
  /\ process = "running" /\ thread = "starting"
  /\ handlers = <<>> /\ pending = {} /\ signals = 0
  /\ task = <<"unborn">> /\ sel = "none"
  /\ core = [c \in Core |-> [mapped |-> FALSE, sized |-> FALSE, alive |-> FALSE]]
  /\ fd = "none"
  /\ leds = "off"
  /\ piped = FALSE /\ pipe = <<>> /\ printing = <<>> /\ shown = Banner
  /\ ready = FALSE

\* exit ends the task and the thread; what was not given back is left as it is.
Exit(how) ==
  /\ process' = how /\ thread' = "ended"
  /\ handlers' = <<>> /\ pending' = {} /\ task' = <<"deleted">>
  /\ UNCHANGED signals

-----------------------------------------------------------------------------
\* The Linux thread runs when no handler does.

OnThread(place) == thread = place /\ handlers = <<>>

\* mlockall or the spawn may fail.
Start ==
  /\ OnThread("starting")
  /\ \/ Exit("failed")
     \/ /\ thread' = "spawned" /\ task' = <<"open">>
        /\ UNCHANGED <<process, handlers, pending, signals>>
  /\ UNCHANGED <<sel, gpio, leds, piped, pipe, display, ready>>

Pause ==
  /\ OnThread("spawned")
  /\ thread' = "paused"
  /\ UNCHANGED <<process, handlers, pending, signals, task, sel, gpio, leds, piped,
                 pipe, display, ready>>

\* main returns after pause has.
MainReturns ==
  /\ OnThread("waking")
  /\ Exit("stopped")
  /\ UNCHANGED <<sel, gpio, leds, piped, pipe, display, ready>>

\* A signal arrives for the process: never lost, but not counted while it waits.
Arrive(s) ==
  /\ process = "running" /\ signals < MaxSignals
  /\ pending' = pending \cup {s} /\ signals' = signals + 1
  /\ UNCHANGED <<process, thread, handlers, task, sel, gpio, leds, piped, pipe,
                 display, ready>>

\* clean_exit starts; a signal is blocked while its own handler runs.
Deliver(s) ==
  /\ s \in pending /\ \A i \in DOMAIN handlers : handlers[i].sig # s
  /\ pending' = pending \ {s}
  /\ handlers' = Append(handlers, [sig |-> s, at |-> 1])
  /\ UNCHANGED <<process, thread, signals, task, sel, gpio, leds, piped, pipe,
                 display, ready>>

\* Mutant of CleanExit: the task is deleted last.
CleanExitTaskLast ==
  << <<"unmap", "in">>, <<"mutex", "in">>, <<"unmap", "out">>, <<"mutex", "out">>,
     <<"delete">>, <<"close">> >>

\* clean_exit: rt_task_delete, pio_clean_all with a gpio_clean per core, close.
CleanExit ==
  << <<"delete">>,
     <<"unmap", "in">>, <<"mutex", "in">>, <<"unmap", "out">>, <<"mutex", "out">>,
     <<"close">> >>

\* The innermost handler goes on to its step i.
HandlerAt(i) == handlers' = [handlers EXCEPT ![Len(handlers)].at = i]

Handling(item) ==
  handlers # <<>> /\ Last(handlers).at <= Len(CleanExit)
    /\ CleanExit[Last(handlers).at] = item

\* To the next step, or, when gpio_clean gives an error, out of pio_clean_all.
HandlerGoes(ok) ==
  /\ HandlerAt(IF ok THEN Last(handlers).at + 1 ELSE Len(CleanExit))
  /\ UNCHANGED <<process, thread, pending, signals>>

DeleteTask ==
  /\ Handling(<<"delete">>)
  /\ task' = IF task = <<"unborn">> THEN task ELSE <<"deleted">>
  /\ HandlerGoes(TRUE)
  /\ UNCHANGED <<sel, gpio, leds, piped, pipe, display, ready>>

UnmapCore(c) ==
  /\ Handling(<<"unmap", c>>)
  /\ core' = IF Unmaps(core[c].sized) THEN [core EXCEPT ![c].mapped = FALSE] ELSE core
  /\ HandlerGoes(Unmaps(core[c].sized))
  /\ UNCHANGED <<task, sel, fd, leds, piped, pipe, display, ready>>

DeleteMutex(c) ==
  /\ Handling(<<"mutex", c>>)
  /\ core' = [core EXCEPT ![c].alive = FALSE]
  /\ HandlerGoes(core[c].alive)
  /\ UNCHANGED <<task, sel, fd, leds, piped, pipe, display, ready>>

ClosePipe ==
  /\ Handling(<<"close">>)
  /\ piped' = FALSE
  /\ HandlerGoes(TRUE)
  /\ UNCHANGED <<task, sel, gpio, leds, pipe, display, ready>>

\* Mutants of HandlerReturns: clean_exit ends the program itself; main pauses in a
\* loop.
HandlerExits ==
  /\ handlers # <<>> /\ Last(handlers).at > Len(CleanExit)
  /\ Exit("stopped")
  /\ UNCHANGED <<sel, gpio, leds, piped, pipe, display, ready>>

HandlerReturnsToLoop ==
  /\ handlers # <<>> /\ Last(handlers).at > Len(CleanExit)
  /\ handlers' = Front(handlers)
  /\ UNCHANGED <<process, thread, pending, signals, task, sel, gpio, leds, piped, pipe,
                 display, ready>>

\* The outermost clean_exit returns into pause, which then returns, or into main
\* before it pauses.
HandlerReturns ==
  /\ handlers # <<>> /\ Last(handlers).at > Len(CleanExit)
  /\ handlers' = Front(handlers)
  /\ thread' = IF Len(handlers) = 1 /\ thread = "paused" THEN "waking" ELSE thread
  /\ UNCHANGED <<process, pending, signals, task, sel, gpio, leds, piped, pipe,
                 display, ready>>

-----------------------------------------------------------------------------
\* main_task.

OpenPipe ==
  /\ task = <<"open">>
  /\ \/ Exit("failed") /\ UNCHANGED piped
     \/ task' = <<"map", "in">> /\ piped' = TRUE /\ UNCHANGED linux
  /\ UNCHANGED <<sel, gpio, leds, pipe, display, ready>>

\* gpio_init maps the core, then creates the mutex; without an interrupt function
\* that is all.  gpio_set_dir comes after it, whatever it returned.
MapCore(c) ==
  /\ task = <<"map", c>>
  /\ \E m \in Ioremap(fd) :
       /\ fd' = m.fd
       /\ core' = [core EXCEPT ![c].mapped = m.ok, ![c].sized = @ \/ m.ok]
       /\ task' = <<IF m.ok THEN "create" ELSE "failed_dir", c>>
  /\ UNCHANGED <<linux, sel, leds, piped, pipe, display, ready>>

CreateMutex(c) ==
  /\ task = <<"create", c>>
  /\ \E ok \in BOOLEAN :
       /\ core' = [core EXCEPT ![c].alive = ok]
       /\ task' = <<IF ok THEN "dir" ELSE "failed_dir", c>>
  /\ UNCHANGED <<linux, sel, fd, leds, piped, pipe, display, ready>>

SetDir(c) ==
  /\ task = <<"dir", c>>
  /\ task' = IF c = "in" THEN <<"map", "out">> ELSE <<"greet">>
  /\ ready' = (c = "out")
  /\ UNCHANGED <<linux, sel, gpio, leds, piped, pipe, display>>

\* When the outputs fail, pio_init_all cleans the inputs.
SetDirFailed(c) ==
  /\ task = <<"failed_dir", c>>
  /\ task' = IF c = "in" THEN <<"give_up">> ELSE <<"undo_unmap">>
  /\ UNCHANGED <<linux, sel, gpio, leds, piped, pipe, display, ready>>

UndoUnmap ==
  /\ task = <<"undo_unmap">>
  /\ core' = [core EXCEPT !["in"].mapped = FALSE]
  /\ task' = <<"undo_delete">>
  /\ UNCHANGED <<linux, sel, fd, leds, piped, pipe, display, ready>>

UndoDelete ==
  /\ task = <<"undo_delete">>
  /\ core' = [core EXCEPT !["in"].alive = FALSE]
  /\ task' = <<"give_up">>
  /\ UNCHANGED <<linux, sel, fd, leds, piped, pipe, display, ready>>

GiveUp ==
  /\ task = <<"give_up">>
  /\ Exit("failed")
  /\ UNCHANGED <<sel, gpio, leds, piped, pipe, display, ready>>

\* write on the pipe; nobody looks at its result.  PipeMax bounds the messages
\* lcd_task has not read: main_task sends one per blink, which takes longer than
\* printing one.
Send(m) ==
  /\ Len(pipe) < PipeMax
  /\ pipe' = IF piped THEN Append(pipe, m) ELSE pipe

\* gpio_write gives an error and writes nothing without the mutex.
Light(l) == leds' = IF core["out"].alive THEN l ELSE leds

Greet ==
  /\ task = <<"greet">>
  /\ Send("select")
  /\ task' = <<"blink", "left_right", 1>>
  /\ UNCHANGED <<linux, sel, gpio, leds, piped, display, ready>>

\* On, off and on again, with a sleep after the first two.
Blink ==
  /\ task[1] = "blink"
  /\ Light(IF task[3] = 2 THEN "off" ELSE task[2])
  /\ task' = IF task[3] < 3 THEN [task EXCEPT ![3] = @ + 1] ELSE <<"poll">>
  /\ UNCHANGED <<linux, sel, gpio, piped, pipe, display, ready>>

\* pio_read_buttons finds one button pressed; no button, and two, change nothing.
Poll(button) ==
  /\ task = <<"poll">> /\ core["in"].alive
  /\ button = "center" => sel # "none"
  /\ task' = CASE button = "right"  -> <<"tell", "dev">>
               [] button = "left"   -> <<"tell", "exec">>
               [] button = "center" -> <<"leds_off">>
  /\ UNCHANGED <<linux, sel, gpio, leds, piped, pipe, display, ready>>

Tell ==
  /\ task[1] = "tell"
  /\ Send(task[2]) /\ sel' = task[2]
  /\ task' = <<"blink", "center", 1>>
  /\ UNCHANGED <<linux, gpio, leds, piped, display, ready>>

LedsOff ==
  /\ task = <<"leds_off">>
  /\ Light("off") /\ task' = <<"farewell">>
  /\ UNCHANGED <<linux, sel, gpio, piped, pipe, display, ready>>

Farewell ==
  /\ task = <<"farewell">>
  /\ Send("selected") /\ task' = <<"exit">>
  /\ UNCHANGED <<linux, sel, gpio, leds, piped, display, ready>>

Choose ==
  /\ task = <<"exit">>
  /\ Exit("chosen")
  /\ UNCHANGED <<sel, gpio, leds, piped, pipe, display, ready>>

-----------------------------------------------------------------------------
\* lcd_task reads a message into its buffer and prints it line by line.

Receive ==
  /\ printing = <<>> /\ pipe # <<>>
  /\ printing' = [i \in DOMAIN Lines[Head(pipe)] |-> <<i, Lines[Head(pipe)][i]>>]
  /\ pipe' = Tail(pipe)
  /\ UNCHANGED <<linux, task, sel, gpio, leds, piped, shown, ready>>

PrintLine ==
  /\ printing # <<>>
  /\ shown' = [shown EXCEPT ![Head(printing)[1]] = Head(printing)[2]]
  /\ printing' = Tail(printing)
  /\ UNCHANGED <<linux, task, sel, gpio, leds, piped, pipe, ready>>

-----------------------------------------------------------------------------
Handler ==
  \/ DeleteTask \/ ClosePipe \/ HandlerReturns
  \/ \E c \in Core : UnmapCore(c) \/ DeleteMutex(c)

MainTask ==
  \/ OpenPipe \/ UndoUnmap \/ UndoDelete \/ GiveUp
  \/ \E c \in Core : MapCore(c) \/ CreateMutex(c) \/ SetDir(c) \/ SetDirFailed(c)
  \/ Greet \/ Blink \/ Tell \/ LedsOff \/ Farewell \/ Choose
  \/ \E b \in {"left", "right", "center"} : Poll(b)

Daemon == Receive \/ PrintLine

Next ==
  \/ Start \/ Pause \/ MainReturns
  \/ \E s \in Signal : Arrive(s) \/ Deliver(s)
  \/ Handler \/ MainTask \/ Daemon

Spec == Init /\ [][Next]_vars

Fairness ==
  /\ WF_vars(Daemon)
  /\ WF_vars(Handler) /\ WF_vars(MainReturns)
  /\ \A s \in Signal : WF_vars(Deliver(s))

FairSpec == Spec /\ Fairness

-----------------------------------------------------------------------------
TypeOK ==
  /\ process \in {"running", "failed", "chosen", "stopped"}
  /\ thread \in {"starting", "spawned", "paused", "waking", "ended"}
  /\ handlers \in Seq([sig : Signal, at : 1..Len(CleanExit) + 1])
  /\ pending \subseteq Signal /\ signals \in 0..MaxSignals
  /\ sel \in Mode \cup {"none"}
  /\ core \in [Core -> [mapped : BOOLEAN, sized : BOOLEAN, alive : BOOLEAN]]
  /\ fd \in MemFds
  /\ leds \in {"off", "left_right", "center"}
  /\ pipe \in Seq(DOMAIN Lines) /\ Len(pipe) <= PipeMax
  /\ Len(printing) <= 2 /\ Len(shown) = 2

\* The core whose registers the next step of main_task touches.
Touches(c) ==
  \/ task \in {<<"dir", c>>, <<"failed_dir", c>>}
  \/ c = "in" /\ task = <<"poll">>
  \/ c = "out" /\ task[1] \in {"blink", "leds_off"}

\* main_task never touches a core that is not mapped: neither after a start that
\* failed halfway nor under a clean_exit, however many run and wherever they
\* find it.
RegistersMapped == \A c \in Core : Touches(c) /\ core[c].alive => core[c].mapped

\* Once the cores have been initialised, a program ended by signals has given back
\* all it had, even when one clean_exit interrupted another and each of the two
\* stopped at what the other had cleaned.
CleanGivesBack ==
  process = "stopped" /\ ready =>
    /\ ~piped
    /\ \A c \in Core : ~core[c].mapped /\ ~core[c].alive

\* The mode the program ends with is the mode the display ends up showing, though
\* the last message says only that one was selected and leaves the second line to
\* the message before it; and the LEDs are off.
ChosenIsShown ==
  \A m \in Mode :
    process = "chosen" /\ sel = m ~>
      shown = <<"Mode Selected", Lines[m][2]>> /\ leds = "off"

\* A signal that finds the Linux thread in pause ends the program.
SignalEnds == thread = "paused" /\ pending # {} ~> process # "running"
===============================================================================
