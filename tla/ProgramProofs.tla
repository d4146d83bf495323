------------------------------ MODULE ProgramProofs ---------------------------
(***************************************************************************)
(* Proofs about ModeSelection, for any number of signals and of messages   *)
(* in the pipe, and about Mii, for any widths of its frames that meet the  *)
(* assumptions and any number of resets.  The two share nothing here: a    *)
(* theorem speaks of one of them.                                          *)
(***************************************************************************)
EXTENDS ModeSelection, Mii, TLAPS, SequenceTheorems

-----------------------------------------------------------------------------
(***************************************************************************)
(* The mode selection program.                                             *)
(***************************************************************************)

\* A core as pio_init_all makes it, and one of which nothing is held.
Up(c) == core[c].mapped /\ core[c].sized /\ core[c].alive
Bare(c) == ~core[c].mapped /\ ~core[c].alive

\* The places of main_task once pio_init_all has returned success.
Working == {"greet", "blink", "poll", "tell", "leds_off", "farewell", "exit"}

\* What main_task has made of the cores where it stands.
On(label, c) == task[1] = label /\ task[2] = c

PlaceInv ==
  /\ task[1] \in {"unborn", "open"} \/ On("map", "in") => Bare("in") /\ Bare("out")
  /\ On("create", "in") => core["in"].mapped /\ core["in"].sized /\ Bare("out")
  /\ On("dir", "in") \/ On("map", "out") => Up("in") /\ Bare("out")
  /\ \A c \in Core : On("failed_dir", c) => ~core[c].alive
  /\ On("create", "out") => Up("in") /\ core["out"].mapped /\ core["out"].sized
  /\ On("dir", "out") \/ task[1] \in Working => Up("in") /\ Up("out")

\* The task is not there any more.
Gone == task[1] \in {"unborn", "deleted"}

\* A clean_exit deletes the task before it does anything else, and a process that
\* has ended does nothing.
GoneInv ==
  /\ \A i \in DOMAIN handlers : handlers[i].at > 1 => Gone
  /\ thread = "starting" => task[1] = "unborn"
  /\ thread = "waking" => Gone
  /\ process # "running" =>
       handlers = <<>> /\ pending = {} /\ thread = "ended" /\ task[1] = "deleted"

AllGiven == \A c \in Core : Bare(c)

\* What a clean_exit is past it has given back; one that gives up, because another
\* was there before it, leaves the rest to that one.
GivenInv ==
  ready =>
    /\ core["in"].sized /\ core["out"].sized
    /\ task[1] \in Working \cup {"deleted"}
    /\ \A i \in DOMAIN handlers :
         /\ handlers[i].at >= 3 => ~core["in"].mapped
         /\ handlers[i].at >= 4 => ~core["in"].alive
         /\ handlers[i].at = 5 => ~core["out"].mapped
         /\ handlers[i].at = 7 => ~piped
    /\ ~core["in"].alive => AllGiven \/ \E i \in DOMAIN handlers : handlers[i].at \in {4, 5}
    /\ thread = "waking" \/ process = "stopped" => ~core["in"].alive /\ ~piped

HandlerFrame == [sig : Signal, at : 1..7]

Types ==
  /\ handlers \in Seq(HandlerFrame)
  /\ core \in [Core -> [mapped : BOOLEAN, sized : BOOLEAN, alive : BOOLEAN]]
  /\ piped \in BOOLEAN /\ ready \in BOOLEAN
  /\ task[1] = "unborn" => task = <<"unborn">>
  /\ task[1] = "blink" => task = <<"blink", task[2], task[3]>>

ModeInv == Types /\ PlaceInv /\ GoneInv /\ GivenInv

-----------------------------------------------------------------------------
\* The steps of clean_exit, by their places.
LEMMA CleanExitItems ==
  ASSUME handlers \in Seq(HandlerFrame)
  PROVE  /\ Len(CleanExit) = 6
         /\ Handling(<<"delete">>) => handlers[Len(handlers)].at = 1
         /\ Handling(<<"unmap", "in">>) => handlers[Len(handlers)].at = 2
         /\ Handling(<<"mutex", "in">>) => handlers[Len(handlers)].at = 3
         /\ Handling(<<"unmap", "out">>) => handlers[Len(handlers)].at = 4
         /\ Handling(<<"mutex", "out">>) => handlers[Len(handlers)].at = 5
         /\ Handling(<<"close">>) => handlers[Len(handlers)].at = 6
<1>1. /\ Len(CleanExit) = 6
      /\ CleanExit[1] = <<"delete">> /\ CleanExit[2] = <<"unmap", "in">>
      /\ CleanExit[3] = <<"mutex", "in">> /\ CleanExit[4] = <<"unmap", "out">>
      /\ CleanExit[5] = <<"mutex", "out">> /\ CleanExit[6] = <<"close">>
  BY DEF CleanExit
<1> DEFINE place == handlers[Len(handlers)].at
<1>2. ASSUME NEW item, Handling(item)
      PROVE  place \in 1..6 /\ CleanExit[place] = item
  <2>1. handlers[Len(handlers)] \in HandlerFrame
    BY <1>2 DEF Handling
  <2>2. QED
    BY <1>1, <1>2, <2>1 DEF Handling, Last, HandlerFrame
<1> HIDE DEF place
<1>3. ASSUME NEW i \in 1..6, NEW item, CleanExit[i] = item
      PROVE  /\ item[1] = "delete" => i = 1
             /\ item[1] = "unmap" /\ item[2] = "in" => i = 2
             /\ item[1] = "mutex" /\ item[2] = "in" => i = 3
             /\ item[1] = "unmap" /\ item[2] = "out" => i = 4
             /\ item[1] = "mutex" /\ item[2] = "out" => i = 5
             /\ item[1] = "close" => i = 6
  <2>1. i \in {1, 2, 3, 4, 5, 6}
    OBVIOUS
  <2>2. QED
    BY <1>1, <1>3, <2>1
<1>4. QED
  BY <1>1, <1>2, <1>3 DEF place

\* A handler that goes on moves alone.
LEMMA HandlerMoves ==
  ASSUME handlers \in Seq(HandlerFrame), handlers # <<>>, NEW i \in 1..7, HandlerAt(i)
  PROVE  /\ handlers' \in Seq(HandlerFrame) /\ Len(handlers') = Len(handlers)
         /\ DOMAIN handlers' = DOMAIN handlers /\ Len(handlers) \in DOMAIN handlers
         /\ handlers'[Len(handlers)].at = i
         /\ \A j \in DOMAIN handlers : j # Len(handlers) => handlers'[j] = handlers[j]
<1>1. /\ Len(handlers) \in Nat \ {0} /\ DOMAIN handlers = 1..Len(handlers)
      /\ \A j \in 1..Len(handlers) : handlers[j] \in HandlerFrame
  OBVIOUS
<1>2. Len(handlers) \in DOMAIN handlers /\ handlers[Len(handlers)] \in HandlerFrame
  BY <1>1
<1>3. [handlers[Len(handlers)] EXCEPT !.at = i] \in HandlerFrame
  BY <1>2 DEF HandlerFrame
<1>4. /\ handlers' = [handlers EXCEPT ![Len(handlers)] =
                        [handlers[Len(handlers)] EXCEPT !.at = i]]
  BY DEF HandlerAt
<1>5. handlers' \in Seq(HandlerFrame) /\ Len(handlers') = Len(handlers)
  BY <1>2, <1>3, <1>4
<1>6. handlers'[Len(handlers)] = [handlers[Len(handlers)] EXCEPT !.at = i]
  BY <1>2, <1>4
<1>7. [handlers[Len(handlers)] EXCEPT !.at = i].at = i
  BY <1>2 DEF HandlerFrame
<1>8. QED
  BY <1>1, <1>2, <1>4, <1>5, <1>6, <1>7

\* A signal adds a handler at its start.
LEMMA HandlerStarts ==
  ASSUME handlers \in Seq(HandlerFrame), NEW s \in Signal, Deliver(s)
  PROVE  /\ handlers' \in Seq(HandlerFrame)
         /\ \A j \in DOMAIN handlers' : handlers'[j].at = 1 \/
              (j \in DOMAIN handlers /\ handlers'[j] = handlers[j])
         /\ \A j \in DOMAIN handlers : j \in DOMAIN handlers' /\ handlers'[j] = handlers[j]
<1>1. [sig |-> s, at |-> 1] \in HandlerFrame
  BY DEF HandlerFrame
<1>2. handlers' = Append(handlers, [sig |-> s, at |-> 1])
  BY DEF Deliver
<1>3. QED
  BY <1>1, <1>2

\* The innermost handler returns, and leaves the others as they are.
LEMMA HandlerEnds ==
  ASSUME handlers \in Seq(HandlerFrame), HandlerReturns
  PROVE  /\ handlers' \in Seq(HandlerFrame)
         /\ handlers[Len(handlers)].at = 7 /\ Len(handlers) \in DOMAIN handlers
         /\ \A j \in DOMAIN handlers' : j \in DOMAIN handlers /\ handlers'[j] = handlers[j]
         /\ \A j \in DOMAIN handlers :
              j # Len(handlers) => j \in DOMAIN handlers' /\ handlers'[j] = handlers[j]
<1>1. /\ Len(handlers) \in Nat \ {0} /\ DOMAIN handlers = 1..Len(handlers)
      /\ \A j \in 1..Len(handlers) : handlers[j] \in HandlerFrame
  BY DEF HandlerReturns
<1>2. handlers' = SubSeq(handlers, 1, Len(handlers) - 1)
  BY DEF HandlerReturns, Front
<1>3. handlers[Len(handlers)].at > 6 /\ handlers[Len(handlers)].at \in 1..7
  <2>1. handlers[Len(handlers)] \in HandlerFrame
    BY <1>1
  <2>2. QED
    BY <2>1, CleanExitItems DEF HandlerReturns, Last, HandlerFrame
<1>4. QED
  BY <1>1, <1>2, <1>3

\* Where the steps of the innermost handler are, and where it goes.
LEMMA Stepping ==
  ASSUME Types
  PROVE  /\ DeleteTask => handlers[Len(handlers)].at = 1 /\ HandlerAt(2)
         /\ UnmapCore("in") => /\ handlers[Len(handlers)].at = 2
                               /\ HandlerAt(IF core["in"].sized THEN 3 ELSE 6)
         /\ DeleteMutex("in") => /\ handlers[Len(handlers)].at = 3
                                 /\ HandlerAt(IF core["in"].alive THEN 4 ELSE 6)
         /\ UnmapCore("out") => /\ handlers[Len(handlers)].at = 4
                                /\ HandlerAt(IF core["out"].sized THEN 5 ELSE 6)
         /\ DeleteMutex("out") => handlers[Len(handlers)].at = 5 /\ HandlerAt(6)
         /\ ClosePipe => handlers[Len(handlers)].at = 6 /\ HandlerAt(7)
<1>1. handlers \in Seq(HandlerFrame)
  BY DEF Types
<1>2. Last(handlers) = handlers[Len(handlers)]
  BY DEF Last
<1>3. ASSUME NEW item, NEW ok \in BOOLEAN, Handling(item), HandlerGoes(ok)
      PROVE  HandlerAt(IF ok THEN handlers[Len(handlers)].at + 1 ELSE 6)
  BY <1>1, <1>2, <1>3, CleanExitItems DEF HandlerGoes
<1>4. DeleteTask => handlers[Len(handlers)].at = 1 /\ HandlerAt(2)
  <2>1. HandlerGoes(TRUE) => HandlerAt(handlers[Len(handlers)].at + 1)
    BY <1>2 DEF HandlerGoes
  <2>2. QED
    BY <1>1, <2>1, CleanExitItems DEF DeleteTask
<1>5. core["in"].sized \in BOOLEAN /\ core["in"].alive \in BOOLEAN
      /\ core["out"].sized \in BOOLEAN /\ core["out"].alive \in BOOLEAN
  BY DEF Types, Core
<1>6. UnmapCore("in") => /\ handlers[Len(handlers)].at = 2
                         /\ HandlerAt(IF core["in"].sized THEN 3 ELSE 6)
  BY <1>1, <1>3, <1>5, CleanExitItems DEF UnmapCore, Unmaps
<1>7. DeleteMutex("in") => /\ handlers[Len(handlers)].at = 3
                           /\ HandlerAt(IF core["in"].alive THEN 4 ELSE 6)
  BY <1>1, <1>3, <1>5, CleanExitItems DEF DeleteMutex
<1>8. UnmapCore("out") => /\ handlers[Len(handlers)].at = 4
                          /\ HandlerAt(IF core["out"].sized THEN 5 ELSE 6)
  BY <1>1, <1>3, <1>5, CleanExitItems DEF UnmapCore, Unmaps
<1>9. DeleteMutex("out") => handlers[Len(handlers)].at = 5 /\ HandlerAt(6)
  BY <1>1, <1>3, <1>5, CleanExitItems DEF DeleteMutex
<1>10. ClosePipe => handlers[Len(handlers)].at = 6 /\ HandlerAt(7)
  <2>1. HandlerGoes(TRUE) => HandlerAt(handlers[Len(handlers)].at + 1)
    BY <1>2 DEF HandlerGoes
  <2>2. QED
    BY <1>1, <2>1, CleanExitItems DEF ClosePipe
<1>11. QED
  BY <1>4, <1>6, <1>7, <1>8, <1>9, <1>10

\* The steps of the handlers but for its end: who moves and what stays.
Cleaning ==
  \/ DeleteTask \/ ClosePipe
  \/ \E c \in Core : UnmapCore(c) \/ DeleteMutex(c)

LEMMA CleaningFrame ==
  ASSUME Types, Cleaning
  PROVE  /\ handlers # <<>> /\ \E i \in 2..7 : HandlerAt(i)
         /\ UNCHANGED <<process, thread, pending, ready>>
         /\ task' = task \/ (task' = <<"deleted">> /\ task # <<"unborn">> /\ core' = core)
         /\ DeleteTask \/ (task' = task /\ handlers[Len(handlers)].at > 1)
         /\ \A c \in Core :
              /\ core'[c].sized = core[c].sized
              /\ core'[c].mapped => core[c].mapped
              /\ core'[c].alive => core[c].alive
<1>1. core \in [Core -> [mapped : BOOLEAN, sized : BOOLEAN, alive : BOOLEAN]]
  BY DEF Types
<1> USE DEF Cleaning, DeleteTask, ClosePipe, UnmapCore, DeleteMutex, HandlerGoes, gpio
<1>2. handlers # <<>> /\ UNCHANGED <<process, thread, pending, ready>>
  BY DEF Handling
<1>3. \E i \in 2..7 : HandlerAt(i)
  <2>1. Cleaning => \/ DeleteTask \/ ClosePipe \/ UnmapCore("in") \/ DeleteMutex("in")
                    \/ UnmapCore("out") \/ DeleteMutex("out")
    BY DEF Core
  <2> HIDE DEF Cleaning, DeleteTask, ClosePipe, UnmapCore, DeleteMutex
  <2>2. \/ HandlerAt(2) \/ HandlerAt(3) \/ HandlerAt(4) \/ HandlerAt(5) \/ HandlerAt(6)
        \/ HandlerAt(7)
    BY <2>1, Stepping
  <2>3. QED
    BY <2>2
<1>4. task' = task \/ (task' = <<"deleted">> /\ task # <<"unborn">> /\ core' = core)
  OBVIOUS
<1>5. ASSUME NEW c \in Core
      PROVE  /\ core'[c].sized = core[c].sized
             /\ core'[c].mapped => core[c].mapped
             /\ core'[c].alive => core[c].alive
  <2>1. CASE core' = core
    BY <2>1
  <2>2. ASSUME NEW d \in Core, core' = [core EXCEPT ![d].mapped = FALSE]
        PROVE  /\ core'[c].sized = core[c].sized
               /\ core'[c].mapped => core[c].mapped
               /\ core'[c].alive => core[c].alive
    BY <1>1, <2>2
  <2>3. ASSUME NEW d \in Core, core' = [core EXCEPT ![d].alive = FALSE]
        PROVE  /\ core'[c].sized = core[c].sized
               /\ core'[c].mapped => core[c].mapped
               /\ core'[c].alive => core[c].alive
    BY <1>1, <2>3
  <2>4. QED
    BY <2>1, <2>2, <2>3
<1>6. DeleteTask \/ (task' = task /\ handlers[Len(handlers)].at > 1)
  <2>1. DeleteTask \/ task' = task
    OBVIOUS
  <2>2. Cleaning => \/ DeleteTask \/ ClosePipe \/ UnmapCore("in") \/ DeleteMutex("in")
                    \/ UnmapCore("out") \/ DeleteMutex("out")
    BY DEF Core
  <2> HIDE DEF Cleaning, DeleteTask, ClosePipe, UnmapCore, DeleteMutex
  <2>3. DeleteTask \/ handlers[Len(handlers)].at \in {2, 3, 4, 5, 6}
    BY <2>2, Stepping
  <2>4. QED
    BY <2>1, <2>3
<1>7. QED
  BY <1>2, <1>3, <1>4, <1>5, <1>6

\* The steps of the Linux thread and of signals leave cores, pipe and history alone.
Threads ==
  \/ Start \/ Pause \/ MainReturns
  \/ \E s \in Signal : Arrive(s) \/ Deliver(s)

LEMMA ThreadsFrame ==
  ASSUME Types, Threads
  PROVE  /\ UNCHANGED <<core, piped, ready>>
         /\ \/ task' = task
            \/ task' = <<"deleted">>
            \/ thread = "starting" /\ handlers = <<>> /\ task' = <<"open">>
         /\ handlers' = handlers \/ \E s \in Signal : Deliver(s)
         /\ thread' = "waking" => thread = "waking"
         /\ process' = "stopped" => process = "stopped" \/ thread = "waking"
<1>1. CASE Start \/ MainReturns
  BY <1>1 DEF Start, MainReturns, OnThread, Exit, gpio
<1>2. CASE Pause \/ \E s \in Signal : Arrive(s)
  BY <1>2 DEF Pause, Arrive, gpio
<1>3. CASE \E s \in Signal : Deliver(s)
  <2>1. PICK s \in Signal : Deliver(s)
    BY <1>3
  <2>2. UNCHANGED core /\ UNCHANGED <<piped, ready, task, thread, process>>
    BY <2>1 DEF Deliver, gpio
  <2>3. QED
    BY <1>3, <2>2
<1>4. QED
  BY <1>1, <1>2, <1>3 DEF Threads

\* A step of main_task, which is there, changes the handlers only by ending it all.
LEMMA MainFrame ==
  ASSUME Types, MainTask
  PROVE  /\ ~Gone
         /\ \/ UNCHANGED linux
            \/ /\ process' # "stopped" /\ thread' = "ended" /\ handlers' = <<>>
               /\ pending' = {} /\ task' = <<"deleted">>
               /\ UNCHANGED <<core, ready>>
<1> USE DEF MainTask, OpenPipe, UndoUnmap, UndoDelete, GiveUp, MapCore, CreateMutex,
    SetDir, SetDirFailed, Greet, Blink, Tell, LedsOff, Farewell, Choose, Poll
<1>1. ~Gone
  BY DEF Gone
<1>2. \/ UNCHANGED linux
      \/ /\ process' # "stopped" /\ thread' = "ended" /\ handlers' = <<>>
         /\ pending' = {} /\ task' = <<"deleted">>
         /\ UNCHANGED <<core, ready>>
  BY DEF Exit, gpio
<1>3. QED
  BY <1>1, <1>2

LEMMA Cases ==
  ASSUME [Next]_vars
  PROVE  Threads \/ Cleaning \/ HandlerReturns \/ MainTask \/
         UNCHANGED <<process, thread, handlers, pending, task, core, piped, ready>>
BY DEF Next, vars, linux, gpio, display, Threads, Cleaning, Handler, Daemon, Receive,
   PrintLine

\* A blink goes on to the next, or to the buttons.
LEMMA BlinkStep ==
  ASSUME Types, Blink
  PROVE  task' = <<"poll">> \/ \E l, k : task' = <<"blink", l, k>>
<1>1. PICK l, k : task = <<"blink", l, k>>
  BY DEF Types, Blink
<1>2. [task EXCEPT ![3] = k + 1] = <<"blink", l, k + 1>>
  BY <1>1
<1>3. QED
  BY <1>1, <1>2 DEF Blink

-----------------------------------------------------------------------------
\* Every step keeps the types.
LEMMA TypesStep ==
  ASSUME Types, [Next]_vars
  PROVE  Types'
<1>typ. /\ handlers \in Seq(HandlerFrame)
        /\ core \in [Core -> [mapped : BOOLEAN, sized : BOOLEAN, alive : BOOLEAN]]
        /\ piped \in BOOLEAN /\ ready \in BOOLEAN
        /\ task[1] = "unborn" => task = <<"unborn">>
        /\ task[1] = "blink" => \E l, k : task = <<"blink", l, k>>
  BY DEF Types
<1>empty. <<>> \in Seq(HandlerFrame)
  OBVIOUS
<1>1. CASE Threads
  <2>1. handlers' \in Seq(HandlerFrame)
    <3>1. ASSUME NEW s \in Signal, Deliver(s) PROVE handlers' \in Seq(HandlerFrame)
      BY <1>typ, <3>1, HandlerStarts
    <3>2. CASE handlers' = handlers \/ handlers' = <<>>
      BY <1>typ, <1>empty, <3>2
    <3>3. QED
      BY <1>1, <3>1, <3>2, ThreadsFrame
  <2>2. (task'[1] = "blink" => \E l, k : task' = <<"blink", l, k>>)
        /\ (task'[1] = "unborn" => task' = <<"unborn">>)
    BY <1>1, <1>typ, ThreadsFrame
  <2>3. QED
    BY <1>1, <1>typ, <2>1, <2>2, ThreadsFrame DEF Types
<1>2. CASE Cleaning
  <2>1. handlers' \in Seq(HandlerFrame)
    <3>1. PICK i \in 2..7 : HandlerAt(i)
      BY <1>2, CleaningFrame
    <3>2. i \in 1..7 /\ handlers # <<>>
      BY <1>2, CleaningFrame
    <3>3. QED
      BY <1>typ, <3>1, <3>2, HandlerMoves
  <2>2. core' \in [Core -> [mapped : BOOLEAN, sized : BOOLEAN, alive : BOOLEAN]]
    BY <1>2, <1>typ DEF Cleaning, DeleteTask, ClosePipe, UnmapCore, DeleteMutex, gpio
  <2>3. piped' \in BOOLEAN /\ ready' \in BOOLEAN
    BY <1>2, <1>typ DEF Cleaning, DeleteTask, ClosePipe, UnmapCore, DeleteMutex
  <2>4. (task'[1] = "blink" => \E l, k : task' = <<"blink", l, k>>)
        /\ (task'[1] = "unborn" => task' = <<"unborn">>)
    BY <1>2, <1>typ, CleaningFrame
  <2>5. QED
    BY <2>1, <2>2, <2>3, <2>4 DEF Types
<1>3. CASE HandlerReturns
  <2>1. handlers' \in Seq(HandlerFrame)
    BY <1>3, <1>typ, HandlerEnds
  <2>2. UNCHANGED <<core, piped, ready, task>>
    BY <1>3 DEF HandlerReturns, gpio
  <2>3. QED
    BY <1>typ, <2>1, <2>2 DEF Types
<1>4. CASE MainTask
  <2>1. handlers' \in Seq(HandlerFrame)
    <3>1. handlers' = handlers \/ handlers' = <<>>
      BY <1>4, MainFrame DEF linux
    <3>2. QED
      BY <1>typ, <1>empty, <3>1
  <2>2. core' \in [Core -> [mapped : BOOLEAN, sized : BOOLEAN, alive : BOOLEAN]]
    <3>1. ASSUME NEW c \in Core, MapCore(c)
          PROVE  core' \in [Core -> [mapped : BOOLEAN, sized : BOOLEAN, alive : BOOLEAN]]
      <4>1. PICK m \in Ioremap(fd) :
              core' = [core EXCEPT ![c].mapped = m.ok, ![c].sized = @ \/ m.ok]
        BY <3>1 DEF MapCore
      <4>2. m.ok \in BOOLEAN
        BY DEF Ioremap
      <4>3. QED
        BY <1>typ, <4>1, <4>2
    <3>2. ASSUME NEW c \in Core, CreateMutex(c)
          PROVE  core' \in [Core -> [mapped : BOOLEAN, sized : BOOLEAN, alive : BOOLEAN]]
      BY <1>typ, <3>2 DEF CreateMutex
    <3>3. CASE UndoUnmap \/ UndoDelete
      BY <1>typ, <3>3 DEF UndoUnmap, UndoDelete
    <3>4. CASE core' = core
      BY <1>typ, <3>4
    <3>5. QED
      BY <1>4, <3>1, <3>2, <3>3, <3>4 DEF MainTask, OpenPipe, GiveUp, SetDir,
         SetDirFailed, Greet, Blink, Tell, LedsOff, Farewell, Choose, Poll, gpio
  <2>3. piped' \in BOOLEAN
    BY <1>4, <1>typ DEF MainTask, OpenPipe, UndoUnmap, UndoDelete, GiveUp, MapCore,
       CreateMutex, SetDir, SetDirFailed, Greet, Blink, Tell, LedsOff, Farewell, Choose,
       Poll
  <2>4. ready' \in BOOLEAN
    BY <1>4, <1>typ DEF MainTask, OpenPipe, UndoUnmap, UndoDelete, GiveUp, MapCore,
       CreateMutex, SetDir, SetDirFailed, Greet, Blink, Tell, LedsOff, Farewell, Choose,
       Poll
  <2>5. (task'[1] = "blink" => \E l, k : task' = <<"blink", l, k>>)
        /\ (task'[1] = "unborn" => task' = <<"unborn">>)
    <3>1. CASE Blink
      BY <3>1, BlinkStep
    <3>2. CASE Greet \/ Tell
      BY <3>2 DEF Greet, Tell
    <3>3. ASSUME NEW b \in {"left", "right", "center"}, Poll(b)
          PROVE  task'[1] \notin {"blink", "unborn"}
      <4>1. task' \in {<<"tell", "dev">>, <<"tell", "exec">>, <<"leds_off">>}
        BY <3>3 DEF Poll
      <4>2. QED
        BY <4>1
    <3>4. ASSUME NEW c \in Core, MapCore(c) \/ CreateMutex(c)
          PROVE  task'[1] \notin {"blink", "unborn"}
      <4>1. task' \in {<<"create", c>>, <<"failed_dir", c>>, <<"dir", c>>}
        BY <3>4 DEF MapCore, CreateMutex
      <4>2. QED
        BY <4>1
    <3>5. ASSUME NEW c \in Core, SetDir(c) \/ SetDirFailed(c)
          PROVE  task'[1] \notin {"blink", "unborn"}
      BY <3>5 DEF SetDir, SetDirFailed
    <3>6. CASE OpenPipe \/ UndoUnmap \/ UndoDelete \/ GiveUp \/ LedsOff \/ Farewell \/ Choose
      BY <3>6 DEF OpenPipe, UndoUnmap, UndoDelete, GiveUp, LedsOff, Farewell, Choose, Exit
    <3>7. QED
      BY <1>4, <3>1, <3>2, <3>3, <3>4, <3>5, <3>6 DEF MainTask
  <2>6. QED
    BY <2>1, <2>2, <2>3, <2>4, <2>5 DEF Types
<1>5. CASE UNCHANGED <<process, thread, handlers, pending, task, core, piped, ready>>
  BY <1>typ, <1>5 DEF Types
<1>6. QED
  BY <1>1, <1>2, <1>3, <1>4, <1>5, Cases

\* Whatever a clean_exit does, the task is not there afterwards.
LEMMA CleaningGone ==
  ASSUME Types, GoneInv, Cleaning
  PROVE  Gone'
<1>1. CASE DeleteTask
  BY <1>1 DEF DeleteTask, Gone
<1>2. CASE ~DeleteTask
  <2>1. handlers[Len(handlers)].at > 1 /\ task' = task /\ handlers # <<>>
    BY <1>2, CleaningFrame
  <2>2. Len(handlers) \in DOMAIN handlers
    BY <2>1 DEF Types
  <2>3. QED
    BY <2>1, <2>2 DEF GoneInv, Gone
<1>3. QED
  BY <1>1, <1>2

\* Bare of the program is left running behind a clean_exit.
LEMMA GoneStep ==
  ASSUME Types, GoneInv, [Next]_vars
  PROVE  GoneInv'
<1>typ. handlers \in Seq(HandlerFrame)
  BY DEF Types
<1>1. CASE Threads
  <2>1. ASSUME NEW i \in DOMAIN handlers', handlers'[i].at > 1 PROVE Gone'
    <3>1. handlers' # <<>>
      BY <2>1
    <3>2. \/ handlers' = handlers /\ Gone /\ handlers # <<>>
          \/ (\E s \in Signal : Deliver(s)) /\ Gone
      BY <1>1, <1>typ, <2>1, <3>1, ThreadsFrame, HandlerStarts DEF GoneInv
    <3>3. CASE task' = task
      BY <3>2, <3>3 DEF Gone
    <3>4. CASE task' = <<"deleted">>
      BY <3>4 DEF Gone
    <3>5. CASE thread = "starting" /\ handlers = <<>> /\ task' = <<"open">>
      <4>1. PICK s \in Signal : Deliver(s)
        BY <3>2, <3>5
      <4>2. task' = task
        BY <4>1 DEF Deliver
      <4>3. QED
        BY <3>2, <4>2 DEF Gone
    <3>6. QED
      BY <1>1, <3>3, <3>4, <3>5, ThreadsFrame
  <2>2. thread' = "starting" => task'[1] = "unborn"
    BY <1>1 DEF Threads, Start, Pause, MainReturns, Arrive, Deliver, Exit, GoneInv
  <2>3. thread' = "waking" => Gone'
    BY <1>1 DEF Threads, Start, Pause, MainReturns, Arrive, Deliver, Exit, GoneInv, Gone
  <2>4. process' # "running" =>
          /\ handlers' = <<>> /\ pending' = {} /\ thread' = "ended"
          /\ task'[1] = "deleted"
    <3>1. CASE Start \/ MainReturns
      BY <3>1 DEF Start, MainReturns, Exit, GoneInv, OnThread
    <3>2. CASE Pause \/ \E s \in Signal : Arrive(s) \/ Deliver(s)
      BY <3>2 DEF Pause, OnThread, Arrive, Deliver, GoneInv
    <3>3. QED
      BY <1>1, <3>1, <3>2 DEF Threads
  <2>5. QED
    BY <2>1, <2>2, <2>3, <2>4 DEF GoneInv
<1>2. CASE Cleaning
  <2>1. PICK i \in 2..7 : HandlerAt(i)
    BY <1>2, CleaningFrame
  <2>2. i \in 1..7 /\ handlers # <<>> /\ UNCHANGED <<process, thread, pending>>
    BY <1>2, CleaningFrame
  <2>3. /\ DOMAIN handlers' = DOMAIN handlers /\ Len(handlers) \in DOMAIN handlers
        /\ \A j \in DOMAIN handlers : j # Len(handlers) => handlers'[j] = handlers[j]
    BY <1>typ, <2>1, <2>2, HandlerMoves
  <2>4. Gone'
    BY <1>2, CleaningGone
  <2>5. task[1] = "unborn" => task'[1] = "unborn"
    BY <1>2, CleaningFrame DEF Types
  <2>6. process = "running"
    BY <2>2 DEF GoneInv
  <2>7. QED
    BY <2>2, <2>4, <2>5, <2>6 DEF GoneInv
<1>3. CASE HandlerReturns
  <2>1. /\ handlers # <<>> /\ UNCHANGED <<process, pending, task>>
        /\ thread' \in {thread, "waking"} /\ (thread' = "starting" => thread = "starting")
    BY <1>3 DEF HandlerReturns
  <2>2. Gone
    BY <1>3, <1>typ, HandlerEnds DEF GoneInv
  <2>3. process = "running"
    BY <2>1 DEF GoneInv
  <2>4. QED
    BY <2>1, <2>2, <2>3 DEF GoneInv, Gone
<1>4. CASE MainTask
  <2>1. ~Gone
    BY <1>4, MainFrame
  <2>2. CASE UNCHANGED linux
    <3>1. process = "running" /\ thread \notin {"starting", "waking"}
      BY <2>1 DEF GoneInv, Gone
    <3>2. \A i \in DOMAIN handlers : ~(handlers[i].at > 1)
      BY <2>1 DEF GoneInv
    <3>3. QED
      BY <2>2, <3>1, <3>2 DEF GoneInv, linux
  <2>3. CASE ~UNCHANGED linux
    BY <1>4, <2>3, MainFrame DEF GoneInv
  <2>4. QED
    BY <2>2, <2>3
<1>5. CASE UNCHANGED <<process, thread, handlers, pending, task, core, piped, ready>>
  BY <1>5 DEF GoneInv, Gone
<1>6. QED
  BY <1>1, <1>2, <1>3, <1>4, <1>5, Cases

\* Once pio_init_all has returned, main_task leaves the cores alone.
LEMMA WorkStep ==
  ASSUME Types, MainTask
  PROVE  /\ (Greet \/ Blink \/ Tell \/ LedsOff \/ Farewell
             \/ \E b \in {"left", "right", "center"} : Poll(b))
              => task[1] \in Working /\ task'[1] \in Working /\ core' = core
         /\ task[1] \in Working =>
              task'[1] \in Working \cup {"deleted"} /\ core' = core
<1>1. ASSUME Greet \/ Tell \/ LedsOff \/ Farewell
      PROVE  task[1] \in Working /\ task'[1] \in Working /\ core' = core
  BY <1>1 DEF Greet, Tell, LedsOff, Farewell, Working, gpio
<1>2. ASSUME Blink
      PROVE  task[1] \in Working /\ task'[1] \in Working /\ core' = core
  <2>1. task[1] = "blink" /\ core' = core
    BY <1>2 DEF Blink, gpio
  <2>2. task'[1] \in {"poll", "blink"}
    BY <1>2, BlinkStep
  <2>3. QED
    BY <2>1, <2>2 DEF Working
<1>3. ASSUME NEW b \in {"left", "right", "center"}, Poll(b)
      PROVE  task[1] \in Working /\ task'[1] \in Working /\ core' = core
  <2>1. /\ task' \in {<<"tell", "dev">>, <<"tell", "exec">>, <<"leds_off">>}
        /\ task[1] = "poll" /\ core' = core
    BY <1>3 DEF Poll, gpio
  <2>2. QED
    BY <2>1 DEF Working
<1>4. ASSUME Choose PROVE task'[1] = "deleted" /\ core' = core
  BY <1>4 DEF Choose, Exit, gpio
<1>5. ASSUME task[1] \in Working
      PROVE  \/ Greet \/ Blink \/ Tell \/ LedsOff \/ Farewell \/ Choose
             \/ \E b \in {"left", "right", "center"} : Poll(b)
  BY <1>5 DEF MainTask, OpenPipe, UndoUnmap, UndoDelete, GiveUp, MapCore, CreateMutex,
     SetDir, SetDirFailed, Working
<1>6. QED
  BY <1>1, <1>2, <1>3, <1>4, <1>5

\* What a handler does next it may do, whatever the others have done before.
LEMMA CleaningGives ==
  ASSUME ModeInv, Cleaning, ready'
  PROVE  GivenInv'
<1>inv. Types /\ GoneInv /\ GivenInv
  BY DEF ModeInv
<1>typ. /\ handlers \in Seq(HandlerFrame)
        /\ core \in [Core -> [mapped : BOOLEAN, sized : BOOLEAN, alive : BOOLEAN]]
  BY <1>inv DEF Types
<1>1. /\ handlers # <<>> /\ UNCHANGED <<process, thread, ready>>
      /\ \A c \in Core :
           /\ core'[c].sized = core[c].sized
           /\ core'[c].mapped => core[c].mapped
           /\ core'[c].alive => core[c].alive
  BY <1>inv, CleaningFrame
<1>2. piped' => piped
  BY DEF Cleaning, DeleteTask, ClosePipe, UnmapCore, DeleteMutex
<1> DEFINE n == Len(handlers)
<1>3. /\ n \in DOMAIN handlers
      /\ DOMAIN handlers' = DOMAIN handlers
      /\ \A i \in DOMAIN handlers : i # n => handlers'[i] = handlers[i]
  <2>1. PICK i \in 2..7 : HandlerAt(i)
    BY <1>inv, CleaningFrame
  <2>2. i \in 1..7
    OBVIOUS
  <2>3. QED
    BY <1>typ, <1>1, <2>1, <2>2, HandlerMoves
<1>4. /\ ready /\ core["in"].sized /\ core["out"].sized
      /\ task[1] \in Working \cup {"deleted"}
      /\ \A i \in DOMAIN handlers :
           /\ handlers[i].at >= 3 => ~core["in"].mapped
           /\ handlers[i].at >= 4 => ~core["in"].alive
           /\ handlers[i].at = 5 => ~core["out"].mapped
           /\ handlers[i].at = 7 => ~piped
      /\ ~core["in"].alive => AllGiven \/ \E i \in DOMAIN handlers : handlers[i].at \in {4, 5}
      /\ thread = "waking" \/ process = "stopped" => ~core["in"].alive /\ ~piped
  BY <1>1, <1>inv DEF GivenInv
<1>5. ASSUME NEW i \in 1..7, HandlerAt(i) PROVE handlers'[n].at = i
  BY <1>typ, <1>1, <1>5, HandlerMoves
<1> HIDE DEF n
<1>6. /\ handlers'[n].at >= 3 => ~core'["in"].mapped
      /\ handlers'[n].at >= 4 => ~core'["in"].alive
      /\ handlers'[n].at = 5 => ~core'["out"].mapped
      /\ handlers'[n].at = 7 => ~piped'
      /\ \/ handlers'[n].at \in {4, 5} \/ AllGiven'
         \/ handlers[n].at \notin {4, 5} /\ core'["in"].alive = core["in"].alive
  <2>1. CASE DeleteTask
    <3>1. core' = core
      BY <2>1 DEF DeleteTask, gpio
    <3>2. handlers[n].at = 1 /\ HandlerAt(2)
      BY <2>1, <1>inv, Stepping DEF n
    <3>3. handlers'[n].at = 2
      BY <1>5, <3>2
    <3>4. QED
      BY <3>1, <3>2, <3>3
  <2>2. CASE UnmapCore("in")
    <3>1. handlers[n].at = 2 /\ handlers'[n].at = 3
      BY <2>2, <1>inv, <1>4, <1>5, Stepping DEF n
    <3>2. ~core'["in"].mapped /\ core'["in"].alive = core["in"].alive
      BY <2>2, <1>4, <1>typ DEF UnmapCore, Unmaps, Core
    <3>3. QED
      BY <3>1, <3>2
  <2>3. CASE DeleteMutex("in")
    <3>1. /\ handlers[n].at = 3
          /\ handlers'[n].at = IF core["in"].alive THEN 4 ELSE 6
      BY <2>3, <1>inv, <1>5, Stepping DEF n
    <3>2. ~core'["in"].alive
      BY <2>3, <1>typ DEF DeleteMutex, Core
    <3>3. ~core'["in"].mapped
      BY <1>1, <1>3, <1>4, <3>1 DEF Core
    <3>4. core["in"].alive \in BOOLEAN /\ core'["in"].alive \in BOOLEAN
      BY <2>3, <1>typ DEF DeleteMutex, Core
    <3>5. QED
      BY <3>1, <3>2, <3>3, <3>4
  <2>4. CASE UnmapCore("out")
    <3>1. handlers[n].at = 4 /\ handlers'[n].at = 5
      BY <2>4, <1>inv, <1>4, <1>5, Stepping DEF n
    <3>2. ~core'["out"].mapped
      BY <2>4, <1>4, <1>typ DEF UnmapCore, Unmaps, Core
    <3>3. ~core'["in"].mapped /\ ~core'["in"].alive
      BY <1>1, <1>3, <1>4, <3>1 DEF Core
    <3>4. QED
      BY <3>1, <3>2, <3>3
  <2>5. CASE DeleteMutex("out")
    <3>1. handlers[n].at = 5 /\ handlers'[n].at = 6
      BY <2>5, <1>inv, <1>5, Stepping DEF n
    <3>2. ~core'["out"].alive
      BY <2>5, <1>typ DEF DeleteMutex, Core
    <3>3. ~core'["in"].mapped /\ ~core'["in"].alive /\ ~core'["out"].mapped
      BY <1>1, <1>3, <1>4, <3>1 DEF Core
    <3>4. AllGiven'
      BY <3>2, <3>3 DEF AllGiven, Bare, Core
    <3>5. QED
      BY <3>1, <3>3, <3>4
  <2>6. CASE ClosePipe
    <3>1. core' = core /\ ~piped'
      BY <2>6 DEF ClosePipe, gpio
    <3>2. handlers[n].at = 6 /\ HandlerAt(7)
      BY <2>6, <1>inv, Stepping DEF n
    <3>3. handlers'[n].at = 7
      BY <1>5, <3>2
    <3>4. QED
      BY <1>1, <1>3, <1>4, <3>1, <3>2, <3>3
  <2>7. QED
    BY <2>1, <2>2, <2>3, <2>4, <2>5, <2>6 DEF Cleaning, Core
<1>7. task'[1] \in Working \cup {"deleted"}
  BY <1>inv, <1>4, CleaningFrame
<1>8. \A i \in DOMAIN handlers' :
        /\ handlers'[i].at >= 3 => ~core'["in"].mapped
        /\ handlers'[i].at >= 4 => ~core'["in"].alive
        /\ handlers'[i].at = 5 => ~core'["out"].mapped
        /\ handlers'[i].at = 7 => ~piped'
  BY <1>1, <1>2, <1>3, <1>4, <1>6 DEF Core
<1>9. ~core'["in"].alive =>
        AllGiven' \/ \E i \in DOMAIN handlers' : handlers'[i].at \in {4, 5}
  <2>1. AllGiven => AllGiven'
    BY <1>1 DEF AllGiven, Bare
  <2>2. QED
    BY <1>3, <1>4, <1>6, <2>1
<1>10. /\ core'["in"].sized /\ core'["out"].sized
       /\ thread' = "waking" \/ process' = "stopped" => ~core'["in"].alive /\ ~piped'
  BY <1>1, <1>2, <1>4 DEF Core
<1>11. QED
  BY <1>7, <1>8, <1>9, <1>10 DEF GivenInv

\* The cores are what the place of main_task says, until it is not there.
LEMMA PlaceStep ==
  ASSUME Types, PlaceInv, GoneInv, [Next]_vars
  PROVE  PlaceInv'
<1>typ. core \in [Core -> [mapped : BOOLEAN, sized : BOOLEAN, alive : BOOLEAN]]
  BY DEF Types
<1>gone. task'[1] = "deleted" => PlaceInv'
  BY DEF PlaceInv, On, Working
<1>same. UNCHANGED <<task, core>> => PlaceInv'
  BY DEF PlaceInv, On, Up, Bare
<1>1. CASE Threads
  <2>1. CASE thread = "starting" /\ task' = <<"open">>
    <3>1. Bare("in") /\ Bare("out") /\ core' = core
      BY <1>1, <2>1, ThreadsFrame DEF PlaceInv, GoneInv
    <3>2. QED
      BY <2>1, <3>1 DEF PlaceInv, On, Working, Bare
  <2>2. QED
    BY <1>1, <1>gone, <1>same, <2>1, ThreadsFrame
<1>2. CASE Cleaning
  <2>1. CASE task'[1] = "unborn"
    <3>1. task' = task
      BY <1>2, <2>1, CleaningFrame
    <3>2. Bare("in") /\ Bare("out")
      BY <2>1, <3>1 DEF PlaceInv
    <3>3. Bare("in")' /\ Bare("out")'
      BY <1>2, <3>2, CleaningFrame DEF Bare, Core
    <3>4. QED
      BY <2>1, <3>3 DEF PlaceInv, On, Working
  <2>2. QED
    BY <1>2, <1>gone, <2>1, CleaningGone DEF Gone
<1>3. CASE HandlerReturns
  BY <1>3, <1>same DEF HandlerReturns, gpio
<1>4. CASE MainTask
  <2>1. CASE OpenPipe \/ GiveUp \/ Choose
    <3>1. task'[1] = "deleted" \/ (OpenPipe /\ task' = <<"map", "in">> /\ core' = core)
      BY <2>1 DEF OpenPipe, GiveUp, Choose, Exit, gpio
    <3>2. OpenPipe => Bare("in") /\ Bare("out")
      BY DEF OpenPipe, PlaceInv
    <3>3. QED
      BY <1>gone, <3>1, <3>2 DEF PlaceInv, On, Working, Bare
  <2>2. ASSUME NEW c \in Core, MapCore(c) PROVE PlaceInv'
    <3>1. PICK m \in Ioremap(fd) :
            /\ core' = [core EXCEPT ![c].mapped = m.ok, ![c].sized = @ \/ m.ok]
            /\ task' = <<IF m.ok THEN "create" ELSE "failed_dir", c>>
      BY <2>2 DEF MapCore
    <3>2. On("map", c)
      BY <2>2 DEF MapCore, On
    <3>3. Bare(c) /\ (c = "out" => Up("in")) /\ (c = "in" => Bare("out"))
      BY <3>2 DEF PlaceInv, On, Core
    <3>4. m.ok \in BOOLEAN
      BY DEF Ioremap
    <3>5. /\ core'[c].mapped = m.ok /\ (m.ok => core'[c].sized) /\ ~core'[c].alive
          /\ \A d \in Core : d # c => core'[d] = core[d]
      BY <1>typ, <3>1, <3>3, <3>4 DEF Bare
    <3>6. CASE m.ok
      <4>1. task' = <<"create", c>>
        BY <3>1, <3>6
      <4>2. QED
        BY <3>3, <3>5, <3>6, <4>1 DEF PlaceInv, On, Working, Bare, Up, Core
    <3>7. CASE ~m.ok
      <4>1. task' = <<"failed_dir", c>>
        BY <3>1, <3>7
      <4>2. QED
        BY <3>5, <4>1 DEF PlaceInv, On, Working
    <3>8. QED
      BY <3>6, <3>7
  <2>3. ASSUME NEW c \in Core, CreateMutex(c) PROVE PlaceInv'
    <3>1. PICK ok \in BOOLEAN :
            /\ core' = [core EXCEPT ![c].alive = ok]
            /\ task' = <<IF ok THEN "dir" ELSE "failed_dir", c>>
      BY <2>3 DEF CreateMutex
    <3>2. On("create", c)
      BY <2>3 DEF CreateMutex, On
    <3>3. /\ core[c].mapped /\ core[c].sized
          /\ (c = "out" => Up("in")) /\ (c = "in" => Bare("out"))
      BY <3>2 DEF PlaceInv, On, Core
    <3>4. /\ core'[c].mapped /\ core'[c].sized /\ core'[c].alive = ok
          /\ \A d \in Core : d # c => core'[d] = core[d]
      BY <1>typ, <3>1, <3>3
    <3>5. CASE ok
      <4>1. task' = <<"dir", c>>
        BY <3>1, <3>5
      <4>2. QED
        BY <3>3, <3>4, <3>5, <4>1 DEF PlaceInv, On, Working, Bare, Up, Core
    <3>6. CASE ~ok
      <4>1. task' = <<"failed_dir", c>>
        BY <3>1, <3>6
      <4>2. QED
        BY <3>4, <3>6, <4>1 DEF PlaceInv, On, Working
    <3>7. QED
      BY <3>5, <3>6
  <2>4. CASE SetDir("in")
    <3>1. task' = <<"map", "out">> /\ core' = core /\ On("dir", "in")
      BY <2>4 DEF SetDir, gpio, On
    <3>2. QED
      BY <3>1 DEF PlaceInv, On, Working, Up, Bare
  <2>5. CASE SetDir("out")
    <3>1. task' = <<"greet">> /\ core' = core /\ On("dir", "out")
      BY <2>5 DEF SetDir, gpio, On
    <3>2. QED
      BY <3>1 DEF PlaceInv, On, Working, Up
  <2>6. ASSUME NEW c \in Core, SetDirFailed(c) PROVE PlaceInv'
    <3>1. task' \in {<<"give_up">>, <<"undo_unmap">>}
      BY <2>6 DEF SetDirFailed
    <3>2. QED
      BY <3>1 DEF PlaceInv, On, Working
  <2>7. CASE UndoUnmap \/ UndoDelete
    <3>1. task' \in {<<"undo_delete">>, <<"give_up">>}
      BY <2>7 DEF UndoUnmap, UndoDelete
    <3>2. QED
      BY <3>1 DEF PlaceInv, On, Working
  <2>8. CASE task[1] \in Working /\ task'[1] \in Working /\ core' = core
    BY <2>8 DEF PlaceInv, On, Working, Up, Bare
  <2>9. QED
    BY <1>4, <2>1, <2>2, <2>3, <2>4, <2>5, <2>6, <2>7, <2>8, WorkStep DEF MainTask, Core
<1>5. CASE UNCHANGED <<process, thread, handlers, pending, task, core, piped, ready>>
  BY <1>5, <1>same
<1>6. QED
  BY <1>1, <1>2, <1>3, <1>4, <1>5, Cases

-----------------------------------------------------------------------------
\* Between them, the handlers give back what they find.
LEMMA GivenStep ==
  ASSUME ModeInv, [Next]_vars
  PROVE  GivenInv'
<1>inv. Types /\ PlaceInv /\ GoneInv /\ GivenInv
  BY DEF ModeInv
<1>typ. /\ handlers \in Seq(HandlerFrame)
        /\ core \in [Core -> [mapped : BOOLEAN, sized : BOOLEAN, alive : BOOLEAN]]
  BY <1>inv DEF Types
<1> SUFFICES ASSUME ready' PROVE GivenInv'
  BY DEF GivenInv
<1>1. CASE Threads
  <2>1. UNCHANGED <<core, piped, ready>>
    BY <1>1, <1>inv, ThreadsFrame
  <2>2. task'[1] \in Working \cup {"deleted"}
    <3>1. task[1] \in Working \cup {"deleted"} /\ thread # "starting"
      BY <2>1, <1>inv DEF GivenInv, GoneInv, Working
    <3>2. QED
      BY <1>1, <1>inv, <3>1, ThreadsFrame
  <2>3. /\ \A i \in DOMAIN handlers' : handlers'[i].at = 1 \/
             (i \in DOMAIN handlers /\ handlers'[i] = handlers[i])
        /\ \A i \in DOMAIN handlers : i \in DOMAIN handlers' /\ handlers'[i] = handlers[i]
    <3>1. ASSUME NEW s \in Signal, Deliver(s)
          PROVE  /\ \A i \in DOMAIN handlers' : handlers'[i].at = 1 \/
                      (i \in DOMAIN handlers /\ handlers'[i] = handlers[i])
                 /\ \A i \in DOMAIN handlers :
                      i \in DOMAIN handlers' /\ handlers'[i] = handlers[i]
      BY <1>typ, <3>1, HandlerStarts
    <3>2. QED
      BY <1>1, <1>inv, <3>1, ThreadsFrame
  <2>4. thread' = "waking" \/ process' = "stopped" => thread = "waking" \/ process = "stopped"
    BY <1>1, <1>inv, ThreadsFrame
  <2>5. QED
    BY <1>inv, <2>1, <2>2, <2>3, <2>4 DEF GivenInv, AllGiven, Bare
<1>2. CASE Cleaning
  BY <1>2, <1>inv, CleaningGives
<1>3. CASE HandlerReturns
  <2>1. UNCHANGED <<core, piped, ready, task, process>>
    BY <1>3 DEF HandlerReturns, gpio
  <2>2. ~core["in"].alive /\ ~piped
    <3>1. handlers[Len(handlers)].at = 7 /\ Len(handlers) \in DOMAIN handlers
      BY <1>3, <1>typ, HandlerEnds
    <3>2. QED
      BY <1>inv, <2>1, <3>1 DEF GivenInv
  <2>3. /\ \A i \in DOMAIN handlers' : i \in DOMAIN handlers /\ handlers'[i] = handlers[i]
        /\ \A i \in DOMAIN handlers : handlers[i].at \in {4, 5} =>
             i \in DOMAIN handlers' /\ handlers'[i] = handlers[i]
    BY <1>3, <1>typ, HandlerEnds
  <2>4. QED
    BY <1>inv, <2>1, <2>2, <2>3 DEF GivenInv, AllGiven, Bare
<1>4. CASE MainTask
  <2>1. /\ ~Gone /\ process = "running" /\ thread # "waking"
        /\ \A i \in DOMAIN handlers : ~(handlers[i].at > 1)
    BY <1>4, <1>inv, MainFrame DEF GoneInv, Gone
  <2>2. /\ process' # "stopped" /\ thread' # "waking"
        /\ \A i \in DOMAIN handlers' : ~(handlers'[i].at > 1)
    <3>1. CASE UNCHANGED linux
      BY <1>inv, <2>1, <3>1 DEF linux
    <3>2. CASE process' # "stopped" /\ thread' = "ended" /\ handlers' = <<>>
      BY <3>2
    <3>3. QED
      BY <1>4, <1>inv, <3>1, <3>2, MainFrame
  <2>3. /\ task[1] \in Working \/ On("dir", "out")
        /\ task'[1] \in Working \cup {"deleted"} /\ core' = core
    <3>1. CASE ready
      <4>1. task[1] \in Working
        BY <1>inv, <2>1, <3>1 DEF GivenInv, Gone
      <4>2. QED
        BY <1>4, <1>inv, <4>1, WorkStep
    <3>2. CASE ~ready
      <4>1. SetDir("out")
        BY <1>4, <3>2 DEF MainTask, OpenPipe, UndoUnmap, UndoDelete, GiveUp, MapCore,
           CreateMutex, SetDir, SetDirFailed, Greet, Blink, Tell, LedsOff, Farewell,
           Choose, Poll
      <4>2. QED
        BY <4>1 DEF SetDir, On, Working, gpio
    <3>3. QED
      BY <3>1, <3>2
  <2>4. core'["in"].sized /\ core'["out"].sized /\ core'["in"].alive
    BY <1>inv, <2>3 DEF PlaceInv, Up
  <2>5. \A i \in DOMAIN handlers' : handlers'[i].at \in 1..7
    <3>1. handlers' \in Seq(HandlerFrame)
      BY <1>inv, TypesStep DEF Types
    <3>2. \A i \in DOMAIN handlers' : handlers'[i] \in HandlerFrame
      BY <3>1
    <3>3. QED
      BY <3>2 DEF HandlerFrame
  <2>6. QED
    BY <2>2, <2>3, <2>4, <2>5 DEF GivenInv
<1>5. CASE UNCHANGED <<process, thread, handlers, pending, task, core, piped, ready>>
  BY <1>inv, <1>5 DEF GivenInv, AllGiven, Bare
<1>6. QED
  BY <1>inv, <1>1, <1>2, <1>3, <1>4, <1>5, Cases

-----------------------------------------------------------------------------
LEMMA ModeInitially ==
  ASSUME Init
  PROVE  ModeInv
<1>1. Types
  <2>1. <<>> \in Seq(HandlerFrame)
    OBVIOUS
  <2>2. core \in [Core -> [mapped : BOOLEAN, sized : BOOLEAN, alive : BOOLEAN]]
    BY DEF Init
  <2>3. handlers = <<>> /\ task = <<"unborn">> /\ piped = FALSE /\ ready = FALSE
    BY DEF Init
  <2>4. piped \in BOOLEAN /\ ready \in BOOLEAN /\ task[1] # "blink"
    BY <2>3
  <2>5. QED
    BY <2>1, <2>2, <2>3, <2>4 DEF Types
<1>2. PlaceInv /\ GoneInv /\ GivenInv
  BY DEF Init, PlaceInv, GoneInv, GivenInv, On, Bare, Working, Core
<1>3. QED
  BY <1>1, <1>2 DEF ModeInv

\* The invariant holds at all times.
LEMMA ModeInvariance == Spec => []ModeInv
<1>1. ModeInv /\ [Next]_vars => ModeInv'
  <2> SUFFICES ASSUME ModeInv, [Next]_vars PROVE ModeInv'
    OBVIOUS
  <2>1. Types /\ PlaceInv /\ GoneInv
    BY DEF ModeInv
  <2>2. Types' /\ PlaceInv' /\ GoneInv'
    BY <2>1, TypesStep, PlaceStep, GoneStep
  <2>3. GivenInv'
    BY GivenStep
  <2>4. QED
    BY <2>2, <2>3 DEF ModeInv
<1>2. QED
  BY <1>1, ModeInitially, PTL DEF Spec

\* main_task uses no register of a core that is not mapped: a start that fails hands
\* out nothing, and a clean_exit deletes the task before it unmaps a core.
THEOREM CoresAreMapped == Spec => []RegistersMapped
<1>1. ModeInv => RegistersMapped
  <2> SUFFICES ASSUME ModeInv, NEW c \in Core, Touches(c), core[c].alive
               PROVE  core[c].mapped
    BY DEF RegistersMapped
  <2>1. \/ On("dir", c) \/ On("failed_dir", c)
        \/ c = "in" /\ task[1] = "poll"
        \/ c = "out" /\ task[1] \in {"blink", "leds_off"}
    BY DEF Touches, On
  <2>2. QED
    BY <2>1 DEF ModeInv, PlaceInv, Up, Working, Core
<1>2. QED
  BY <1>1, ModeInvariance, PTL

\* However many clean_exit have run, and wherever one interrupted another, a program
\* that was initialised and ends by signals has given back cores and pipe.
THEOREM AllIsGivenBack == Spec => []CleanGivesBack
<1>1. ModeInv => CleanGivesBack
  <2> SUFFICES ASSUME ModeInv, process = "stopped", ready
               PROVE  ~piped /\ \A c \in Core : ~core[c].mapped /\ ~core[c].alive
    BY DEF CleanGivesBack
  <2>1. ~core["in"].alive /\ ~piped
    BY DEF ModeInv, GivenInv
  <2>2. handlers = <<>>
    BY DEF ModeInv, GoneInv
  <2>3. ~\E i \in DOMAIN handlers : handlers[i].at \in {4, 5}
    BY <2>2
  <2>4. QED
    BY <2>1, <2>3 DEF ModeInv, GivenInv, AllGiven, Bare
<1>2. QED
  BY <1>1, ModeInvariance, PTL

-----------------------------------------------------------------------------
(***************************************************************************)
(* The PHY and the program that configures it.                             *)
(***************************************************************************)

USE MiiAssumption, PreambleAssumption

-----------------------------------------------------------------------------
\* What a pin can be driven with.
Wires == {0, 1, Z}

\* What the program drives at each clock of the access a with the value v.
Line(a, v) ==
  SendAddress(a) \o (IF a.op = "read" THEN Times(DataBits + 2, Z)
              ELSE <<1, 0>> \o Bits(v, DataBits) \o <<Z>>)

Accesses == [op : {"read", "write"}, reg : Register, then : {"go", "detect", "wait"},
             set : SUBSET BitNo]

\* Where the access is: the clocks it has had, those of them after the preamble, and
\* those that have read a bit of the register.
Sent == IF turn = 0 THEN 0 ELSE turn - 1
After == Sent - Preamble
Count == After - HeadLen - 1

Under == Going /\ phase # "returned"

Typed ==
  /\ at \in 0..Len(Program) + 1 /\ turn \in Nat
  /\ phase \in {"pin", "clock", "returned"}
  /\ value \subseteq BitNo /\ pin \in {0, 1, Z}
  /\ awake \in BOOLEAN /\ ones \in 0..Preamble
  /\ got \in Seq({0, 1}) /\ giving \in Seq({0, 1})
  /\ regs \in [Register -> SUBSET BitNo] /\ resets \in 0..MaxResets
  /\ steady \in BOOLEAN
  /\ taken \in [op : {"none", "read", "write"}, reg : Register, value : SUBSET BitNo]

\* The PHY takes no frame and gives no answer.
Idle == got = <<>> /\ giving = <<>>

ForAccess == taken.op = Access.op /\ taken.reg = Access.reg

PinInv ==
  Going =>
    /\ phase = "pin" => turn \in 0..Len(Pins(Access))
    /\ phase = "clock" => turn \in 1..Len(Pins(Access)) /\ pin = Pins(Access)[turn]

\* What a read has shifted into its value is no wider than the bits it has read.
ValueInv == Under /\ turn > 0 /\ Access.op = "read" => value \subseteq 0..Count - 1

\* What the PHY has of the access, once its preamble is over: it does not listen to a
\* frame it was not awake for from the start, ...
Lost ==
  /\ ~steady /\ Idle /\ ones <= After - 1
  /\ taken # Nothing => ForAccess

\* ... it has taken the bits of the frame so far, ...
Following ==
  /\ awake /\ giving = <<>> /\ taken = Nothing
  /\ Len(got) = After
  /\ After <= IF Access.op = "read" THEN HeadLen ELSE HeadLen + 1 + DataBits
  /\ \A i \in 1..After : got[i] = Pins(Access)[Preamble + i]

\* ... it is giving the register the program reads, ...
Answering ==
  /\ Access.op = "read" /\ ForAccess /\ awake /\ got = <<>> /\ pin = Z
  /\ Count \in 0..DataBits
  /\ Len(giving) = DataBits + 1 - Count
  /\ Count = 0 => giving[1] = 0
  /\ \A i \in 1..DataBits + 1 - Count : i + Count > 1 =>
       giving[i] = IF DataBits + 1 - Count - i \in taken.value THEN 1 ELSE 0
  /\ value = {b \in 0..Count - 1 : b + DataBits - Count \in taken.value}

\* ... or it has written the register.
Done ==
  /\ Access.op = "write" /\ ForAccess /\ Idle /\ taken.value = value
  /\ After = HeadLen + 2 + DataBits

FrameInv ==
  Under =>
    IF After <= 0
      THEN Idle /\ taken = Nothing /\ (steady => ones >= Sent)
      ELSE Lost \/ Following \/ Answering \/ Done

\* Between accesses the PHY is idle, and has done what the last one asked.
ReturnInv ==
  /\ ~Under => Idle /\ turn = 0
  /\ Going /\ phase = "returned" =>
       /\ taken # Nothing => ForAccess
       /\ steady => ForAccess /\ taken.value = value

AwakeInv == (steady => awake) /\ (~awake => ones = 0 /\ Idle)

MiiInv == Typed /\ PinInv /\ ValueInv /\ FrameInv /\ ReturnInv /\ AwakeInv

-----------------------------------------------------------------------------
(***************************************************************************)
(* The frame, bit by bit.                                                  *)
(***************************************************************************)

\* Each access of the program reads or writes a register of the PHY.
LEMMA ProgramIs == Program \in Seq(Accesses) /\ Len(Program) = 11
<1>1. /\ Gigabit \in SUBSET BitNo /\ Restart \in SUBSET BitNo /\ {} \in SUBSET BitNo
      /\ {CONTROL_REG, ID0_REG, ID1_REG, GIGABIT_REG, STATUS_REG} \subseteq Register
  BY DEF Register
<1> DEFINE Read(r, then) == [op |-> "read", reg |-> r, then |-> then, set |-> {}]
           Write(r, bits) == [op |-> "write", reg |-> r, then |-> "go", set |-> bits]
<1>2. ASSUME NEW r \in Register, NEW then \in {"go", "detect", "wait"}
      PROVE  Read(r, then) \in Accesses
  BY <1>1 DEF Accesses
<1>3. ASSUME NEW r \in Register, NEW bits \in SUBSET BitNo
      PROVE  Write(r, bits) \in Accesses
  BY DEF Accesses
<1>4. Program = << Read(ID0_REG, "go"), Read(ID1_REG, "go"), Read(ID0_REG, "detect"),
                   Read(STATUS_REG, "wait"), Read(STATUS_REG, "go"),
                   Read(GIGABIT_REG, "go"), Write(GIGABIT_REG, Gigabit),
                   Read(CONTROL_REG, "go"), Write(CONTROL_REG, Restart),
                   Read(STATUS_REG, "wait"), Read(STATUS_REG, "go") >>
  BY DEF Program
<1> HIDE DEF Read, Write
<1>5. QED
  BY <1>1, <1>2, <1>3, <1>4

LEMMA AccessIs ==
  ASSUME Going
  PROVE  Access \in Accesses
<1>1. at \in 1..Len(Program)
  BY DEF Going
<1> DEFINE p == Program
<1>2. p \in Seq(Accesses) /\ at \in 1..Len(p)
  BY <1>1, ProgramIs
<1> HIDE DEF p
<1>3. p[at] \in Accesses
  BY <1>2
<1>4. QED
  BY <1>3 DEF p, Access

\* The bits of a value, the most significant first, and a bit many times.
LEMMA BitsIs ==
  ASSUME NEW v, NEW n \in Nat
  PROVE  /\ Bits(v, n) \in Seq({0, 1}) /\ Bits(v, n) \in Seq(Wires) /\ Len(Bits(v, n)) = n
         /\ \A i \in 1..n : Bits(v, n)[i] = IF n - i \in v THEN 1 ELSE 0
BY DEF Bits, Wires

LEMMA TimesIs ==
  ASSUME NEW b \in Wires, NEW n \in Nat
  PROVE  /\ Times(n, b) \in Seq(Wires) /\ Len(Times(n, b)) = n
         /\ \A i \in 1..n : Times(n, b)[i] = b
BY DEF Times

LEMMA PairIs ==
  ASSUME NEW b \in Wires, NEW c \in Wires
  PROVE  /\ <<b, c>> \in Seq(Wires) /\ Len(<<b, c>>) = 2
         /\ <<b, c>>[1] = b /\ <<b, c>>[2] = c
OBVIOUS

\* One part of an access behind another.
LEMMA Joined ==
  ASSUME NEW u \in Seq(Wires), NEW w \in Seq(Wires)
  PROVE  /\ u \o w \in Seq(Wires) /\ Len(u \o w) = Len(u) + Len(w)
         /\ \A i \in 1..Len(u) : (u \o w)[i] = u[i]
         /\ \A i \in 1..Len(w) : (u \o w)[Len(u) + i] = w[i]
<1> DEFINE s == u \o w
           m == Len(u)
           n == Len(w)
<1>1. /\ s \in Seq(Wires) /\ Len(s) = m + n
      /\ \A i \in 1..m + n : s[i] = IF i <= m THEN u[i] ELSE w[i - m]
  BY ConcatProperties
<1>2. m \in Nat /\ n \in Nat
  OBVIOUS
<1> HIDE DEF s, m, n
<1>3. ASSUME NEW i \in 1..n
      PROVE  s[m + i] = w[i]
  <2>1. m + i \in 1..m + n /\ ~(m + i <= m) /\ (m + i) - m = i
    BY <1>2
  <2>2. QED
    BY <1>1, <2>1
<1>4. \A i \in 1..m : s[i] = u[i]
  BY <1>1, <1>2
<1>5. QED
  BY <1>1, <1>3, <1>4 DEF s, m, n

LEMMA HeadIs == HeadLen \in Nat /\ HeadLen = 4 + 2 * AddrBits /\ HeadLen >= 14
BY DEF HeadLen

\* mii_send_address: the preamble, and the head of the frame after it.
LEMMA AddressIs ==
  ASSUME NEW a \in Accesses
  PROVE  /\ SendAddress(a) \in Seq(Wires) /\ Len(SendAddress(a)) = Preamble + HeadLen
         /\ \A i \in 1..Preamble : SendAddress(a)[i] = 1
         /\ SendAddress(a)[Preamble + 1] = 0
         /\ SendAddress(a)[Preamble + 2] = 1
         /\ SendAddress(a)[Preamble + 3] = IF a.op = "read" THEN 1 ELSE 0
         /\ SendAddress(a)[Preamble + 4] = IF a.op = "read" THEN 0 ELSE 1
         /\ \A i \in 1..AddrBits : SendAddress(a)[Preamble + 4 + i] = 0
         /\ \A i \in 1..AddrBits :
              SendAddress(a)[Preamble + 4 + AddrBits + i] = Bits(a.reg, AddrBits)[i]
<1> DEFINE p == Times(Preamble, 1)
           o == IF a.op = "read" THEN <<1, 0>> ELSE <<0, 1>>
           phyadr == Bits(PHY_ADDR, AddrBits)
           reg == Bits(a.reg, AddrBits)
           start == <<0, 1>>
           s1 == p \o start
           s2 == s1 \o o
           s3 == s2 \o phyadr
           s4 == s3 \o reg
<1>1. Preamble \in Nat /\ AddrBits \in Nat /\ 2 \in Nat
  BY DEF MiiAssumption
<1>2. /\ p \in Seq(Wires) /\ Len(p) = Preamble
      /\ \A i \in 1..Preamble : p[i] = 1
  BY <1>1, TimesIs DEF Wires
<1>3. start \in Seq(Wires) /\ Len(start) = 2 /\ start[1] = 0 /\ start[2] = 1
  BY PairIs DEF Wires
<1>4. /\ o \in Seq(Wires) /\ Len(o) = 2
      /\ o[1] = IF a.op = "read" THEN 1 ELSE 0
      /\ o[2] = IF a.op = "read" THEN 0 ELSE 1
  <2>1. CASE a.op = "read"
    <3>1. o = <<1, 0>>
      BY <2>1
    <3>2. QED
      BY <2>1, <3>1, PairIs DEF Wires
  <2>2. CASE a.op # "read"
    <3>1. o = <<0, 1>>
      BY <2>2
    <3>2. QED
      BY <2>2, <3>1, PairIs DEF Wires
  <2>3. QED
    BY <2>1, <2>2
<1>5. /\ phyadr \in Seq(Wires) /\ Len(phyadr) = AddrBits
      /\ \A i \in 1..AddrBits : phyadr[i] = 0
  BY <1>1, BitsIs DEF PHY_ADDR
<1>6. reg \in Seq(Wires) /\ Len(reg) = AddrBits
  BY <1>1, BitsIs
<1>7. SendAddress(a) = s4
  BY DEF SendAddress
<1> HIDE DEF p, o, phyadr, reg, start
<1>8. /\ s1 \in Seq(Wires) /\ Len(s1) = Preamble + 2
      /\ \A i \in 1..Preamble : s1[i] = p[i]
      /\ \A i \in 1..2 : s1[Preamble + i] = start[i]
  <2>1. p \in Seq(Wires) /\ start \in Seq(Wires) /\ Len(p) = Preamble /\ Len(start) = 2
    BY <1>1, <1>2, <1>3
  <2>2. /\ s1 \in Seq(Wires) /\ Len(s1) = Len(p) + Len(start)
        /\ \A i \in 1..Len(p) : s1[i] = p[i]
        /\ \A i \in 1..Len(start) : s1[Len(p) + i] = start[i]
    BY <2>1, Joined
  <2> HIDE DEF s1
  <2>3. QED
    BY <1>1, <2>1, <2>2
<1> HIDE DEF s1
<1>9. /\ s2 \in Seq(Wires) /\ Len(s2) = Preamble + 4
      /\ \A i \in 1..Preamble + 2 : s2[i] = s1[i]
      /\ \A i \in 1..2 : s2[Preamble + 2 + i] = o[i]
  <2>1. s1 \in Seq(Wires) /\ o \in Seq(Wires) /\ Len(s1) = Preamble + 2 /\ Len(o) = 2
    BY <1>1, <1>4, <1>8
  <2>2. /\ s2 \in Seq(Wires) /\ Len(s2) = Len(s1) + Len(o)
        /\ \A i \in 1..Len(s1) : s2[i] = s1[i]
        /\ \A i \in 1..Len(o) : s2[Len(s1) + i] = o[i]
    BY <2>1, Joined
  <2> HIDE DEF s2
  <2>3. QED
    BY <1>1, <2>1, <2>2
<1> HIDE DEF s2
<1>10. /\ s3 \in Seq(Wires) /\ Len(s3) = Preamble + 4 + AddrBits
       /\ \A i \in 1..Preamble + 4 : s3[i] = s2[i]
       /\ \A i \in 1..AddrBits : s3[Preamble + 4 + i] = phyadr[i]
  <2>1. s2 \in Seq(Wires) /\ phyadr \in Seq(Wires) /\ Len(s2) = Preamble + 4 /\ Len(phyadr) = AddrBits
    BY <1>1, <1>5, <1>9
  <2>2. /\ s3 \in Seq(Wires) /\ Len(s3) = Len(s2) + Len(phyadr)
        /\ \A i \in 1..Len(s2) : s3[i] = s2[i]
        /\ \A i \in 1..Len(phyadr) : s3[Len(s2) + i] = phyadr[i]
    BY <2>1, Joined
  <2> HIDE DEF s3
  <2>3. QED
    BY <1>1, <2>1, <2>2
<1> HIDE DEF s3
<1>11. /\ s4 \in Seq(Wires) /\ Len(s4) = Preamble + 4 + AddrBits + AddrBits
       /\ \A i \in 1..Preamble + 4 + AddrBits : s4[i] = s3[i]
       /\ \A i \in 1..AddrBits : s4[Preamble + 4 + AddrBits + i] = reg[i]
  <2>1. s3 \in Seq(Wires) /\ reg \in Seq(Wires) /\ Len(s3) = Preamble + 4 + AddrBits /\ Len(reg) = AddrBits
    BY <1>1, <1>6, <1>10
  <2>2. /\ s4 \in Seq(Wires) /\ Len(s4) = Len(s3) + Len(reg)
        /\ \A i \in 1..Len(s3) : s4[i] = s3[i]
        /\ \A i \in 1..Len(reg) : s4[Len(s3) + i] = reg[i]
    BY <2>1, Joined
  <2> HIDE DEF s4
  <2>3. QED
    BY <1>1, <2>1, <2>2
<1> HIDE DEF s4
<1>12. Len(s4) = Preamble + HeadLen
  BY <1>1, <1>11 DEF HeadLen
<1>13. \A i \in 1..Preamble : s4[i] = 1
  BY <1>1, <1>2, <1>8, <1>9, <1>10, <1>11
<1>14. s4[Preamble + 1] = 0 /\ s4[Preamble + 2] = 1
  <2>1. s1[Preamble + 1] = 0 /\ s1[Preamble + 2] = 1
    BY <1>3, <1>8
  <2>2. /\ Preamble + 1 \in 1..Preamble + 2 /\ Preamble + 2 \in 1..Preamble + 2
        /\ Preamble + 1 \in 1..Preamble + 4 /\ Preamble + 2 \in 1..Preamble + 4
        /\ Preamble + 1 \in 1..Preamble + 4 + AddrBits
        /\ Preamble + 2 \in 1..Preamble + 4 + AddrBits
    BY <1>1
  <2>3. QED
    BY <1>9, <1>10, <1>11, <2>1, <2>2
<1>15. /\ s4[Preamble + 3] = IF a.op = "read" THEN 1 ELSE 0
       /\ s4[Preamble + 4] = IF a.op = "read" THEN 0 ELSE 1
  <2>1. s2[Preamble + 2 + 1] = o[1] /\ s2[Preamble + 2 + 2] = o[2]
    BY <1>9
  <2>2. Preamble + 2 + 1 = Preamble + 3 /\ Preamble + 2 + 2 = Preamble + 4
    BY <1>1
  <2>3. s2[Preamble + 3] = o[1] /\ s2[Preamble + 4] = o[2]
    BY <2>1, <2>2
  <2>4. /\ Preamble + 3 \in 1..Preamble + 4 /\ Preamble + 4 \in 1..Preamble + 4
        /\ Preamble + 3 \in 1..Preamble + 4 + AddrBits
        /\ Preamble + 4 \in 1..Preamble + 4 + AddrBits
    BY <1>1
  <2>5. s4[Preamble + 3] = o[1] /\ s4[Preamble + 4] = o[2]
    BY <1>10, <1>11, <2>3, <2>4
  <2>6. QED
    BY <1>4, <2>5
<1>16. ASSUME NEW i \in 1..AddrBits
       PROVE  s4[Preamble + 4 + i] = 0
  <2>1. Preamble + 4 + i \in 1..Preamble + 4 + AddrBits
    BY <1>1
  <2>2. s4[Preamble + 4 + i] = s3[Preamble + 4 + i]
    BY <1>11, <2>1
  <2>3. QED
    BY <1>5, <1>10, <2>2
<1>17. QED
  BY <1>7, <1>11, <1>12, <1>13, <1>14, <1>15, <1>16 DEF reg

\* The whole of an access: a read lets the line go after the head, a write sends the
\* turnaround and the value and lets it go for the last clock.
LEMMA ReadLine ==
  ASSUME NEW a \in Accesses, NEW v, a.op = "read"
  PROVE  /\ Line(a, v) \in Seq(Wires)
         /\ Len(Line(a, v)) = Preamble + HeadLen + DataBits + 2
         /\ \A i \in 1..Preamble + HeadLen : Line(a, v)[i] = SendAddress(a)[i]
         /\ \A i \in Preamble + HeadLen + 1..Preamble + HeadLen + DataBits + 2 :
              Line(a, v)[i] = Z
<1> DEFINE head == SendAddress(a)
           rest == Times(DataBits + 2, Z)
           s == head \o rest
           l == Preamble + HeadLen
<1>1. DataBits + 2 \in Nat /\ Z \in Wires /\ l \in Nat
  BY HeadIs DEF MiiAssumption, Wires, Z
<1>2. Line(a, v) = s
  BY DEF Line
<1>3. head \in Seq(Wires) /\ Len(head) = l
  BY AddressIs
<1>4. /\ rest \in Seq(Wires) /\ Len(rest) = DataBits + 2
      /\ \A i \in 1..DataBits + 2 : rest[i] = Z
  BY <1>1, TimesIs
<1> HIDE DEF head, rest
<1>5. /\ s \in Seq(Wires) /\ Len(s) = Len(head) + Len(rest)
      /\ \A i \in 1..Len(head) : s[i] = head[i]
      /\ \A i \in 1..Len(rest) : s[Len(head) + i] = rest[i]
  BY <1>3, <1>4, Joined
<1> HIDE DEF s, l
<1>6. ASSUME NEW i \in l + 1..l + DataBits + 2
      PROVE  s[i] = Z
  <2> DEFINE j == i - l
  <2>1. j \in 1..DataBits + 2 /\ i = l + j
    BY <1>1
  <2> HIDE DEF j
  <2>2. s[l + j] = rest[j]
    BY <1>3, <1>4, <1>5, <2>1
  <2>3. QED
    BY <1>4, <2>1, <2>2
<1>7. s \in Seq(Wires) /\ Len(s) = l + DataBits + 2 /\ \A i \in 1..l : s[i] = head[i]
  BY <1>1, <1>3, <1>4, <1>5
<1>8. QED
  BY <1>2, <1>6, <1>7 DEF l, head

LEMMA WriteLine ==
  ASSUME NEW a \in Accesses, NEW v, a.op = "write"
  PROVE  /\ Line(a, v) \in Seq(Wires)
         /\ Len(Line(a, v)) = Preamble + HeadLen + DataBits + 3
         /\ \A i \in 1..Preamble + HeadLen : Line(a, v)[i] = SendAddress(a)[i]
         /\ Line(a, v)[Preamble + HeadLen + 1] = 1
         /\ Line(a, v)[Preamble + HeadLen + 2] = 0
         /\ \A i \in 1..DataBits :
              Line(a, v)[Preamble + HeadLen + 2 + i] = IF DataBits - i \in v THEN 1 ELSE 0
         /\ Line(a, v)[Preamble + HeadLen + DataBits + 3] = Z
<1> DEFINE head == SendAddress(a)
           turnaround == <<1, 0>>
           data == Bits(v, DataBits)
           last == <<Z>>
           s1 == turnaround \o data
           s2 == s1 \o last
           s == head \o s2
           l == Preamble + HeadLen
<1>1. DataBits \in Nat /\ l \in Nat /\ 1 \in Wires /\ 0 \in Wires /\ Z \in Wires
  BY HeadIs DEF MiiAssumption, Wires
<1>2. Line(a, v) = s
  BY DEF Line
<1>3. head \in Seq(Wires) /\ Len(head) = l
  BY AddressIs
<1>4. /\ turnaround \in Seq(Wires) /\ Len(turnaround) = 2
      /\ turnaround[1] = 1 /\ turnaround[2] = 0
  BY <1>1, PairIs
<1>5. /\ data \in Seq(Wires) /\ Len(data) = DataBits
      /\ \A i \in 1..DataBits : data[i] = IF DataBits - i \in v THEN 1 ELSE 0
  BY <1>1, BitsIs
<1>6. last \in Seq(Wires) /\ Len(last) = 1 /\ last[1] = Z
  BY <1>1
<1> HIDE DEF head, turnaround, data, last, l
<1>7. /\ s1 \in Seq(Wires) /\ Len(s1) = Len(turnaround) + Len(data)
      /\ \A i \in 1..Len(turnaround) : s1[i] = turnaround[i]
      /\ \A i \in 1..Len(data) : s1[Len(turnaround) + i] = data[i]
  BY <1>4, <1>5, Joined
<1> HIDE DEF s1
<1>8. /\ s1 \in Seq(Wires) /\ Len(s1) = 2 + DataBits /\ s1[1] = 1 /\ s1[2] = 0
      /\ \A i \in 1..DataBits : s1[2 + i] = data[i]
  BY <1>1, <1>4, <1>5, <1>7
<1>9. /\ s2 \in Seq(Wires) /\ Len(s2) = Len(s1) + Len(last)
      /\ \A i \in 1..Len(s1) : s2[i] = s1[i]
      /\ \A i \in 1..Len(last) : s2[Len(s1) + i] = last[i]
  BY <1>6, <1>8, Joined
<1> HIDE DEF s2
<1>10. /\ s2 \in Seq(Wires) /\ Len(s2) = DataBits + 3 /\ s2[1] = 1 /\ s2[2] = 0
       /\ \A i \in 1..DataBits : s2[2 + i] = data[i]
       /\ s2[DataBits + 3] = Z
  <2>1. Len(s2) = DataBits + 3 /\ s2[2 + DataBits + 1] = Z
    BY <1>1, <1>6, <1>8, <1>9
  <2>2. 2 + DataBits + 1 = DataBits + 3
    BY <1>1
  <2>3. \A i \in 1..2 + DataBits : s2[i] = s1[i]
    BY <1>8, <1>9
  <2>4. \A i \in 1..DataBits : 2 + i \in 1..2 + DataBits
    BY <1>1
  <2>5. 1 \in 1..2 + DataBits /\ 2 \in 1..2 + DataBits
    BY <1>1
  <2>6. QED
    BY <1>8, <1>9, <2>1, <2>2, <2>3, <2>4, <2>5
<1>11. /\ s \in Seq(Wires) /\ Len(s) = Len(head) + Len(s2)
       /\ \A i \in 1..Len(head) : s[i] = head[i]
       /\ \A i \in 1..Len(s2) : s[Len(head) + i] = s2[i]
  BY <1>3, <1>10, Joined
<1> HIDE DEF s
<1>12. /\ s \in Seq(Wires) /\ Len(s) = l + DataBits + 3 /\ \A i \in 1..l : s[i] = head[i]
       /\ \A i \in 1..DataBits + 3 : s[l + i] = s2[i]
  BY <1>1, <1>3, <1>10, <1>11
<1>13. s[l + 1] = 1 /\ s[l + 2] = 0
  BY <1>1, <1>10, <1>12
<1>14. ASSUME NEW i \in 1..DataBits
       PROVE  s[l + 2 + i] = IF DataBits - i \in v THEN 1 ELSE 0
  <2> DEFINE j == 2 + i
  <2>1. j \in 1..DataBits + 3 /\ l + 2 + i = l + j
    BY <1>1
  <2>2. s2[j] = data[i]
    BY <1>10
  <2> HIDE DEF j
  <2>3. s[l + j] = s2[j]
    BY <1>12, <2>1
  <2>4. QED
    BY <1>5, <2>1, <2>2, <2>3
<1>15. s[l + DataBits + 3] = Z
  <2> DEFINE j == DataBits + 3
  <2>1. j \in 1..DataBits + 3 /\ l + DataBits + 3 = l + j /\ s2[j] = Z
    BY <1>1, <1>10
  <2> HIDE DEF j
  <2>2. QED
    BY <1>12, <2>1
<1>16. QED
  BY <1>2, <1>12, <1>13, <1>14, <1>15 DEF l, head

\* The bits of an access that the proofs below tell apart.
LEMMA LineIs ==
  ASSUME NEW a \in Accesses, NEW v
  PROVE  /\ Line(a, v) \in Seq(Wires)
         /\ Len(Line(a, v)) = Preamble + HeadLen + DataBits + (IF a.op = "read" THEN 2 ELSE 3)
         /\ \A i \in 1..Preamble : Line(a, v)[i] = 1
         /\ Line(a, v)[Preamble + 1] = 0 /\ Line(a, v)[Preamble + 2] = 1
         /\ \A i \in 1..HeadLen :
              /\ Line(a, v)[Preamble + i] = SendAddress(a)[Preamble + i]
              /\ Line(a, v)[Preamble + i] \in {0, 1}
<1>1. /\ Preamble \in Nat /\ AddrBits \in Nat
      /\ HeadLen \in Nat /\ HeadLen = 4 + 2 * AddrBits /\ HeadLen >= 14
  BY HeadIs DEF MiiAssumption
<1>2. a.op \in {"read", "write"}
  BY DEF Accesses
<1>3. /\ Line(a, v) \in Seq(Wires)
      /\ Len(Line(a, v)) = Preamble + HeadLen + DataBits + (IF a.op = "read" THEN 2 ELSE 3)
  <2>1. CASE a.op = "read"
    BY <2>1, ReadLine
  <2>2. CASE a.op = "write"
    BY <2>2, WriteLine
  <2>3. QED
    BY <1>2, <2>1, <2>2
<1>4. \A i \in 1..Preamble + HeadLen : Line(a, v)[i] = SendAddress(a)[i]
  BY <1>2, ReadLine, WriteLine
<1> DEFINE l == Line(a, v)
           s == SendAddress(a)
<1>5. \A i \in 1..Preamble + HeadLen : l[i] = s[i]
  BY <1>4
<1>6. /\ \A i \in 1..Preamble : s[i] = 1
      /\ s[Preamble + 1] = 0
      /\ s[Preamble + 2] = 1
      /\ s[Preamble + 3] \in {0, 1}
      /\ s[Preamble + 4] \in {0, 1}
      /\ \A i \in 1..AddrBits : s[Preamble + 4 + i] = 0
      /\ \A i \in 1..AddrBits : s[Preamble + 4 + AddrBits + i] = Bits(a.reg, AddrBits)[i]
  BY AddressIs
<1>7. \A i \in 1..AddrBits : Bits(a.reg, AddrBits)[i] \in {0, 1}
  BY <1>1, BitsIs
<1> HIDE DEF l, s
<1>8. ASSUME NEW i \in 1..HeadLen
      PROVE  l[Preamble + i] = s[Preamble + i] /\ l[Preamble + i] \in {0, 1}
  <2>1. Preamble + i \in 1..Preamble + HeadLen
    BY <1>1
  <2>2. l[Preamble + i] = s[Preamble + i]
    BY <1>5, <2>1
  <2>3. CASE i <= 4
    <3>1. i \in {1, 2, 3, 4}
      BY <2>3
    <3>2. QED
      BY <1>6, <2>2, <3>1
  <2>4. CASE i > 4 /\ i <= 4 + AddrBits
    <3> DEFINE j == i - 4
    <3>1. j \in 1..AddrBits /\ Preamble + i = Preamble + 4 + j
      BY <1>1, <2>4
    <3> HIDE DEF j
    <3>2. s[Preamble + 4 + j] = 0
      BY <1>6, <3>1
    <3>3. QED
      BY <2>2, <3>1, <3>2
  <2>5. CASE i > 4 + AddrBits
    <3> DEFINE j == i - 4 - AddrBits
    <3>1. j \in 1..AddrBits /\ Preamble + i = Preamble + 4 + AddrBits + j
      BY <1>1, <2>5
    <3> HIDE DEF j
    <3>2. s[Preamble + 4 + AddrBits + j] \in {0, 1}
      BY <1>6, <1>7, <3>1
    <3>3. QED
      BY <2>2, <3>1, <3>2
  <2>6. QED
    BY <1>1, <2>3, <2>4, <2>5
<1>9. l[Preamble + 1] = 0 /\ l[Preamble + 2] = 1
  <2>1. Preamble + 1 \in 1..Preamble + HeadLen /\ Preamble + 2 \in 1..Preamble + HeadLen
    BY <1>1
  <2>2. QED
    BY <1>5, <1>6, <2>1
<1>10. \A i \in 1..Preamble : l[i] = 1
  <2>1. \A i \in 1..Preamble : i \in 1..Preamble + HeadLen
    BY <1>1
  <2>2. QED
    BY <1>5, <1>6, <2>1
<1>11. QED
  BY <1>3, <1>8, <1>9, <1>10 DEF l, s

\* The bits of a write after its head.
LEMMA WriteIs ==
  ASSUME NEW a \in Accesses, NEW v, a.op = "write"
  PROVE  /\ \A i \in 1..HeadLen + 2 + DataBits : Line(a, v)[Preamble + i] \in {0, 1}
         /\ \A b \in BitNo : Line(a, v)[Preamble + HeadLen + 2 + DataBits - b] = 1 <=> b \in v
<1>1. Preamble \in Nat /\ HeadLen \in Nat /\ DataBits \in Nat
  BY HeadIs DEF MiiAssumption
<1> DEFINE l == Line(a, v)
<1>2. /\ l[Preamble + HeadLen + 1] = 1 /\ l[Preamble + HeadLen + 2] = 0
      /\ \A i \in 1..DataBits :
           l[Preamble + HeadLen + 2 + i] = IF DataBits - i \in v THEN 1 ELSE 0
  BY WriteLine
<1>3. \A i \in 1..HeadLen : l[Preamble + i] \in {0, 1}
  BY LineIs
<1> HIDE DEF l
<1>4. ASSUME NEW i \in 1..HeadLen + 2 + DataBits
      PROVE  l[Preamble + i] \in {0, 1}
  <2>1. CASE i <= HeadLen
    BY <1>1, <1>3, <2>1
  <2>2. CASE i = HeadLen + 1
    <3>1. Preamble + i = Preamble + HeadLen + 1
      BY <1>1, <2>2
    <3>2. QED
      BY <1>2, <3>1
  <2>3. CASE i = HeadLen + 2
    <3>1. Preamble + i = Preamble + HeadLen + 2
      BY <1>1, <2>3
    <3>2. QED
      BY <1>2, <3>1
  <2>4. CASE i > HeadLen + 2
    <3> DEFINE j == i - HeadLen - 2
    <3>1. j \in 1..DataBits /\ Preamble + i = Preamble + HeadLen + 2 + j
      BY <1>1, <2>4
    <3> HIDE DEF j
    <3>2. QED
      BY <1>2, <3>1
  <2>5. QED
    BY <1>1, <2>1, <2>2, <2>3, <2>4
<1>5. ASSUME NEW b \in BitNo
      PROVE  l[Preamble + HeadLen + 2 + DataBits - b] = 1 <=> b \in v
  <2> DEFINE j == DataBits - b
  <2>1. /\ j \in 1..DataBits /\ DataBits - j = b
        /\ Preamble + HeadLen + 2 + DataBits - b = Preamble + HeadLen + 2 + j
    BY <1>1 DEF BitNo
  <2> HIDE DEF j
  <2>2. l[Preamble + HeadLen + 2 + j] = IF b \in v THEN 1 ELSE 0
    BY <1>2, <2>1
  <2>3. QED
    BY <2>1, <2>2
<1>6. QED
  BY <1>4, <1>5 DEF l

\* A line that is low is driven by the program, before the last clock and after the
\* preamble.
LEMMA LowIs ==
  ASSUME NEW a \in Accesses, NEW v, NEW i \in 1..Len(Line(a, v)), Line(a, v)[i] = 0
  PROVE  i <= Preamble + HeadLen + 2 + DataBits
<1>1. Preamble \in Nat /\ HeadLen \in Nat /\ DataBits \in Nat /\ 0 # Z
  BY HeadIs DEF MiiAssumption, Z
<1>2. a.op \in {"read", "write"}
  BY DEF Accesses
<1>3. CASE a.op = "read"
  BY <1>1, <1>3, ReadLine
<1>4. CASE a.op = "write"
  <2>1. /\ Len(Line(a, v)) = Preamble + HeadLen + DataBits + 3
        /\ Line(a, v)[Preamble + HeadLen + DataBits + 3] = Z
    BY <1>4, WriteLine
  <2>2. i # Preamble + HeadLen + DataBits + 3
    BY <1>1, <2>1
  <2>3. QED
    BY <1>1, <2>1, <2>2
<1>5. QED
  BY <1>2, <1>3, <1>4

-----------------------------------------------------------------------------
(***************************************************************************)
(* What the PHY makes of a frame.                                          *)
(***************************************************************************)

\* Five bits tell the registers of the program apart.
LEMMA RegistersApart ==
  ASSUME NEW r \in Register, NEW s \in Register, Bits(r, AddrBits) = Bits(s, AddrBits)
  PROVE  r = s
<1>1. r \subseteq 0..4 /\ s \subseteq 0..4
  BY DEF Register, CONTROL_REG, ID0_REG, ID1_REG, GIGABIT_REG, STATUS_REG
<1>2. AddrBits \in Nat /\ AddrBits >= 5
  BY DEF MiiAssumption
<1>3. ASSUME NEW b \in 0..4
      PROVE  b \in r <=> b \in s
  <2> DEFINE i == AddrBits - b
  <2>1. i \in 1..AddrBits /\ AddrBits - i = b
    BY <1>2
  <2> HIDE DEF i
  <2>2. /\ Bits(r, AddrBits)[i] = IF b \in r THEN 1 ELSE 0
        /\ Bits(s, AddrBits)[i] = IF b \in s THEN 1 ELSE 0
    BY <1>2, <2>1, BitsIs
  <2>3. QED
    BY <2>2
<1>4. QED
  BY <1>1, <1>3

\* A part of a sequence, bit by bit.
LEMMA PartIs ==
  ASSUME NEW g \in Seq({0, 1}), NEW m \in Nat, NEW n \in Nat, m + n <= Len(g)
  PROVE  /\ SubSeq(g, m + 1, m + n) \in Seq({0, 1})
         /\ Len(SubSeq(g, m + 1, m + n)) = n
         /\ \A i \in 1..n : SubSeq(g, m + 1, m + n)[i] = g[m + i]
<1> DEFINE j == m + 1
           k == m + n
<1>1. j \in 1..Len(g) + 1 /\ k \in j - 1..Len(g) /\ k - j + 1 = n
  OBVIOUS
<1>2. \A i \in j..k : g[i] \in {0, 1}
  OBVIOUS
<1>3. \A i \in 1..n : j + i - 1 = m + i
  OBVIOUS
<1>4. k \in Int /\ j \in Int
  OBVIOUS
<1> DEFINE B == {0, 1}
<1>5. \A i \in j..k : g[i] \in B
  BY <1>2
<1> HIDE DEF j, k, B
<1>6. /\ SubSeq(g, j, k) \in Seq(B)
      /\ Len(SubSeq(g, j, k)) = IF j <= k THEN k - j + 1 ELSE 0
      /\ \A i \in 1..k - j + 1 : SubSeq(g, j, k)[i] = g[j + i - 1]
  BY <1>4, <1>5, SubSeqProperties
<1>7. Len(SubSeq(g, j, k)) = n
  BY <1>1, <1>4, <1>6
<1>8. \A i \in 1..n : SubSeq(g, j, k)[i] = g[m + i]
  BY <1>1, <1>3, <1>6
<1>9. QED
  BY <1>6, <1>7, <1>8 DEF j, k, B

\* A frame that begins as the program sends it is for this PHY, for the register of
\* the access and of its kind.
LEMMA FrameIs ==
  ASSUME NEW a \in Accesses, NEW g \in Seq({0, 1}), HeadLen <= Len(g),
         \A i \in 1..HeadLen : g[i] = SendAddress(a)[Preamble + i]
  PROVE  /\ IsRead(g) <=> a.op = "read"
         /\ IsWrite(g) <=> a.op = "write"
         /\ ForMe(g) /\ Named(g) = a.reg
<1> DEFINE s == SendAddress(a)
<1>1. /\ Preamble \in Nat /\ AddrBits \in Nat /\ Len(g) \in Nat
      /\ HeadLen \in Nat /\ HeadLen = 4 + 2 * AddrBits /\ HeadLen >= 14
  BY HeadIs DEF MiiAssumption
<1>2. /\ s[Preamble + 3] = IF a.op = "read" THEN 1 ELSE 0
      /\ s[Preamble + 4] = IF a.op = "read" THEN 0 ELSE 1
      /\ \A i \in 1..AddrBits : s[Preamble + 4 + i] = 0
      /\ \A i \in 1..AddrBits : s[Preamble + 4 + AddrBits + i] = Bits(a.reg, AddrBits)[i]
  BY AddressIs
<1>3. \A i \in 1..HeadLen : g[i] = s[Preamble + i]
  OBVIOUS
<1>4. a.op \in {"read", "write"} /\ a.reg \in Register
  BY DEF Accesses
<1> HIDE DEF s
<1>5. g[3] = s[Preamble + 3] /\ g[4] = s[Preamble + 4]
  <2>1. 3 \in 1..HeadLen /\ 4 \in 1..HeadLen
    BY <1>1
  <2>2. QED
    BY <1>3, <2>1
<1>6. (IsRead(g) <=> a.op = "read") /\ (IsWrite(g) <=> a.op = "write")
  <2> DEFINE o == SubSeq(g, 3, 4)
  <2>1. o \in Seq({0, 1}) /\ Len(o) = 2 /\ o[1] = g[3] /\ o[2] = g[4]
    <3>1. /\ SubSeq(g, 2 + 1, 2 + 2) \in Seq({0, 1}) /\ Len(SubSeq(g, 2 + 1, 2 + 2)) = 2
          /\ \A i \in 1..2 : SubSeq(g, 2 + 1, 2 + 2)[i] = g[2 + i]
      <4>1. 2 \in Nat /\ 2 + 2 <= Len(g)
        BY <1>1
      <4>2. QED
        BY <4>1, PartIs
    <3>2. QED
      BY <3>1
  <2> HIDE DEF o
  <2>2. o = <<g[3], g[4]>>
    BY <2>1
  <2>3. /\ IsRead(g) <=> o = <<1, 0>>
        /\ IsWrite(g) <=> o = <<0, 1>>
    BY DEF IsRead, IsWrite, o
  <2>4. CASE a.op = "read"
    <3>1. o[1] = 1 /\ o[2] = 0 /\ o = <<1, 0>>
      BY <1>2, <1>5, <2>1, <2>2, <2>4
    <3>2. o # <<0, 1>>
      BY <3>1
    <3>3. QED
      BY <2>3, <2>4, <3>1, <3>2
  <2>5. CASE a.op = "write"
    <3>1. o[1] = 0 /\ o[2] = 1 /\ o = <<0, 1>>
      BY <1>2, <1>5, <2>1, <2>2, <2>5
    <3>2. o # <<1, 0>>
      BY <3>1
    <3>3. QED
      BY <2>3, <2>5, <3>1, <3>2
  <2>6. QED
    BY <1>4, <2>4, <2>5
<1>7. SubSeq(g, 5, 4 + AddrBits) = Bits(PHY_ADDR, AddrBits)
  <2> DEFINE u == SubSeq(g, 5, 4 + AddrBits)
             w == Bits(PHY_ADDR, AddrBits)
  <2>1. 4 \in Nat /\ 4 + AddrBits <= Len(g) /\ 4 + 1 = 5
    BY <1>1
  <2>2. /\ u \in Seq({0, 1}) /\ Len(u) = AddrBits
        /\ \A i \in 1..AddrBits : u[i] = g[4 + i]
    BY <1>1, <2>1, PartIs
  <2>3. /\ w \in Seq({0, 1}) /\ Len(w) = AddrBits
        /\ \A i \in 1..AddrBits : w[i] = 0
    BY <1>1, BitsIs DEF PHY_ADDR
  <2> HIDE DEF u, w
  <2>4. ASSUME NEW i \in 1..AddrBits
        PROVE  u[i] = w[i]
    <3> DEFINE j == 4 + i
    <3>1. j \in 1..HeadLen /\ Preamble + j = Preamble + 4 + i
      BY <1>1
    <3>2. u[i] = g[j]
      BY <2>2
    <3> HIDE DEF j
    <3>3. g[j] = s[Preamble + 4 + i]
      BY <1>3, <3>1
    <3>4. QED
      BY <1>2, <2>3, <3>2, <3>3
  <2>5. u = w
    BY <2>2, <2>3, <2>4, SeqEqual
  <2>6. QED
    BY <2>5 DEF u, w
<1>8. SubSeq(g, 5 + AddrBits, HeadLen) = Bits(a.reg, AddrBits)
  <2> DEFINE m == 4 + AddrBits
             u == SubSeq(g, m + 1, m + AddrBits)
             w == Bits(a.reg, AddrBits)
  <2>1. m \in Nat /\ m + AddrBits <= Len(g) /\ m + 1 = 5 + AddrBits /\ m + AddrBits = HeadLen
    BY <1>1
  <2>2. w \in Seq({0, 1}) /\ Len(w) = AddrBits
    BY <1>1, BitsIs
  <2> HIDE DEF m
  <2>3. /\ u \in Seq({0, 1}) /\ Len(u) = AddrBits
        /\ \A i \in 1..AddrBits : u[i] = g[m + i]
    BY <1>1, <2>1, PartIs
  <2> HIDE DEF u
  <2>4. ASSUME NEW i \in 1..AddrBits
        PROVE  u[i] = w[i]
    <3> DEFINE j == m + i
    <3>1. j \in 1..HeadLen /\ Preamble + j = Preamble + 4 + AddrBits + i
      BY <1>1 DEF m
    <3>2. u[i] = g[j]
      BY <2>3
    <3> HIDE DEF j
    <3>3. g[j] = s[Preamble + 4 + AddrBits + i]
      BY <1>3, <3>1
    <3>4. QED
      BY <1>2, <3>2, <3>3
  <2> HIDE DEF w
  <2>5. u = w
    BY <2>2, <2>3, <2>4, SeqEqual
  <2>6. QED
    BY <2>1, <2>5 DEF u, w
<1>9. ForMe(g)
  BY <1>4, <1>7, <1>8 DEF ForMe
<1>10. Named(g) = a.reg
  <2>1. \E r \in Register : Bits(r, AddrBits) = SubSeq(g, 5 + AddrBits, HeadLen)
    BY <1>4, <1>8
  <2>2. /\ Named(g) \in Register
        /\ Bits(Named(g), AddrBits) = SubSeq(g, 5 + AddrBits, HeadLen)
    BY <2>1 DEF Named
  <2>3. QED
    BY <1>4, <1>8, <2>2, RegistersApart
<1>11. QED
  BY <1>6, <1>9, <1>10

\* A frame for the PHY names one of its registers.
LEMMA NamedType ==
  ASSUME NEW g, ForMe(g)
  PROVE  Named(g) \in Register
BY DEF ForMe, Named

-----------------------------------------------------------------------------
(***************************************************************************)
(* The invariant holds at the start, and every step but a clock keeps it.  *)
(***************************************************************************)

LEMMA NothingIs ==
  /\ Nothing \in [op : {"none", "read", "write"}, reg : Register, value : SUBSET BitNo]
  /\ Nothing.op = "none" /\ Nothing.value = {}
<1>1. {} \in Register /\ {} \in SUBSET BitNo
  BY DEF Register, CONTROL_REG
<1>2. QED
  BY <1>1 DEF Nothing

LEMMA NoBits == <<>> \in Seq({0, 1}) /\ Len(<<>>) = 0
<1>1. <<>> \in Seq({0, 1})
  OBVIOUS
<1>2. QED
  BY <1>1

LEMMA FreshIs == Fresh \in [Register -> SUBSET BitNo]
BY DEF Fresh, MiiAssumption

LEMMA ConstantsAre ==
  /\ Preamble \in Nat /\ Preamble >= 1 /\ DataBits \in Nat /\ DataBits >= 1
  /\ HeadLen \in Nat /\ HeadLen >= 14 /\ Preamble > HeadLen + DataBits
  /\ BitNo = 0..DataBits - 1
BY HeadIs DEF MiiAssumption, PreambleAssumption, BitNo

LEMMA MiiInitially == MiiInit => MiiInv
<1> SUFFICES ASSUME MiiInit
             PROVE  MiiInv
  OBVIOUS
<1> USE DEF MiiInit
<1>1. Typed
  <2>1. at \in 0..Len(Program) + 1
    BY ProgramIs
  <2>2. resets \in 0..MaxResets /\ ones \in 0..Preamble /\ turn \in Nat
    BY DEF MiiAssumption
  <2>3. got \in Seq({0, 1}) /\ giving \in Seq({0, 1})
    BY NoBits
  <2>4. taken \in [op : {"none", "read", "write"}, reg : Register, value : SUBSET BitNo]
    BY NothingIs
  <2>5. QED
    BY <2>1, <2>2, <2>3, <2>4, FreshIs DEF Typed, Z
<1>2. Going /\ phase = "pin" /\ turn = 0
  BY ProgramIs DEF Going
<1>3. Access \in Accesses
  BY <1>2, AccessIs
<1>4. Len(Line(Access, value)) \in Nat /\ Pins(Access) = Line(Access, value)
  BY <1>3, LineIs, ConstantsAre DEF Pins, Line
<1>5. PinInv
  BY <1>2, <1>4 DEF PinInv
<1>6. Sent = 0 /\ After <= 0
  BY <1>2, ConstantsAre DEF Sent, After
<1>7. FrameInv /\ ReturnInv
  BY <1>2, <1>6 DEF FrameInv, ReturnInv, Idle, Under
<1>8. ValueInv /\ AwakeInv
  BY <1>2 DEF ValueInv, AwakeInv, Idle
<1>9. QED
  BY <1>1, <1>5, <1>7, <1>8 DEF MiiInv

\* A step that leaves alone what the program and the PHY know of the frame.
LEMMA SameFrame ==
  ASSUME MiiInv, UNCHANGED <<program, awake, ones, got, giving, steady, taken>>
  PROVE  PinInv' /\ ValueInv' /\ FrameInv' /\ ReturnInv' /\ AwakeInv'
<1>1. UNCHANGED <<at, turn, phase, value, pin, awake, ones, got, giving, steady, taken>>
  BY DEF program
<1>2. PinInv'
  BY <1>1 DEF MiiInv, PinInv, Going, Access, Pins, SendAddress
<1>3. ValueInv'
  BY <1>1 DEF MiiInv, ValueInv, Under, Going, Access, Count, After, Sent
<1>4. /\ Under' = Under /\ After' = After /\ Idle' = Idle /\ Sent' = Sent
      /\ Access' = Access /\ Count' = Count /\ Going' = Going
      /\ Pins(Access)' = Pins(Access)
  BY <1>1 DEF Under, After, Idle, Sent, Access, Count, Going, Pins
<1>5. Lost' = Lost /\ Following' = Following /\ Answering' = Answering /\ Done' = Done
  BY <1>1, <1>4 DEF Lost, Following, Answering, Done, ForAccess
<1>6. FrameInv'
  BY <1>1, <1>4, <1>5 DEF MiiInv, FrameInv
<1>7. ReturnInv'
  BY <1>1, <1>4 DEF MiiInv, ReturnInv, ForAccess
<1>8. AwakeInv'
  BY <1>1, <1>4 DEF MiiInv, AwakeInv
<1>9. QED
  BY <1>2, <1>3, <1>6, <1>7, <1>8

LEMMA LinkChangesInv == MiiInv /\ LinkChanges => MiiInv'
<1> SUFFICES ASSUME MiiInv, LinkChanges
             PROVE  MiiInv'
  OBVIOUS
<1>1. UNCHANGED <<program, awake, ones, got, giving, resets, steady, taken>>
  BY DEF LinkChanges
<1>2. regs' \in [Register -> SUBSET BitNo]
  <2>1. regs \in [Register -> SUBSET BitNo] /\ STATUS_REG \in Register /\ Link \subseteq BitNo
    BY DEF MiiInv, Typed, Register, MiiAssumption
  <2> DEFINE v == IF Link \subseteq regs[STATUS_REG] THEN regs[STATUS_REG] \ Link
                  ELSE regs[STATUS_REG] \cup Link
  <2>2. v \in SUBSET BitNo
    BY <2>1
  <2>3. regs' = [regs EXCEPT ![STATUS_REG] = v]
    BY DEF LinkChanges
  <2> HIDE DEF v
  <2>4. QED
    BY <2>1, <2>2, <2>3
<1>3. Typed'
  BY <1>1, <1>2 DEF MiiInv, Typed, program
<1>4. QED
  BY <1>1, <1>3, SameFrame DEF MiiInv

\* A PHY that wakes up listens to no frame yet.
LEMMA WakeUpInv == MiiInv /\ WakeUp => MiiInv'
<1> SUFFICES ASSUME MiiInv, WakeUp
             PROVE  MiiInv'
  OBVIOUS
<1>1. /\ UNCHANGED <<at, turn, phase, value, pin, ones, got, giving, regs, resets, steady, taken>>
      /\ ~awake /\ awake'
  BY DEF WakeUp, program
<1>2. Typed'
  BY <1>1 DEF MiiInv, Typed
<1>3. PinInv' /\ ValueInv'
  <2>1. PinInv'
    BY <1>1 DEF MiiInv, PinInv, Going, Access, Pins, SendAddress
  <2>2. ValueInv'
    BY <1>1 DEF MiiInv, ValueInv, Under, Going, Access, Count, After, Sent
  <2>3. QED
    BY <2>1, <2>2
<1>4. /\ Under' = Under /\ After' = After /\ Idle' = Idle /\ Sent' = Sent
      /\ Access' = Access /\ Count' = Count /\ Going' = Going
  BY <1>1 DEF Under, After, Idle, Sent, Access, Count, Going
<1>5. ~Following /\ ~Answering /\ Lost' = Lost /\ Done' = Done
  BY <1>1, <1>4 DEF Lost, Following, Answering, Done, ForAccess
<1>6. FrameInv'
  BY <1>1, <1>4, <1>5 DEF MiiInv, FrameInv
<1>7. ReturnInv'
  BY <1>1, <1>4 DEF MiiInv, ReturnInv, ForAccess
<1>8. AwakeInv'
  BY <1>1, <1>4 DEF MiiInv, AwakeInv
<1>9. QED
  BY <1>2, <1>3, <1>6, <1>7, <1>8 DEF MiiInv

\* A reset makes the PHY forget the frame: whatever it has done of the access stays
\* what the access asked for.
LEMMA ResetInv == MiiInv /\ Reset => MiiInv'
<1> SUFFICES ASSUME MiiInv, Reset
             PROVE  MiiInv'
  OBVIOUS
<1>1. /\ UNCHANGED <<at, turn, phase, value, pin, taken>>
      /\ ~awake' /\ ones' = 0 /\ got' = <<>> /\ giving' = <<>> /\ ~steady'
      /\ awake' = FALSE /\ steady' = FALSE /\ regs' = Fresh
      /\ resets < MaxResets /\ resets' = resets + 1
  BY DEF Reset, program
<1>2. Typed'
  <2>1. got' \in Seq({0, 1}) /\ giving' \in Seq({0, 1})
    BY <1>1, NoBits
  <2>2. resets' \in 0..MaxResets /\ ones' \in 0..Preamble
    BY <1>1 DEF MiiInv, Typed, MiiAssumption
  <2>3. awake' \in BOOLEAN /\ steady' \in BOOLEAN
    BY <1>1
  <2>4. regs' \in [Register -> SUBSET BitNo]
    BY <1>1, FreshIs
  <2>5. /\ at' \in 0..Len(Program') + 1 /\ turn' \in Nat /\ phase' \in {"pin", "clock", "returned"}
        /\ value' \subseteq BitNo /\ pin' \in {0, 1, Z}
        /\ taken' \in [op : {"none", "read", "write"}, reg : Register, value : SUBSET BitNo]
    BY <1>1 DEF MiiInv, Typed
  <2>6. QED
    BY <2>1, <2>2, <2>3, <2>4, <2>5 DEF Typed
<1>3. PinInv' /\ ValueInv'
  <2>1. PinInv'
    BY <1>1 DEF MiiInv, PinInv, Going, Access, Pins, SendAddress
  <2>2. ValueInv'
    BY <1>1 DEF MiiInv, ValueInv, Under, Going, Access, Count, After, Sent
  <2>3. QED
    BY <2>1, <2>2
<1>4. /\ Under' = Under /\ After' = After /\ Sent' = Sent
      /\ Access' = Access /\ Going' = Going /\ ForAccess' = ForAccess /\ Idle'
  BY <1>1 DEF Under, After, Idle, Sent, Access, Going, ForAccess
<1>5. After \in Int
  BY ConstantsAre DEF MiiInv, Typed, After, Sent
<1>6. ASSUME Under
      PROVE  IF After <= 0 THEN taken = Nothing ELSE taken # Nothing => ForAccess
  BY <1>6 DEF MiiInv, FrameInv, Lost, Following, Answering, Done
<1>7. FrameInv'
  <2>1. CASE ~Under
    BY <1>4, <2>1 DEF FrameInv
  <2>2. CASE Under /\ After <= 0
    BY <1>1, <1>4, <1>6, <2>2 DEF FrameInv
  <2>3. CASE Under /\ ~(After <= 0)
    <3>1. ones' <= After' - 1
      BY <1>1, <1>4, <1>5, <2>3
    <3>2. Lost'
      BY <1>1, <1>4, <1>6, <2>3, <3>1 DEF Lost
    <3>3. QED
      BY <1>4, <2>3, <3>2 DEF FrameInv
  <2>4. QED
    BY <2>1, <2>2, <2>3
<1>8. ReturnInv'
  BY <1>1, <1>4 DEF MiiInv, ReturnInv
<1>9. AwakeInv'
  BY <1>1, <1>4 DEF MiiInv, AwakeInv
<1>10. QED
  BY <1>2, <1>3, <1>7, <1>8, <1>9 DEF MiiInv

\* What an access is while the program makes it.
LEMMA GoingIs ==
  ASSUME MiiInv, Going
  PROVE  /\ Access \in Accesses /\ Pins(Access) = Line(Access, value)
         /\ Len(Pins(Access)) \in Nat /\ Access.op \in {"read", "write"}
         /\ Len(Pins(Access)) = Preamble + HeadLen + DataBits + (IF Access.op = "read" THEN 2 ELSE 3)
<1>1. Access \in Accesses
  BY AccessIs
<1>2. Pins(Access) = Line(Access, value)
  BY DEF Pins, Line
<1>3. Access.op \in {"read", "write"}
  BY <1>1 DEF Accesses
<1>4. Len(Pins(Access)) = Preamble + HeadLen + DataBits + (IF Access.op = "read" THEN 2 ELSE 3)
  BY <1>1, <1>2, LineIs
<1>5. Len(Pins(Access)) \in Nat
  BY <1>3, <1>4, ConstantsAre
<1>6. QED
  BY <1>1, <1>2, <1>3, <1>4, <1>5

LEMMA BeginInv == MiiInv /\ Begin => MiiInv'
<1> SUFFICES ASSUME MiiInv, Begin
             PROVE  MiiInv'
  OBVIOUS
<1>1. /\ UNCHANGED <<at, phase, pin, awake, ones, got, giving, regs, resets, taken>>
      /\ Going /\ phase = "pin" /\ turn = 0 /\ turn' = 1 /\ steady' = awake
      /\ value' = IF Access.op = "read" THEN {} ELSE value \cup Access.set
  BY DEF Begin, phy
<1>2. Access \in Accesses /\ Access.op \in {"read", "write"} /\ Access.set \subseteq BitNo
  BY <1>1, GoingIs DEF Accesses
<1>3. Typed'
  <2>1. value' \subseteq BitNo
    BY <1>1, <1>2 DEF MiiInv, Typed
  <2>2. turn' \in Nat /\ steady' \in BOOLEAN
    BY <1>1 DEF MiiInv, Typed
  <2>3. QED
    BY <1>1, <2>1, <2>2 DEF MiiInv, Typed
<1>4. Access' = Access /\ Going' = Going /\ Under' = Under /\ Idle' = Idle /\ Under
  BY <1>1 DEF Access, Going, Under, Idle
<1>5. PinInv'
  <2>1. /\ Pins(Access)' = Line(Access', value')
        /\ Len(Line(Access', value')) = Preamble + HeadLen + DataBits
                                          + (IF Access.op = "read" THEN 2 ELSE 3)
    <3>1. Pins(Access)' = Line(Access', value')
      BY DEF Pins, Line, SendAddress, Access
    <3>2. QED
      BY <1>2, <1>4, <3>1, LineIs
  <2>2. 1 \in 0..Len(Pins(Access)')
    BY <1>2, <2>1, ConstantsAre
  <2>3. QED
    BY <1>1, <2>2 DEF PinInv
<1>6. ValueInv'
  BY <1>1, <1>4 DEF ValueInv
<1>7. Sent = 0 /\ Sent' = 0 /\ After <= 0 /\ After' <= 0
  BY <1>1, ConstantsAre DEF Sent, After
<1>8. Idle /\ taken = Nothing
  BY <1>4, <1>7 DEF MiiInv, FrameInv
<1>9. FrameInv'
  BY <1>1, <1>4, <1>7, <1>8 DEF MiiInv, FrameInv, Typed
<1>10. ReturnInv'
  BY <1>1, <1>4 DEF ReturnInv, Under
<1>11. AwakeInv'
  BY <1>1, <1>4 DEF MiiInv, AwakeInv
<1>12. QED
  BY <1>3, <1>5, <1>6, <1>9, <1>10, <1>11 DEF MiiInv

\* The line is the program's until the turnaround of a read, and nobody's from there:
\* a PHY that answers is past it.
LEMMA SetPinInv == MiiInv /\ SetPin => MiiInv'
<1> SUFFICES ASSUME MiiInv, SetPin
             PROVE  MiiInv'
  OBVIOUS
<1>1. /\ UNCHANGED <<at, turn, value, awake, ones, got, giving, regs, resets, steady, taken>>
      /\ Going /\ phase = "pin" /\ turn > 0 /\ phase' = "clock"
      /\ pin' = Pins(Access)[turn]
  BY DEF SetPin, phy
<1>2. /\ Access \in Accesses /\ Pins(Access) = Line(Access, value)
      /\ Len(Pins(Access)) \in Nat /\ Access.op \in {"read", "write"}
  BY <1>1, GoingIs
<1>3. turn \in 1..Len(Pins(Access)) /\ turn \in Nat
  BY <1>1, <1>2 DEF MiiInv, PinInv, Typed
<1>4. /\ Access' = Access /\ Going' = Going /\ Under' = Under /\ Idle' = Idle
      /\ After' = After /\ Sent' = Sent /\ Count' = Count /\ Pins(Access)' = Pins(Access)
  BY <1>1 DEF Access, Going, Under, Idle, After, Sent, Count, Pins, SendAddress
<1>5. pin' \in {0, 1, Z}
  <2>1. Line(Access, value) \in Seq(Wires)
    BY <1>2, LineIs
  <2> DEFINE l == Line(Access, value)
  <2>2. l \in Seq(Wires) /\ turn \in 1..Len(l)
    BY <1>2, <1>3, <2>1
  <2> HIDE DEF l
  <2>3. l[turn] \in Wires
    BY <2>2
  <2>4. QED
    BY <1>1, <1>2, <2>3 DEF l, Wires
<1>6. Typed'
  BY <1>1, <1>5 DEF MiiInv, Typed
<1>7. PinInv'
  BY <1>1, <1>3, <1>4 DEF PinInv
<1>8. ValueInv'
  BY <1>1, <1>4 DEF MiiInv, ValueInv
<1>9. Answering => Answering'
  <2>1. SUFFICES ASSUME Answering
                 PROVE  Answering'
    OBVIOUS
  <2>2. Access.op = "read" /\ Count \in 0..DataBits
    BY <2>1 DEF Answering
  <2>3. turn \in Preamble + HeadLen + 1..Preamble + HeadLen + DataBits + 2
    BY <1>1, <2>2, ConstantsAre, <1>3 DEF Count, After, Sent
  <2>4. pin' = Z
    BY <1>1, <1>2, <2>2, <2>3, ReadLine
  <2>5. QED
    BY <1>1, <1>4, <2>1, <2>4 DEF Answering, ForAccess
<1>10. Lost' = Lost /\ Following' = Following /\ Done' = Done
  BY <1>1, <1>4 DEF Lost, Following, Done, ForAccess
<1>11. FrameInv'
  BY <1>1, <1>4, <1>9, <1>10 DEF MiiInv, FrameInv
<1>12. ReturnInv'
  BY <1>1, <1>4 DEF ReturnInv, MiiInv, Under
<1>13. AwakeInv'
  BY <1>1, <1>4 DEF MiiInv, AwakeInv
<1>14. QED
  BY <1>6, <1>7, <1>8, <1>11, <1>12, <1>13 DEF MiiInv

LEMMA ReturnKeeps == MiiInv /\ Return => MiiInv'
<1> SUFFICES ASSUME MiiInv, Return
             PROVE  MiiInv'
  OBVIOUS
<1>1. /\ UNCHANGED <<turn, value, pin, awake, ones, got, giving, regs, resets, steady>>
      /\ Going /\ phase = "returned" /\ phase' = "pin" /\ taken' = Nothing
      /\ at' \in {0, at, at + 1}
  BY DEF Return, phy
<1>2. turn = 0 /\ Idle
  BY <1>1 DEF MiiInv, ReturnInv, Under
<1>3. at' \in 0..Len(Program) + 1
  BY <1>1, ProgramIs DEF Going
<1>4. Typed'
  BY <1>1, <1>3, NothingIs DEF MiiInv, Typed
<1>5. Sent' = 0 /\ After' <= 0 /\ Idle' = Idle
  BY <1>1, <1>2, ConstantsAre DEF Sent, After, Idle
<1>6. FrameInv'
  <2>1. steady' => ones' >= Sent'
    BY <1>1, <1>5 DEF MiiInv, Typed
  <2>2. QED
    BY <1>1, <1>2, <1>5, <2>1 DEF FrameInv
<1>7. PinInv'
  <2>1. ASSUME Going'
        PROVE  Len(Pins(Access)') \in Nat
    <3>1. Access' \in Accesses
      <4> DEFINE p == Program
      <4>1. p \in Seq(Accesses) /\ at' \in 1..Len(p)
        BY <2>1, ProgramIs DEF Going
      <4> HIDE DEF p
      <4>2. p[at'] \in Accesses
        BY <4>1
      <4>3. QED
        BY <4>2 DEF p, Access
    <3>2. Access'.op \in {"read", "write"}
      BY <3>1 DEF Accesses
    <3>3. Pins(Access)' = Line(Access', value')
      BY DEF Pins, Line, SendAddress, Access
    <3>4. Len(Pins(Access)') = Preamble + HeadLen + DataBits + (IF Access'.op = "read" THEN 2 ELSE 3)
      BY <3>1, <3>3, LineIs
    <3>5. QED
      BY <3>2, <3>4, ConstantsAre
  <2>2. QED
    BY <1>1, <1>2, <2>1 DEF PinInv
<1>8. ValueInv' /\ ReturnInv'
  BY <1>1, <1>2, <1>5 DEF ValueInv, ReturnInv
<1>9. AwakeInv'
  BY <1>1, <1>5 DEF MiiInv, AwakeInv
<1>10. QED
  BY <1>4, <1>6, <1>7, <1>8, <1>9 DEF MiiInv

-----------------------------------------------------------------------------
(***************************************************************************)
(* A clock keeps the invariant.                                            *)
(***************************************************************************)

\* What the program samples and what it makes of it, as in Clock.
Bit == Level(pin, giving')
Checks == Access.op = "read" /\ turn = CheckTurn
Reads == Access.op = "read" /\ turn \in CheckTurn + 1 .. CheckTurn + DataBits
Over == turn = Len(Pins(Access)) \/ (Checks /\ Bit # 0)

\* What FrameInv and ReturnInv ask of the step.
NextFrame ==
  IF Over
    THEN /\ Idle'
         /\ (taken # Nothing => ForAccess)'
         /\ steady => ForAccess' /\ taken'.value = value'
  ELSE IF After + 1 <= 0
    THEN Idle' /\ taken' = Nothing /\ (steady => ones' >= Sent + 1)
  ELSE Lost' \/ Following' \/ Answering' \/ Done'

\* The level of the line, with a PHY that drives it or not.
LEMMA LevelIs ==
  ASSUME NEW p \in {0, 1, Z}, NEW g \in Seq({0, 1})
  PROVE  /\ Level(p, g) \in {0, 1}
         /\ p # Z => Level(p, g) = p
         /\ p = Z /\ g # <<>> => Level(p, g) = g[1]
         /\ p # 0 /\ g = <<>> => Level(p, g) = 1
<1>1. ASSUME g # <<>>
      PROVE  g[1] \in {0, 1}
  <2>1. Len(g) >= 1 /\ 1 \in 1..Len(g)
    BY <1>1
  <2>2. QED
    BY <2>1
<1>2. QED
  BY <1>1 DEF Level, Z

\* Where the clock is, and where it leaves the program.
LEMMA ClockIs ==
  ASSUME MiiInv, Clock
  PROVE  /\ Going /\ phase = "clock" /\ Under /\ turn \in Nat
         /\ Access \in Accesses /\ Access.op \in {"read", "write"}
         /\ Pins(Access) = Line(Access, value)
         /\ turn \in 1..Len(Line(Access, value)) /\ pin = Line(Access, value)[turn]
         /\ CheckTurn = Preamble + HeadLen + 1
         /\ Sent = turn - 1 /\ After = turn - 1 - Preamble /\ Count = turn - Preamble - HeadLen - 2
         /\ Edge(Level(pin, giving))
         /\ UNCHANGED <<at, pin, steady>> /\ Access' = Access /\ Going' = Going
<1>1. Going /\ phase = "clock" /\ UNCHANGED <<at, pin, steady>> /\ Edge(Level(pin, giving))
  BY DEF Clock
<1>2. turn \in Nat /\ Under
  BY <1>1 DEF MiiInv, Typed, Under
<1>3. /\ Access \in Accesses /\ Access.op \in {"read", "write"}
      /\ Pins(Access) = Line(Access, value) /\ Len(Pins(Access)) \in Nat
  BY <1>1, GoingIs
<1>4. turn \in 1..Len(Line(Access, value)) /\ pin = Line(Access, value)[turn]
  BY <1>1, <1>3 DEF MiiInv, PinInv
<1>5. CheckTurn = Preamble + HeadLen + 1
  BY <1>3, AddressIs DEF CheckTurn
<1>6. Sent = turn - 1
  BY <1>2, <1>4, <1>3 DEF Sent
<1>7. After = turn - 1 - Preamble /\ Count = turn - Preamble - HeadLen - 2
  BY <1>2, <1>6, ConstantsAre DEF After, Count
<1>8. Access' = Access /\ Going' = Going
  BY <1>1 DEF Access, Going
<1>9. QED
  BY <1>1, <1>2, <1>3, <1>4, <1>5, <1>6, <1>7, <1>8

LEMMA ClockGoes ==
  ASSUME MiiInv, Clock
  PROVE  /\ value' = IF Checks /\ Bit # 0 THEN Invalid
                     ELSE IF Reads THEN {b + 1 : b \in value} \cup (IF Bit = 1 THEN {0} ELSE {})
                     ELSE value
         /\ Over => turn' = 0 /\ phase' = "returned" /\ ~Under'
         /\ ~Over => /\ turn' = turn + 1 /\ phase' = "pin" /\ Under'
                     /\ Sent' = Sent + 1 /\ After' = After + 1 /\ Count' = Count + 1
<1>1. /\ value' = IF Checks /\ Bit # 0 THEN Invalid
                  ELSE IF Reads THEN {b + 1 : b \in value} \cup (IF Bit = 1 THEN {0} ELSE {})
                  ELSE value
      /\ turn' = IF Over THEN 0 ELSE turn + 1
      /\ phase' = IF Over THEN "returned" ELSE "pin"
  BY DEF Clock, Checks, Reads, Over, Bit
<1>2. Going' /\ turn \in Nat /\ turn >= 1 /\ Sent = turn - 1
  BY ClockIs
<1>3. ASSUME ~Over
      PROVE  Sent' = Sent + 1 /\ After' = After + 1 /\ Count' = Count + 1
  <2>1. turn' = turn + 1
    BY <1>1, <1>3
  <2>2. Sent' = turn
    BY <1>2, <2>1 DEF Sent
  <2>3. After' = turn - Preamble /\ After = turn - 1 - Preamble
    BY <1>2, <2>2 DEF After
  <2>4. QED
    BY <1>2, <2>2, <2>3, ConstantsAre DEF Count
<1>4. QED
  BY <1>1, <1>2, <1>3 DEF Under

\* What the edge leaves of the PHY has its type.
LEMMA EdgeTypes ==
  ASSUME Typed, NEW bit \in {0, 1}, Edge(bit)
  PROVE  /\ awake' \in BOOLEAN /\ ones' \in 0..Preamble
         /\ got' \in Seq({0, 1}) /\ giving' \in Seq({0, 1})
         /\ regs' \in [Register -> SUBSET BitNo] /\ resets' \in 0..MaxResets
         /\ taken' \in [op : {"none", "read", "write"}, reg : Register, value : SUBSET BitNo]
<1>1. /\ awake \in BOOLEAN /\ ones \in 0..Preamble
      /\ got \in Seq({0, 1}) /\ giving \in Seq({0, 1})
      /\ regs \in [Register -> SUBSET BitNo] /\ resets \in 0..MaxResets
      /\ taken \in [op : {"none", "read", "write"}, reg : Register, value : SUBSET BitNo]
  BY DEF Typed
<1>2. awake' \in BOOLEAN /\ resets' \in 0..MaxResets
  BY <1>1 DEF Edge
<1>3. CASE ~awake
  BY <1>1, <1>2, <1>3 DEF Edge
<1>4. CASE awake /\ giving # <<>>
  <2>1. /\ giving' = Tail(giving) /\ ones' = 0 /\ UNCHANGED <<got, regs, taken>>
    BY <1>4 DEF Edge
  <2>2. giving' \in Seq({0, 1})
    BY <1>1, <1>4, <2>1
  <2>3. ones' \in 0..Preamble
    BY <2>1, ConstantsAre
  <2>4. QED
    BY <1>1, <1>2, <2>1, <2>2, <2>3
<1>5. CASE awake /\ giving = <<>> /\ got # <<>>
  <2> DEFINE g == Append(got, bit)
  <2>1. g \in Seq({0, 1})
    BY <1>1
  <2>2. Collect(g) /\ ones' = 0
    BY <1>5 DEF Edge
  <2>3. ones' \in 0..Preamble
    BY <2>2, ConstantsAre
  <2> HIDE DEF g
  <2>4. CASE got' \in {<<>>, g} /\ UNCHANGED <<giving, regs, taken>>
    BY <1>1, <1>2, <2>1, <2>3, <2>4, NoBits
  <2>5. CASE Answer(g) /\ ForMe(g)
    <3>1. Named(g) \in Register
      BY <2>5, NamedType
    <3> DEFINE r == Named(g)
               v == regs[r]
    <3>2. v \in SUBSET BitNo
      BY <1>1, <3>1
    <3>3. /\ giving' = <<0>> \o Bits(v, DataBits) /\ got' = <<>> /\ regs' = regs
          /\ taken' = [op |-> "read", reg |-> r, value |-> v]
      BY <2>5 DEF Answer
    <3>4. giving' \in Seq({0, 1})
      <4> DEFINE w == Bits(v, DataBits)
      <4>1. w \in Seq({0, 1}) /\ <<0>> \in Seq({0, 1})
        BY BitsIs, ConstantsAre
      <4>2. giving' = <<0>> \o w
        BY <3>3
      <4> HIDE DEF w
      <4>3. QED
        BY <4>1, <4>2
    <3> HIDE DEF r, v
    <3>5. taken' \in [op : {"none", "read", "write"}, reg : Register, value : SUBSET BitNo]
      BY <3>1, <3>2, <3>3 DEF r
    <3>6. QED
      BY <1>1, <1>2, <2>3, <3>3, <3>4, <3>5, NoBits
  <2>6. CASE Execute(g) /\ ForMe(g)
    <3> DEFINE v == {b \in BitNo : g[HeadLen + 2 + DataBits - b] = 1}
               r == Named(g)
    <3>1. r \in Register /\ CONTROL_REG \in Register /\ STATUS_REG \in Register
      BY <2>6, NamedType DEF Register
    <3>2. v \in SUBSET BitNo /\ v \ Restart \in SUBSET BitNo
      OBVIOUS
    <3>3. /\ regs' = IF r = CONTROL_REG /\ v \cap Restart # {}
                       THEN [regs EXCEPT ![CONTROL_REG] = v \ Restart,
                                         ![STATUS_REG] = @ \ Link]
                       ELSE [regs EXCEPT ![r] = v]
          /\ taken' = [op |-> "write", reg |-> r, value |-> v]
          /\ got' = <<>> /\ giving' = giving
      BY <2>6 DEF Execute
    <3> HIDE DEF v, r
    <3>4. taken' \in [op : {"none", "read", "write"}, reg : Register, value : SUBSET BitNo]
      BY <3>1, <3>2, <3>3
    <3>5. regs' \in [Register -> SUBSET BitNo]
      <4>1. CASE r = CONTROL_REG /\ v \cap Restart # {}
        <5>1. CONTROL_REG # STATUS_REG
          BY DEF CONTROL_REG, STATUS_REG
        <5>2. regs' = [x \in Register |-> IF x = STATUS_REG THEN regs[STATUS_REG] \ Link
                                          ELSE IF x = CONTROL_REG THEN v \ Restart ELSE regs[x]]
          BY <1>1, <3>1, <3>3, <4>1, <5>1
        <5>3. QED
          BY <1>1, <3>1, <3>2, <5>2
      <4>2. CASE ~(r = CONTROL_REG /\ v \cap Restart # {})
        BY <1>1, <3>1, <3>2, <3>3, <4>2
      <4>3. QED
        BY <4>1, <4>2
    <3>6. QED
      BY <1>1, <1>2, <2>3, <3>3, <3>4, <3>5, NoBits
  <2>7. QED
    BY <2>2, <2>4, <2>5, <2>6 DEF Collect
<1>6. CASE awake /\ giving = <<>> /\ got = <<>>
  <2>1. /\ ones' = IF bit = 0 THEN 0 ELSE IF ones < Preamble THEN ones + 1 ELSE ones
        /\ got' = IF bit = 0 /\ ones = Preamble THEN <<0>> ELSE <<>>
        /\ UNCHANGED <<giving, regs, taken>>
    BY <1>6 DEF Edge
  <2>2. got' \in Seq({0, 1})
    <3>1. <<0>> \in Seq({0, 1})
      OBVIOUS
    <3>2. QED
      BY <2>1, <3>1, NoBits
  <2>3. ones' \in 0..Preamble
    BY <1>1, <2>1, ConstantsAre
  <2>4. QED
    BY <1>1, <1>2, <2>1, <2>2, <2>3
<1>7. QED
  BY <1>1, <1>3, <1>4, <1>5, <1>6

\* A clock in which the PHY is in reset: it has nothing of the access from there on.
LEMMA AsleepClock ==
  ASSUME MiiInv, Clock, ~awake
  PROVE  NextFrame
<1>1. /\ Under /\ Edge(Level(pin, giving)) /\ UNCHANGED steady /\ Access' = Access
      /\ turn \in Nat /\ After = turn - 1 - Preamble
  BY ClockIs
<1>2. UNCHANGED <<ones, got, giving, taken, awake>>
  BY <1>1 DEF Edge
<1>3. Idle /\ ones = 0 /\ ~steady
  BY DEF MiiInv, AwakeInv, Typed
<1>4. IF After <= 0 THEN taken = Nothing ELSE taken # Nothing => ForAccess
  BY <1>1 DEF MiiInv, FrameInv, Lost, Following, Answering, Done
<1>5. Idle' /\ ones' = 0 /\ ~steady' /\ taken' = taken /\ ForAccess' = ForAccess
  BY <1>1, <1>2, <1>3 DEF Idle, ForAccess
<1>6. CASE Over
  BY <1>3, <1>4, <1>5, <1>6 DEF NextFrame
<1>7. CASE ~Over /\ After + 1 <= 0
  <2>1. After <= 0
    BY <1>1, <1>7, ConstantsAre
  <2>2. QED
    BY <1>3, <1>4, <1>5, <1>7, <2>1 DEF NextFrame
<1>8. CASE ~Over /\ ~(After + 1 <= 0)
  <2>1. After' = After + 1
    BY <1>8, ClockGoes
  <2>2. ones' <= After' - 1
    BY <1>1, <1>5, <1>8, <2>1, ConstantsAre
  <2>3. Lost'
    BY <1>4, <1>5, <2>2 DEF Lost
  <2>4. QED
    BY <1>8, <2>3 DEF NextFrame
<1>9. QED
  BY <1>6, <1>7, <1>8

\* A clock in which the PHY only counts ones.
LEMMA QuietEdge ==
  ASSUME Idle, awake, NEW bit, Edge(bit)
  PROVE  /\ ones' = IF bit = 0 THEN 0 ELSE IF ones < Preamble THEN ones + 1 ELSE ones
         /\ got' = IF bit = 0 /\ ones = Preamble THEN <<0>> ELSE <<>>
         /\ UNCHANGED <<giving, taken, awake>>
BY DEF Edge, Idle

\* The preamble: a PHY that hears all of it counts all of it.
LEMMA PreambleClock ==
  ASSUME MiiInv, Clock, awake, turn <= Preamble
  PROVE  NextFrame
<1>1. /\ Under /\ Edge(Level(pin, giving)) /\ UNCHANGED steady
      /\ turn \in Nat /\ After = turn - 1 - Preamble /\ Sent = turn - 1
      /\ Access \in Accesses /\ Access.op \in {"read", "write"}
      /\ Pins(Access) = Line(Access, value)
      /\ turn \in 1..Len(Line(Access, value)) /\ pin = Line(Access, value)[turn]
      /\ CheckTurn = Preamble + HeadLen + 1
  BY ClockIs
<1>2. After + 1 <= 0 /\ After <= 0
  BY <1>1, ConstantsAre
<1>3. Idle /\ taken = Nothing /\ (steady => ones >= Sent) /\ giving = <<>>
  BY <1>1, <1>2 DEF MiiInv, FrameInv, Idle
<1>4. pin = 1
  <2>1. turn \in 1..Preamble
    BY <1>1, ConstantsAre
  <2>2. QED
    BY <1>1, <2>1, LineIs
<1>5. Level(pin, giving) = 1
  BY <1>3, <1>4 DEF Level, Z
<1>6. /\ ones' = IF ones < Preamble THEN ones + 1 ELSE ones
      /\ got' = <<>> /\ giving' = <<>> /\ taken' = Nothing
  <2> DEFINE bit == Level(pin, giving)
  <2>1. Edge(bit) /\ bit # 0
    BY <1>1, <1>5
  <2> HIDE DEF bit
  <2>2. QED
    BY <1>3, <2>1, QuietEdge
<1>7. steady => ones' >= Sent + 1
  <2>1. ones \in Nat /\ ones <= Preamble /\ Preamble \in Nat /\ turn <= Preamble
    BY ConstantsAre DEF MiiInv, Typed
  <2>2. ones' = Preamble \/ ones' = ones + 1
    BY <1>6, <2>1
  <2>3. Sent + 1 = turn
    BY <1>1
  <2>4. QED
    BY <1>1, <1>3, <2>1, <2>2, <2>3
<1>8. ~Over
  <2>1. turn # Len(Pins(Access))
    <3>1. Len(Pins(Access)) = Preamble + HeadLen + DataBits + (IF Access.op = "read" THEN 2 ELSE 3)
      BY <1>1, LineIs
    <3>2. Len(Pins(Access)) > Preamble
      BY <1>1, <3>1, ConstantsAre
    <3>3. QED
      BY <1>1, <3>2, ConstantsAre
  <2>2. turn # CheckTurn
    BY <1>1, ConstantsAre
  <2>3. QED
    BY <2>1, <2>2 DEF Over, Checks
<1>9. QED
  BY <1>2, <1>6, <1>7, <1>8 DEF NextFrame, Idle

\* The first bit of the frame: the PHY takes it when it has counted a preamble, and
\* it has when it was awake for all of it.
LEMMA StartClock ==
  ASSUME MiiInv, Clock, awake, turn = Preamble + 1
  PROVE  NextFrame
<1>1. /\ Under /\ Edge(Level(pin, giving)) /\ UNCHANGED steady /\ Access' = Access
      /\ turn \in Nat /\ After = turn - 1 - Preamble /\ Sent = turn - 1
      /\ Access \in Accesses /\ Access.op \in {"read", "write"}
      /\ Pins(Access) = Line(Access, value)
      /\ turn \in 1..Len(Line(Access, value)) /\ pin = Line(Access, value)[turn]
      /\ CheckTurn = Preamble + HeadLen + 1
  BY ClockIs
<1>2. After = 0 /\ Sent = Preamble
  BY <1>1, ConstantsAre
<1>3. Idle /\ taken = Nothing /\ (steady => ones >= Preamble) /\ giving = <<>>
  BY <1>1, <1>2 DEF MiiInv, FrameInv, Idle
<1>4. pin = 0
  BY <1>1, LineIs
<1>5. Level(pin, giving) = 0
  BY <1>3, <1>4 DEF Level, Z
<1>6. /\ ones' = 0 /\ got' = IF ones = Preamble THEN <<0>> ELSE <<>>
      /\ giving' = <<>> /\ taken' = Nothing /\ awake'
  <2> DEFINE bit == Level(pin, giving)
  <2>1. Edge(bit) /\ bit = 0
    BY <1>1, <1>5
  <2> HIDE DEF bit
  <2>2. QED
    BY <1>3, <2>1, QuietEdge
<1>7. ~Over
  <2>1. turn # Len(Pins(Access))
    <3>1. Len(Pins(Access)) = Preamble + HeadLen + DataBits + (IF Access.op = "read" THEN 2 ELSE 3)
      BY <1>1, LineIs
    <3>2. QED
      BY <1>1, <3>1, ConstantsAre
  <2>2. turn # CheckTurn
    BY <1>1, ConstantsAre
  <2>3. QED
    BY <2>1, <2>2 DEF Over, Checks
<1>8. After' = 1 /\ ~(After + 1 <= 0)
  BY <1>2, <1>7, ClockGoes
<1>9. CASE ones = Preamble
  <2>1. got' = <<0>>
    BY <1>6, <1>9
  <2>2. Len(got') = 1 /\ got'[1] = 0
    BY <2>1
  <2>3. Pins(Access)' = Line(Access', value')
    BY DEF Pins, Line, SendAddress, Access
  <2>4. Pins(Access)'[Preamble + 1] = 0
    BY <1>1, <2>3, LineIs
  <2>5. ASSUME NEW i \in 1..1
        PROVE  got'[i] = Pins(Access)'[Preamble + i]
    <3>1. i = 1
      OBVIOUS
    <3>2. QED
      BY <2>2, <2>4, <3>1
  <2>6. Following'
    BY <1>1, <1>6, <1>8, <2>2, <2>5, ConstantsAre DEF Following
  <2>7. QED
    BY <1>7, <1>8, <2>6 DEF NextFrame
<1>10. CASE ones # Preamble
  <2>1. ~steady /\ ~steady'
    BY <1>1, <1>3, <1>10, ConstantsAre DEF MiiInv, Typed
  <2>2. Lost'
    BY <1>6, <1>8, <1>10, <2>1 DEF Lost, Idle
  <2>3. QED
    BY <1>7, <1>8, <2>2 DEF NextFrame
<1>11. QED
  BY <1>9, <1>10

\* What is left of a frame has no preamble: the PHY that does not follow it hears no
\* other one begin.
LEMMA LostClock ==
  ASSUME MiiInv, Clock, awake, After > 0, Lost
  PROVE  NextFrame
<1>1. /\ Under /\ Edge(Level(pin, giving)) /\ UNCHANGED steady /\ Access' = Access
      /\ turn \in Nat /\ After = turn - 1 - Preamble
      /\ Access \in Accesses
      /\ turn \in 1..Len(Line(Access, value)) /\ pin = Line(Access, value)[turn]
  BY ClockIs
<1>2. ~steady /\ Idle /\ ones <= After - 1 /\ (taken # Nothing => ForAccess) /\ giving = <<>>
  BY DEF Lost, Idle
<1> DEFINE bit == Level(pin, giving)
<1>3. ones \in Nat /\ ones <= Preamble
  BY ConstantsAre DEF MiiInv, Typed
<1>4. ~(bit = 0 /\ ones = Preamble)
  <2>1. SUFFICES ASSUME bit = 0
                 PROVE  ones # Preamble
    OBVIOUS
  <2>2. pin = 0
    BY <1>2, <2>1 DEF Level
  <2>3. turn <= Preamble + HeadLen + 2 + DataBits
    BY <1>1, <2>2, LowIs
  <2>4. QED
    BY <1>1, <1>2, <1>3, <2>3, ConstantsAre
<1>5. /\ ones' = IF bit = 0 THEN 0 ELSE IF ones < Preamble THEN ones + 1 ELSE ones
      /\ got' = <<>> /\ giving' = <<>> /\ taken' = taken
  <2>1. Edge(bit)
    BY <1>1
  <2> HIDE DEF bit
  <2>2. QED
    BY <1>2, <1>4, <2>1, QuietEdge
<1> HIDE DEF bit
<1>6. ones' <= After
  BY <1>1, <1>2, <1>3, <1>5, ConstantsAre
<1>7. Idle' /\ ~steady' /\ (taken' # Nothing => ForAccess')
  BY <1>1, <1>2, <1>5 DEF Idle, ForAccess
<1>8. CASE Over
  BY <1>2, <1>7, <1>8 DEF NextFrame
<1>9. CASE ~Over
  <2>1. After' = After + 1
    BY <1>9, ClockGoes
  <2>2. After \in Int
    BY <1>1, ConstantsAre
  <2>3. ones' <= After' - 1
    BY <1>6, <2>1, <2>2
  <2>4. Lost'
    BY <1>7, <2>3 DEF Lost
  <2>5. ~(After + 1 <= 0)
    BY <2>2
  <2>6. QED
    BY <1>9, <2>4, <2>5 DEF NextFrame
<1>10. QED
  BY <1>8, <1>9

\* The last clock of a write, which nobody drives.
LEMMA DoneClock ==
  ASSUME MiiInv, Clock, awake, After > 0, Done
  PROVE  NextFrame
<1>1. /\ Under /\ Edge(Level(pin, giving)) /\ UNCHANGED steady /\ Access' = Access
      /\ turn \in Nat /\ After = turn - 1 - Preamble
      /\ Access \in Accesses
      /\ Pins(Access) = Line(Access, value)
      /\ turn \in 1..Len(Line(Access, value)) /\ pin = Line(Access, value)[turn]
  BY ClockIs
<1>2. /\ Access.op = "write" /\ ForAccess /\ Idle /\ taken.value = value /\ giving = <<>>
      /\ After = HeadLen + 2 + DataBits
  BY DEF Done, Idle
<1>3. turn = Preamble + HeadLen + DataBits + 3
  BY <1>1, <1>2, ConstantsAre
<1>4. Over
  BY <1>1, <1>2, <1>3, WriteLine DEF Over
<1>5. Level(pin, giving) = 1
  <2>1. pin = Z
    BY <1>1, <1>2, <1>3, WriteLine
  <2>2. QED
    BY <1>2, <2>1 DEF Level
<1>6. got' = <<>> /\ giving' = <<>> /\ taken' = taken
  <2> DEFINE bit == Level(pin, giving)
  <2>1. Edge(bit) /\ bit # 0
    BY <1>1, <1>5
  <2> HIDE DEF bit
  <2>2. QED
    BY <1>2, <2>1, QuietEdge
<1>7. value' = value
  <2>1. ~Checks /\ ~Reads
    BY <1>2 DEF Checks, Reads
  <2>2. QED
    BY <2>1, ClockGoes
<1>8. QED
  BY <1>1, <1>2, <1>4, <1>6, <1>7 DEF NextFrame, Idle, ForAccess

\* The bits the PHY has of the frame with the one on the line.
Heard == Append(got, Level(pin, giving))

LEMMA FollowIs ==
  ASSUME MiiInv, Clock, awake, After > 0, Following
  PROVE  /\ Heard \in Seq({0, 1}) /\ Len(Heard) = After + 1
         /\ \A i \in 1..After : Heard[i] = Line(Access, value)[Preamble + i]
         /\ pin # Z => Heard[After + 1] = pin
         /\ pin = Line(Access, value)[Preamble + (After + 1)]
         /\ Collect(Heard) /\ UNCHANGED awake
         /\ giving = <<>> /\ taken = Nothing /\ After \in Nat
         /\ After <= IF Access.op = "read" THEN HeadLen ELSE HeadLen + 1 + DataBits
<1>1. /\ Edge(Level(pin, giving)) /\ Pins(Access) = Line(Access, value)
      /\ turn \in Nat /\ After = turn - 1 - Preamble
      /\ pin = Line(Access, value)[turn]
  BY ClockIs
<1>2. /\ giving = <<>> /\ taken = Nothing /\ Len(got) = After
      /\ After <= IF Access.op = "read" THEN HeadLen ELSE HeadLen + 1 + DataBits
      /\ \A i \in 1..After : got[i] = Line(Access, value)[Preamble + i]
  BY <1>1 DEF Following
<1>3. got \in Seq({0, 1}) /\ giving \in Seq({0, 1}) /\ pin \in {0, 1, Z}
  BY DEF MiiInv, Typed
<1> DEFINE bit == Level(pin, giving)
<1>4. bit \in {0, 1} /\ (pin # Z => bit = pin)
  BY <1>3, LevelIs
<1>5. Edge(bit)
  BY <1>1
<1>6. Heard = Append(got, bit)
  BY DEF Heard
<1> HIDE DEF bit
<1>7. got # <<>>
  BY <1>2
<1>8. Collect(Append(got, bit)) /\ UNCHANGED awake
  BY <1>2, <1>5, <1>7 DEF Edge
<1> DEFINE f == Append(got, bit)
<1>9. /\ f \in Seq({0, 1}) /\ Len(f) = After + 1
      /\ \A i \in 1..After : f[i] = got[i]
      /\ f[After + 1] = bit
  BY <1>2, <1>3, <1>4
<1>10. Preamble + (After + 1) = turn /\ After \in Nat
  BY <1>1, ConstantsAre
<1> HIDE DEF f
<1>11. f = Heard
  BY <1>6 DEF f
<1>12. Collect(Heard)
  BY <1>6, <1>8
<1>13. pin = Line(Access, value)[Preamble + (After + 1)]
  BY <1>1, <1>10
<1>14. QED
  BY <1>2, <1>4, <1>8, <1>9, <1>10, <1>11, <1>12, <1>13

\* A bit of the frame before the last one.
LEMMA FollowClock ==
  ASSUME MiiInv, Clock, awake, After > 0, Following,
         After < IF Access.op = "read" THEN HeadLen ELSE HeadLen + 1 + DataBits
  PROVE  NextFrame
<1>1. /\ Pins(Access) = Line(Access, value) /\ Access' = Access
      /\ turn \in Nat /\ After = turn - 1 - Preamble
      /\ Access \in Accesses /\ Access.op \in {"read", "write"}
      /\ CheckTurn = Preamble + HeadLen + 1
  BY ClockIs
<1>2. /\ Heard \in Seq({0, 1}) /\ Len(Heard) = After + 1
      /\ \A i \in 1..After : Heard[i] = Line(Access, value)[Preamble + i]
      /\ pin # Z => Heard[After + 1] = pin
      /\ pin = Line(Access, value)[Preamble + (After + 1)]
      /\ Collect(Heard) /\ UNCHANGED awake
      /\ giving = <<>> /\ taken = Nothing /\ After \in Nat
  BY FollowIs
<1> DEFINE l == Line(Access, value)
           n == After + 1
<1>3. /\ Access.op = "read" => n <= HeadLen
      /\ Access.op = "write" => n <= HeadLen + 1 + DataBits
      /\ n \in Nat /\ n >= 2 /\ n = turn - Preamble
  BY <1>1, <1>2, ConstantsAre
<1>4. /\ \A i \in 1..HeadLen : l[Preamble + i] = SendAddress(Access)[Preamble + i]
      /\ \A i \in 1..HeadLen : l[Preamble + i] \in {0, 1}
      /\ l[Preamble + 2] = 1
  BY <1>1, LineIs
<1>5. l[Preamble + n] \in {0, 1}
  <2>1. CASE Access.op = "read"
    <3>1. n \in 1..HeadLen
      BY <1>3, <2>1, ConstantsAre
    <3> HIDE DEF l, n
    <3>2. QED
      BY <1>4, <3>1
  <2>2. CASE Access.op = "write"
    <3>1. n \in 1..HeadLen + 2 + DataBits
      BY <1>3, <2>2, ConstantsAre
    <3>2. \A i \in 1..HeadLen + 2 + DataBits : l[Preamble + i] \in {0, 1}
      BY <1>1, <2>2, WriteIs
    <3> HIDE DEF l, n
    <3>3. QED
      BY <3>1, <3>2
  <2>3. QED
    BY <1>1, <2>1, <2>2
<1>6. pin = l[Preamble + n]
  BY <1>2
<1>7. Heard[n] = l[Preamble + n]
  <2>1. pin # Z
    BY <1>5, <1>6 DEF Z
  <2>2. QED
    BY <1>2, <1>6, <2>1
<1>8. Len(Heard) = n /\ \A i \in 1..n : Heard[i] = l[Preamble + i]
  <2>1. \A i \in 1..n : i \in 1..After \/ i = n
    BY <1>2
  <2>2. QED
    BY <1>2, <1>7, <2>1
<1> HIDE DEF l, n
<1>9. got' = Heard /\ UNCHANGED <<giving, regs, taken>>
  <2>1. ~(Len(Heard) = 2 /\ Heard[2] # 1)
    <3>1. 2 \in 1..n
      BY <1>3
    <3>2. QED
      BY <1>4, <1>8, <3>1
  <2>2. ~(Len(Heard) = HeadLen + 1 /\ IsRead(Heard) /\ ForMe(Heard))
    <3>1. SUFFICES ASSUME Len(Heard) = HeadLen + 1
                   PROVE  ~IsRead(Heard)
      OBVIOUS
    <3>2. Access.op = "write"
      BY <1>1, <1>3, <1>8, <3>1, ConstantsAre
    <3>3. \A i \in 1..HeadLen : i \in 1..n
      BY <1>3, <1>8, <3>1, ConstantsAre
    <3>4. \A i \in 1..HeadLen : Heard[i] = SendAddress(Access)[Preamble + i]
      BY <1>4, <1>8, <3>3
    <3>5. HeadLen <= Len(Heard)
      BY <3>1, ConstantsAre
    <3>6. IsRead(Heard) <=> Access.op = "read"
      BY <1>1, <1>2, <3>4, <3>5, FrameIs
    <3>7. QED
      BY <3>2, <3>6
  <2>3. Len(Heard) # HeadLen + 2 + DataBits
    BY <1>1, <1>3, <1>8, ConstantsAre
  <2>4. QED
    BY <1>2, <2>1, <2>2, <2>3 DEF Collect
<1>10. ~Over
  <2>1. turn # Len(Pins(Access))
    <3>1. Len(Pins(Access)) = Preamble + HeadLen + DataBits + (IF Access.op = "read" THEN 2 ELSE 3)
      BY <1>1, LineIs
    <3>2. QED
      BY <1>1, <1>3, <3>1, ConstantsAre
  <2>2. ~Checks
    BY <1>1, <1>3, ConstantsAre DEF Checks
  <2>3. QED
    BY <2>1, <2>2 DEF Over
<1>11. After' = n /\ ~(After + 1 <= 0)
  BY <1>2, <1>3, <1>10, ClockGoes DEF n
<1>12. value' = value
  <2>1. ~Checks /\ ~Reads
    BY <1>1, <1>3, ConstantsAre DEF Checks, Reads
  <2>2. QED
    BY <2>1, ClockGoes
<1>13. Following'
  <2>1. Pins(Access)' = l
    <3>1. Pins(Access)' = Line(Access', value')
      BY DEF Pins, Line, SendAddress, Access
    <3>2. QED
      BY <1>1, <1>12, <3>1 DEF l
  <2>2. After' <= IF Access'.op = "read" THEN HeadLen ELSE HeadLen + 1 + DataBits
    BY <1>1, <1>3, <1>11
  <2>3. \A i \in 1..After' : got'[i] = Pins(Access)'[Preamble + i]
    BY <1>8, <1>9, <1>11, <2>1
  <2>4. Len(got') = After' /\ giving' = <<>> /\ taken' = Nothing /\ awake'
    BY <1>2, <1>8, <1>9, <1>11
  <2>5. QED
    BY <2>2, <2>3, <2>4 DEF Following
<1>14. QED
  BY <1>10, <1>11, <1>13 DEF NextFrame

\* The first bit of the turnaround of a read: the PHY takes the line the program has
\* let go, and holds it low for the program to see.
LEMMA AnswerClock ==
  ASSUME MiiInv, Clock, awake, After > 0, Following, Access.op = "read", After = HeadLen
  PROVE  NextFrame
<1>1. /\ Pins(Access) = Line(Access, value) /\ Access' = Access
      /\ turn \in Nat /\ After = turn - 1 - Preamble /\ Under /\ turn \in 1..Len(Line(Access, value))
      /\ pin = Line(Access, value)[turn] /\ pin' = pin
      /\ Access \in Accesses
      /\ Count = turn - Preamble - HeadLen - 2
  BY ClockIs
<1>2. /\ Heard \in Seq({0, 1}) /\ Len(Heard) = HeadLen + 1
      /\ \A i \in 1..HeadLen : Heard[i] = Line(Access, value)[Preamble + i]
      /\ Collect(Heard) /\ UNCHANGED awake
  BY FollowIs
<1>3. turn = Preamble + HeadLen + 1 /\ turn > 0
  <2>1. turn \in Nat /\ After = turn - 1 - Preamble /\ After = HeadLen
    BY <1>1
  <2>2. Preamble \in Nat /\ HeadLen \in Nat
    BY ConstantsAre
  <2>3. QED
    BY <2>1, <2>2
<1>4. IsRead(Heard) /\ ForMe(Heard) /\ Named(Heard) = Access.reg
  <2>1. \A i \in 1..HeadLen : Heard[i] = SendAddress(Access)[Preamble + i]
    BY <1>1, <1>2, LineIs
  <2>2. HeadLen <= Len(Heard)
    BY <1>2, ConstantsAre
  <2>3. QED
    BY <1>1, <1>2, <2>1, <2>2, FrameIs
<1>5. Answer(Heard)
  <2>1. Len(Heard) # 2
    BY <1>2, ConstantsAre
  <2>2. QED
    BY <1>2, <1>4, <2>1 DEF Collect
<1> DEFINE v == regs[Access.reg]
           w == Bits(v, DataBits)
<1>6. v \in SUBSET BitNo
  BY <1>1 DEF MiiInv, Typed, Accesses
<1>7. /\ giving' = <<0>> \o w /\ got' = <<>>
      /\ taken' = [op |-> "read", reg |-> Access.reg, value |-> v]
  BY <1>4, <1>5 DEF Answer
<1>8. /\ w \in Seq({0, 1}) /\ Len(w) = DataBits
      /\ \A i \in 1..DataBits : w[i] = IF DataBits - i \in v THEN 1 ELSE 0
  BY ConstantsAre, BitsIs
<1> HIDE DEF v, w
<1>9. /\ Len(giving') = DataBits + 1 /\ giving'[1] = 0
      /\ \A i \in 1..DataBits : giving'[1 + i] = w[i]
  <2> DEFINE s == <<0>>
  <2>1. s \in Seq(Wires) /\ Len(s) = 1 /\ s[1] = 0
    BY DEF Wires
  <2>2. w \in Seq(Wires)
    BY <1>8 DEF Wires
  <2>3. giving' = s \o w
    BY <1>7
  <2> HIDE DEF s
  <2>4. /\ Len(s \o w) = Len(s) + Len(w)
        /\ \A i \in 1..Len(s) : (s \o w)[i] = s[i]
        /\ \A i \in 1..Len(w) : (s \o w)[Len(s) + i] = w[i]
    BY <2>1, <2>2, Joined
  <2>5. 1 \in 1..Len(s)
    BY <2>1
  <2>6. giving'[1] = 0
    BY <2>1, <2>3, <2>4, <2>5
  <2>7. Len(giving') = DataBits + 1 /\ \A i \in 1..DataBits : giving'[1 + i] = w[i]
    BY <1>8, <2>1, <2>3, <2>4, ConstantsAre
  <2>8. QED
    BY <2>6, <2>7
<1>10. pin = Z
  <2>1. turn \in Preamble + HeadLen + 1..Preamble + HeadLen + DataBits + 2
    BY <1>3, ConstantsAre
  <2>2. QED
    BY <1>1, <2>1, ReadLine
<1>11. Bit = 0
  <2>1. giving' # <<>>
    BY <1>9, ConstantsAre
  <2>2. QED
    BY <1>9, <1>10, <2>1 DEF Bit, Level
<1>12. ~Over
  <2>1. Len(Pins(Access)) = Preamble + HeadLen + DataBits + 2
    <3>1. Pins(Access) = Line(Access, value) /\ Access \in Accesses /\ Access.op = "read"
      BY <1>1
    <3>2. Len(Line(Access, value)) = Preamble + HeadLen + DataBits + 2
      BY <3>1, ReadLine
    <3>3. QED
      BY <3>1, <3>2
  <2>2. turn # Len(Pins(Access))
    BY <1>3, <2>1, ConstantsAre
  <2>3. QED
    BY <1>11, <2>2 DEF Over
<1>13. value' = value /\ value = {}
  <2>1. ~Reads
    BY <1>3, ClockIs DEF Reads
  <2>2. value' = value
    BY <1>11, <2>1, ClockGoes
  <2>3. value \subseteq 0..Count - 1
    BY <1>1, <1>3 DEF MiiInv, ValueInv
  <2>4. Count = -1
    BY <1>1, <1>3, ConstantsAre
  <2>5. QED
    BY <2>2, <2>3, <2>4
<1>14. Count' = 0 /\ ~(After + 1 <= 0)
  <2>1. Count' = Count + 1
    BY <1>12, ClockGoes
  <2>2. Count = -1
    BY <1>1, <1>3, ConstantsAre
  <2>3. -1 + 1 = 0
    OBVIOUS
  <2>4. Count' = 0
    BY <2>1, <2>2, <2>3
  <2>5. ~(After + 1 <= 0)
    BY ConstantsAre
  <2>6. QED
    BY <2>4, <2>5
<1>15. Answering'
  <2>1. Access'.op = "read" /\ ForAccess' /\ awake' /\ got' = <<>> /\ pin' = Z
    BY <1>1, <1>2, <1>7, <1>10 DEF ForAccess
  <2>2. /\ Count' \in 0..DataBits /\ Len(giving') = DataBits + 1 - Count'
        /\ (Count' = 0 => giving'[1] = 0)
    BY <1>9, <1>14, ConstantsAre
  <2>3. ASSUME NEW i \in 1..DataBits + 1 - Count', i + Count' > 1
        PROVE  giving'[i] = IF DataBits + 1 - Count' - i \in taken'.value THEN 1 ELSE 0
    <3> DEFINE j == i - 1
    <3>1. j \in 1..DataBits /\ i = 1 + j /\ DataBits + 1 - Count' - i = DataBits - j
      BY <1>14, <2>3, ConstantsAre
    <3> HIDE DEF j
    <3>2. giving'[1 + j] = IF DataBits - j \in v THEN 1 ELSE 0
      BY <1>8, <1>9, <3>1
    <3>3. taken'.value = v
      BY <1>7
    <3>4. QED
      BY <3>1, <3>2, <3>3
  <2>4. value' = {b \in 0..Count' - 1 : b + DataBits - Count' \in taken'.value}
    BY <1>13, <1>14
  <2>5. QED
    BY <2>1, <2>2, <2>3, <2>4 DEF Answering
<1>16. QED
  BY <1>12, <1>14, <1>15 DEF NextFrame

\* The last bit of a write: the PHY has the value as it was sent.
LEMMA ExecuteClock ==
  ASSUME MiiInv, Clock, awake, After > 0, Following, Access.op = "write",
         After = HeadLen + 1 + DataBits
  PROVE  NextFrame
<1>1. /\ Pins(Access) = Line(Access, value) /\ Access' = Access
      /\ turn \in Nat /\ After = turn - 1 - Preamble
      /\ Access \in Accesses
  BY ClockIs
<1>2. /\ Heard \in Seq({0, 1}) /\ Len(Heard) = After + 1
      /\ \A i \in 1..After : Heard[i] = Line(Access, value)[Preamble + i]
      /\ pin # Z => Heard[After + 1] = pin
      /\ pin = Line(Access, value)[Preamble + (After + 1)]
      /\ Collect(Heard) /\ UNCHANGED awake /\ giving = <<>>
  BY FollowIs
<1> DEFINE l == Line(Access, value)
           n == HeadLen + 2 + DataBits
<1>3. After + 1 = n /\ turn = Preamble + n
  <2>1. turn \in Nat /\ After = turn - 1 - Preamble /\ After = HeadLen + 1 + DataBits
    BY <1>1
  <2>2. Preamble \in Nat /\ HeadLen \in Nat /\ DataBits \in Nat
    BY ConstantsAre
  <2>3. QED
    BY <2>1, <2>2
<1>4. /\ \A i \in 1..n : l[Preamble + i] \in {0, 1}
      /\ \A b \in BitNo : l[Preamble + HeadLen + 2 + DataBits - b] = 1 <=> b \in value
  BY <1>1, WriteIs
<1>5. pin = l[Preamble + n]
  BY <1>2, <1>3
<1>6. Heard[n] = l[Preamble + n]
  <2>1. n \in 1..n
    BY ConstantsAre
  <2> HIDE DEF l, n
  <2>2. pin # Z
    BY <1>4, <1>5, <2>1 DEF Z
  <2>3. QED
    BY <1>2, <1>3, <1>5, <2>2
<1>7. Len(Heard) = n /\ \A i \in 1..n : Heard[i] = l[Preamble + i]
  <2>1. \A i \in 1..n : i \in 1..After \/ i = n
    BY <1>3, ConstantsAre
  <2>2. QED
    BY <1>2, <1>3, <1>6, <2>1
<1> HIDE DEF l
<1>8. IsWrite(Heard) /\ ForMe(Heard) /\ Named(Heard) = Access.reg
  <2>1. \A i \in 1..HeadLen : l[Preamble + i] = SendAddress(Access)[Preamble + i]
    BY <1>1, LineIs DEF l
  <2>2. \A i \in 1..HeadLen : i \in 1..n
    BY ConstantsAre
  <2>3. \A i \in 1..HeadLen : Heard[i] = SendAddress(Access)[Preamble + i]
    BY <1>7, <2>1, <2>2
  <2>4. HeadLen <= Len(Heard)
    BY <1>7, ConstantsAre
  <2>5. QED
    BY <1>1, <1>2, <2>3, <2>4, FrameIs
<1>9. Execute(Heard)
  <2>1. Len(Heard) = HeadLen + 2 + DataBits /\ Len(Heard) # 2 /\ Len(Heard) # HeadLen + 1
    BY <1>7, ConstantsAre
  <2>2. QED
    BY <1>2, <1>8, <2>1 DEF Collect
<1>10. {b \in BitNo : Heard[HeadLen + 2 + DataBits - b] = 1} = value
  <2>1. ASSUME NEW b \in BitNo
        PROVE  Heard[HeadLen + 2 + DataBits - b] = 1 <=> b \in value
    <3> DEFINE i == HeadLen + 2 + DataBits - b
    <3>1. i \in 1..n /\ Preamble + HeadLen + 2 + DataBits - b = Preamble + i
      BY ConstantsAre
    <3> HIDE DEF i
    <3>2. Heard[i] = l[Preamble + i]
      BY <1>7, <3>1
    <3>3. Heard[i] = 1 <=> b \in value
      BY <1>4, <3>1, <3>2
    <3>4. QED
      BY <3>3 DEF i
  <2>2. value \subseteq BitNo
    BY DEF MiiInv, Typed
  <2>3. QED
    BY <2>1, <2>2
<1>11. /\ taken' = [op |-> "write", reg |-> Access.reg, value |-> value]
       /\ got' = <<>> /\ giving' = <<>>
  BY <1>2, <1>8, <1>9, <1>10 DEF Execute
<1>12. ~Over
  <2>1. Len(Pins(Access)) = Preamble + HeadLen + DataBits + 3
    <3>1. Pins(Access) = Line(Access, value) /\ Access \in Accesses /\ Access.op = "write"
      BY <1>1
    <3>2. Len(Line(Access, value)) = Preamble + HeadLen + DataBits + 3
      BY <3>1, WriteLine
    <3>3. QED
      BY <3>1, <3>2
  <2>2. turn # Len(Pins(Access))
    BY <1>3, <2>1, ConstantsAre
  <2>3. QED
    BY <2>2 DEF Over, Checks
<1>13. value' = value
  <2>1. ~Checks /\ ~Reads
    BY DEF Checks, Reads
  <2>2. QED
    BY <2>1, ClockGoes
<1>14. After' = HeadLen + 2 + DataBits /\ ~(After + 1 <= 0)
  BY <1>3, <1>12, ClockGoes, ConstantsAre
<1>15. Done'
  BY <1>1, <1>11, <1>13, <1>14 DEF Done, ForAccess, Idle
<1>16. QED
  BY <1>12, <1>14, <1>15 DEF NextFrame

\* A bit of the register, or the clock that takes the PHY off the line.
LEMMA AnsweringClock ==
  ASSUME MiiInv, Clock, awake, After > 0, Answering
  PROVE  NextFrame
<1>1. /\ Pins(Access) = Line(Access, value) /\ Access' = Access /\ UNCHANGED <<steady, pin>>
      /\ turn \in Nat /\ After = turn - 1 - Preamble
      /\ Access \in Accesses /\ Edge(Level(pin, giving))
      /\ CheckTurn = Preamble + HeadLen + 1
      /\ Count = turn - Preamble - HeadLen - 2
  BY ClockIs
<1>2. /\ Access.op = "read" /\ ForAccess /\ got = <<>> /\ pin = Z
      /\ Count \in 0..DataBits /\ Len(giving) = DataBits + 1 - Count
      /\ \A i \in 1..DataBits + 1 - Count : i + Count > 1 =>
           giving[i] = IF DataBits + 1 - Count - i \in taken.value THEN 1 ELSE 0
      /\ value = {b \in 0..Count - 1 : b + DataBits - Count \in taken.value}
  BY DEF Answering
<1> DEFINE c == Count
           q == giving
           t == Tail(q)
           v == taken.value
           m == DataBits + 1 - c
<1>3. /\ c \in Nat /\ c <= DataBits /\ m \in Nat /\ m >= 1 /\ m = DataBits + 1 - c
      /\ q \in Seq({0, 1}) /\ Len(q) = m
      /\ \A i \in 1..m : i + c > 1 => q[i] = IF m - i \in v THEN 1 ELSE 0
      /\ value = {b \in 0..c - 1 : b + DataBits - c \in v}
      /\ turn = Preamble + HeadLen + 2 + c
  BY <1>1, <1>2, ConstantsAre DEF MiiInv, Typed
<1>4. v \subseteq BitNo
  BY DEF MiiInv, Typed
<1>5. giving' = t /\ got' = <<>> /\ taken' = taken /\ awake' = awake
  <2>1. giving # <<>>
    BY <1>2, ConstantsAre
  <2>2. QED
    BY <1>1, <1>2, <2>1 DEF Edge
<1> HIDE DEF c, q, m
<1>6. /\ t \in Seq({0, 1}) /\ Len(t) = m - 1
      /\ \A i \in 1..m - 1 : t[i] = q[i + 1]
  BY <1>3
<1> HIDE DEF t, v
<1>7. ~Checks /\ (Reads <=> c < DataBits)
  BY <1>1, <1>2, <1>3, ConstantsAre DEF Checks, Reads
<1>8. Over <=> c = DataBits
  <2>1. Len(Pins(Access)) = Preamble + HeadLen + DataBits + 2
    BY <1>1, <1>2, ReadLine
  <2>2. QED
    BY <1>3, <1>7, <2>1, ConstantsAre DEF Over
<1>9. ForAccess' = ForAccess /\ taken'.value = v
  BY <1>1, <1>5 DEF ForAccess, v
<1>10. CASE c = DataBits
  <2>1. Over /\ ~Reads
    BY <1>7, <1>8, <1>10, ConstantsAre
  <2>2. value' = value
    BY <1>7, <2>1, ClockGoes
  <2>3. value = v
    <3>1. ASSUME NEW b \in 0..DataBits - 1
          PROVE  b + DataBits - DataBits = b
      BY ConstantsAre
    <3>2. value = {b \in 0..DataBits - 1 : b \in v}
      BY <1>3, <1>10, <3>1
    <3>3. QED
      BY <1>4, <3>2, ConstantsAre
  <2>4. giving' = <<>>
    <3>1. Len(t) = 0
      BY <1>3, <1>6, <1>10, ConstantsAre
    <3>2. t = <<>>
      BY <1>6, <3>1
    <3>3. QED
      BY <1>5, <3>2
  <2>5. QED
    BY <1>2, <1>5, <1>9, <2>1, <2>2, <2>3, <2>4 DEF NextFrame, Idle
<1>11. CASE c < DataBits
  <2>1. ~Over /\ Reads
    BY <1>3, <1>7, <1>8, <1>11, ConstantsAre
  <2>2. Count' = c + 1 /\ ~(After + 1 <= 0)
    <3>1. Count' = Count + 1
      BY <2>1, ClockGoes
    <3>2. ~(After + 1 <= 0)
      BY <1>1, ConstantsAre
    <3>3. QED
      BY <3>1, <3>2 DEF c
  <2>3. Len(t) >= 1 /\ Len(t) = m - 1 /\ 2 \in 1..m
    BY <1>3, <1>6, <1>11, ConstantsAre
  <2>4. t[1] = IF DataBits - 1 - c \in v THEN 1 ELSE 0
    <3>1. 1 \in 1..m - 1 /\ 1 + 1 = 2 /\ 2 + c > 1 /\ m - 2 = DataBits - 1 - c
      BY <1>3, <2>3, ConstantsAre
    <3>2. t[1] = q[2]
      BY <1>6, <3>1
    <3>3. q[2] = IF m - 2 \in v THEN 1 ELSE 0
      BY <1>3, <2>3, <3>1
    <3>4. QED
      BY <3>1, <3>2, <3>3
  <2>5. Bit = IF DataBits - 1 - c \in v THEN 1 ELSE 0
    <3>1. t # <<>>
      BY <2>3
    <3>2. Bit = t[1]
      BY <1>2, <1>5, <3>1 DEF Bit, Level
    <3>3. QED
      BY <2>4, <3>2
  <2>6. value' = {b + 1 : b \in value} \cup (IF Bit = 1 THEN {0} ELSE {})
    BY <1>7, <2>1, ClockGoes
  <2>7. value' = {b \in 0..c : b + DataBits - (c + 1) \in v}
    <3>1. 0 \in value' <=> DataBits - 1 - c \in v
      <4>1. ~(0 \in {b + 1 : b \in value})
        BY <1>3
      <4>2. QED
        BY <2>5, <2>6, <4>1
    <3>2. ASSUME NEW b \in 1..c
          PROVE  b \in value' <=> b + DataBits - (c + 1) \in v
      <4> DEFINE a == b - 1
      <4>1. a \in 0..c - 1 /\ b = a + 1 /\ b # 0
            /\ a + DataBits - c = b + DataBits - (c + 1)
        BY <1>3, ConstantsAre
      <4> HIDE DEF a
      <4>2. b \in value' <=> a \in value
        <5>1. b \in value' <=> b \in {x + 1 : x \in value}
          BY <2>6, <4>1
        <5>2. \A x \in value : x \in Int
          BY <1>3
        <5>3. \A x \in value : x + 1 = b <=> x = a
          BY <4>1, <5>2
        <5>4. b \in {x + 1 : x \in value} <=> a \in value
          BY <4>1, <5>3
        <5>5. QED
          BY <5>1, <5>4
      <4>3. a \in value <=> a + DataBits - c \in v
        BY <1>3, <4>1
      <4>4. QED
        BY <4>1, <4>2, <4>3
    <3>3. value' \subseteq 0..c
      <4>1. \A x \in value : x + 1 \in 0..c
        BY <1>3
      <4>2. 0 \in 0..c
        BY <1>3
      <4>3. QED
        BY <2>6, <4>1, <4>2
    <3>4. 0 + DataBits - (c + 1) = DataBits - 1 - c
      BY <1>3, ConstantsAre
    <3>5. \A b \in 0..c : b = 0 \/ b \in 1..c
      BY <1>3
    <3>6. \A b \in 0..c : b \in value' <=> b + DataBits - (c + 1) \in v
      BY <3>1, <3>2, <3>4, <3>5
    <3>7. QED
      BY <3>3, <3>6
  <2>8. \A i \in 1..DataBits + 1 - Count' : i + Count' > 1 =>
          giving'[i] = IF DataBits + 1 - Count' - i \in taken'.value THEN 1 ELSE 0
    <3>1. ASSUME NEW i \in 1..DataBits + 1 - Count'
          PROVE  giving'[i] = IF DataBits + 1 - Count' - i \in taken'.value THEN 1 ELSE 0
      <4> DEFINE j == i + 1
      <4>1. /\ i \in 1..m - 1 /\ j \in 1..m /\ j + c > 1
            /\ DataBits + 1 - Count' - i = m - j
        BY <1>3, <2>2, ConstantsAre
      <4>2. t[i] = q[j]
        BY <1>6, <4>1
      <4> HIDE DEF j
      <4>3. q[j] = IF m - j \in v THEN 1 ELSE 0
        BY <1>3, <4>1
      <4>4. QED
        BY <1>5, <1>9, <4>1, <4>2, <4>3
    <3>2. QED
      BY <3>1
  <2>9. Count' \in 0..DataBits /\ Len(giving') = DataBits + 1 - Count' /\ Count' # 0
    BY <1>3, <1>5, <1>6, <1>11, <2>2, ConstantsAre
  <2>10. value' = {b \in 0..Count' - 1 : b + DataBits - Count' \in taken'.value}
    <3>1. Count' - 1 = c
      BY <1>3, <2>2
    <3>2. QED
      BY <1>9, <2>2, <2>7, <3>1
  <2>11. Access'.op = "read" /\ ForAccess' /\ awake' /\ got' = <<>> /\ pin' = Z
    BY <1>1, <1>2, <1>5, <1>9
  <2>12. Answering'
    BY <2>8, <2>9, <2>10, <2>11 DEF Answering
  <2>13. QED
    BY <2>1, <2>2, <2>12 DEF NextFrame
<1>12. QED
  BY <1>3, <1>10, <1>11, ConstantsAre

\* A clock, whatever the PHY is at.
LEMMA ClockFrame ==
  ASSUME MiiInv, Clock
  PROVE  NextFrame
<1>1. /\ Under /\ turn \in Nat /\ After = turn - 1 - Preamble
      /\ Access.op \in {"read", "write"}
  BY ClockIs
<1>2. CASE ~awake
  BY <1>2, AsleepClock
<1>3. CASE awake /\ turn <= Preamble
  BY <1>3, PreambleClock
<1>4. CASE awake /\ turn = Preamble + 1
  BY <1>4, StartClock
<1>5. CASE awake /\ After > 0
  <2>1. Lost \/ Following \/ Answering \/ Done
    <3>1. ~(After <= 0)
      BY <1>1, <1>5, ConstantsAre
    <3>2. QED
      BY <1>1, <3>1 DEF MiiInv, FrameInv
  <2>2. CASE Following
    <3>1. After \in Nat
      BY <1>5, <2>2, FollowIs
    <3>2. /\ Access.op = "read" => After <= HeadLen
          /\ Access.op = "write" => After <= HeadLen + 1 + DataBits
      BY <2>2 DEF Following
    <3>3. CASE Access.op = "read" /\ After = HeadLen
      BY <1>5, <2>2, <3>3, AnswerClock
    <3>4. CASE Access.op = "write" /\ After = HeadLen + 1 + DataBits
      BY <1>5, <2>2, <3>4, ExecuteClock
    <3>5. CASE After < IF Access.op = "read" THEN HeadLen ELSE HeadLen + 1 + DataBits
      BY <1>5, <2>2, <3>5, FollowClock
    <3>6. QED
      BY <1>1, <3>1, <3>2, <3>3, <3>4, <3>5, ConstantsAre
  <2>3. QED
    BY <1>5, <2>1, <2>2, LostClock, AnsweringClock, DoneClock
<1>6. QED
  BY <1>1, <1>2, <1>3, <1>4, <1>5, ConstantsAre

\* What a clock leaves of the value has its type, and a read has shifted in one bit more.
LEMMA ClockValue ==
  ASSUME MiiInv, Clock
  PROVE  value' \subseteq BitNo /\ ValueInv'
<1>1. /\ Under /\ turn \in Nat /\ turn >= 1 /\ Count = turn - Preamble - HeadLen - 2
      /\ CheckTurn = Preamble + HeadLen + 1 /\ Access' = Access
  BY ClockIs
<1>2. /\ value' = IF Checks /\ Bit # 0 THEN Invalid
                  ELSE IF Reads THEN {b + 1 : b \in value} \cup (IF Bit = 1 THEN {0} ELSE {})
                  ELSE value
      /\ Over => ~Under'
      /\ ~Over => Count' = Count + 1
  BY ClockGoes
<1>3. value \subseteq BitNo /\ BitNo = 0..DataBits - 1
  BY ConstantsAre DEF MiiInv, Typed
<1>4. Access.op = "read" => value \subseteq 0..Count - 1
  BY <1>1 DEF MiiInv, ValueInv
<1>5. Count \in Int
  BY <1>1, ConstantsAre
<1>6. ASSUME Reads
      PROVE  Count \in 0..DataBits - 1 /\ value' \subseteq 0..Count
  <2>1. Access.op = "read" /\ ~Checks
    BY <1>1, <1>6, ConstantsAre DEF Reads, Checks
  <2>2. Count \in 0..DataBits - 1
    BY <1>1, <1>6, ConstantsAre DEF Reads
  <2>3. \A b \in value : b + 1 \in 0..Count
    BY <1>4, <2>1, <2>2
  <2>4. 0 \in 0..Count
    BY <2>2
  <2>5. QED
    BY <1>2, <1>6, <2>1, <2>2, <2>3, <2>4
<1>7. value' \subseteq BitNo
  <2>1. CASE Checks /\ Bit # 0
    BY <1>2, <2>1 DEF Invalid
  <2>2. CASE ~(Checks /\ Bit # 0) /\ Reads
    BY <1>3, <1>6, <2>2, ConstantsAre
  <2>3. CASE ~(Checks /\ Bit # 0) /\ ~Reads
    BY <1>2, <1>3, <2>3
  <2>4. QED
    BY <2>1, <2>2, <2>3
<1>8. ValueInv'
  <2>1. SUFFICES ASSUME ~Over, Access.op = "read"
                 PROVE  value' \subseteq 0..Count' - 1
    BY <1>1, <1>2 DEF ValueInv
  <2>2. Count' - 1 = Count
    BY <1>2, <1>5, <2>1
  <2>3. ~(Checks /\ Bit # 0)
    BY <2>1 DEF Over
  <2>4. CASE Reads
    BY <1>6, <2>2, <2>4
  <2>5. CASE ~Reads
    <3>1. value' \subseteq 0..Count - 1
      BY <1>2, <1>4, <2>1, <2>3, <2>5
    <3>2. \A b \in 0..Count - 1 : b \in 0..Count
      BY <1>5
    <3>3. QED
      BY <2>2, <3>1, <3>2
  <2>6. QED
    BY <2>4, <2>5
<1>9. QED
  BY <1>7, <1>8

LEMMA ClockInv == MiiInv /\ Clock => MiiInv'
<1> SUFFICES ASSUME MiiInv, Clock
             PROVE  MiiInv'
  OBVIOUS
<1>1. /\ Going /\ turn \in Nat /\ UNCHANGED <<at, pin, steady>> /\ Access' = Access
      /\ Access \in Accesses /\ Access.op \in {"read", "write"} /\ Going' = Going
      /\ Pins(Access) = Line(Access, value) /\ turn \in 1..Len(Line(Access, value))
      /\ Edge(Level(pin, giving)) /\ Sent = turn - 1 /\ After = turn - 1 - Preamble
  BY ClockIs
<1>2. /\ Over => turn' = 0 /\ phase' = "returned" /\ ~Under'
      /\ ~Over => /\ turn' = turn + 1 /\ phase' = "pin" /\ Under'
                  /\ Sent' = Sent + 1 /\ After' = After + 1
  BY ClockGoes
<1>3. NextFrame
  BY ClockFrame
<1>4. value' \subseteq BitNo /\ ValueInv'
  BY ClockValue
<1>5. Typed'
  <2> DEFINE bit == Level(pin, giving)
  <2>1. bit \in {0, 1}
    BY LevelIs DEF MiiInv, Typed
  <2>2. Edge(bit) /\ Typed
    BY <1>1 DEF MiiInv
  <2> HIDE DEF bit
  <2>3. /\ awake' \in BOOLEAN /\ ones' \in 0..Preamble
        /\ got' \in Seq({0, 1}) /\ giving' \in Seq({0, 1})
        /\ regs' \in [Register -> SUBSET BitNo] /\ resets' \in 0..MaxResets
        /\ taken' \in [op : {"none", "read", "write"}, reg : Register, value : SUBSET BitNo]
    BY <2>1, <2>2, EdgeTypes
  <2>4. turn' \in Nat /\ phase' \in {"pin", "clock", "returned"}
    BY <1>1, <1>2
  <2>5. at' \in 0..Len(Program) + 1 /\ pin' \in {0, 1, Z} /\ steady' \in BOOLEAN
    BY <1>1 DEF MiiInv, Typed
  <2>6. QED
    BY <1>4, <2>3, <2>4, <2>5 DEF Typed
<1>6. PinInv'
  <2>1. CASE Over
    BY <1>2, <2>1 DEF PinInv
  <2>2. CASE ~Over
    <3>1. turn # Len(Pins(Access))
      BY <2>2 DEF Over
    <3>2. Pins(Access)' = Line(Access', value')
      BY DEF Pins, Line, SendAddress, Access
    <3>3. Len(Pins(Access)') = Len(Line(Access, value))
      BY <1>1, <3>2, LineIs
    <3>4. Len(Line(Access, value)) \in Nat
      BY <1>1, LineIs, ConstantsAre
    <3>5. turn' \in 0..Len(Pins(Access)') /\ phase' = "pin"
      BY <1>1, <1>2, <2>2, <3>1, <3>3, <3>4
    <3>6. QED
      BY <3>5 DEF PinInv
  <2>3. QED
    BY <2>1, <2>2
<1>7. FrameInv'
  <2>1. CASE Over
    BY <1>2, <2>1 DEF FrameInv
  <2>2. CASE ~Over
    BY <1>1, <1>2, <1>3, <2>2 DEF FrameInv, NextFrame
  <2>3. QED
    BY <2>1, <2>2
<1>8. ReturnInv'
  <2>1. CASE Over
    BY <1>1, <1>2, <1>3, <2>1 DEF ReturnInv, NextFrame
  <2>2. CASE ~Over
    BY <1>2, <2>2 DEF ReturnInv
  <2>3. QED
    BY <2>1, <2>2
<1>9. AwakeInv'
  <2>1. awake' = awake
    BY <1>1 DEF Edge
  <2>2. ~awake => ones' = ones /\ Idle' = Idle
    BY <1>1 DEF Edge, Idle
  <2>3. QED
    BY <1>1, <2>1, <2>2 DEF MiiInv, AwakeInv
<1>10. QED
  BY <1>4, <1>5, <1>6, <1>7, <1>8, <1>9 DEF MiiInv

-----------------------------------------------------------------------------
(***************************************************************************)
(* The theorems.                                                           *)
(***************************************************************************)

LEMMA MiiInvariance == MiiSpec => []MiiInv
<1>1. MiiInv /\ [MiiNext]_miiVars => MiiInv'
  <2> SUFFICES ASSUME MiiInv, [MiiNext]_miiVars
               PROVE  MiiInv'
    OBVIOUS
  <2>1. CASE Begin
    BY <2>1, BeginInv
  <2>2. CASE SetPin
    BY <2>2, SetPinInv
  <2>3. CASE Clock
    BY <2>3, ClockInv
  <2>4. CASE Return
    BY <2>4, ReturnKeeps
  <2>5. CASE Reset
    BY <2>5, ResetInv
  <2>6. CASE WakeUp
    BY <2>6, WakeUpInv
  <2>7. CASE LinkChanges
    BY <2>7, LinkChangesInv
  <2>8. CASE UNCHANGED miiVars
    <3>1. UNCHANGED <<program, awake, ones, got, giving, regs, resets, steady, taken>>
      BY <2>8 DEF miiVars, phy
    <3>2. Typed'
      BY <3>1 DEF MiiInv, Typed, program
    <3>3. QED
      BY <3>1, <3>2, SameFrame DEF MiiInv
  <2>9. QED
    BY <2>1, <2>2, <2>3, <2>4, <2>5, <2>6, <2>7, <2>8 DEF MiiNext
<1>2. QED
  BY <1>1, MiiInitially, PTL DEF MiiSpec

\* The PHY drives MDIO only past the head of a read, where MiiGpio_PhyRead has let the
\* line go: the two never drive it at once, whenever the PHY is reset.
THEOREM LineFree == MiiSpec => []NoContention
<1>1. MiiInv => NoContention
  <2> SUFFICES ASSUME MiiInv
               PROVE  giving = <<>> \/ pin = Z
    BY DEF NoContention
  <2>1. CASE ~Under
    BY <2>1 DEF MiiInv, ReturnInv, Idle
  <2>2. CASE Under
    BY <2>2 DEF MiiInv, FrameInv, Lost, Following, Answering, Done, Idle
  <2>3. QED
    BY <2>1, <2>2
<1>2. QED
  BY <1>1, MiiInvariance, PTL

\* Whenever the PHY is reset, what it does is the access mii-bitbang.c is making, and
\* an access it is awake for is done, with the value main_task has of it.
THEOREM AccessDone == MiiSpec => []DoesWhatIsAsked
<1>1. MiiInv => DoesWhatIsAsked
  <2> SUFFICES ASSUME MiiInv, Going
               PROVE  /\ taken # Nothing => taken.op = Access.op /\ taken.reg = Access.reg
                      /\ phase = "returned" /\ steady =>
                           taken = [op |-> Access.op, reg |-> Access.reg, value |-> value]
    BY DEF DoesWhatIsAsked
  <2>1. CASE Under
    <3>1. taken # Nothing => ForAccess
      BY <2>1 DEF MiiInv, FrameInv, Lost, Following, Answering, Done
    <3>2. QED
      BY <2>1, <3>1 DEF Under, ForAccess
  <2>2. CASE ~Under
    <3>1. phase = "returned"
      BY <2>2 DEF Under
    <3>2. /\ taken # Nothing => ForAccess
          /\ steady => ForAccess /\ taken.value = value
      BY <3>1 DEF MiiInv, ReturnInv
    <3>3. taken = [op |-> taken.op, reg |-> taken.reg, value |-> taken.value]
      BY DEF MiiInv, Typed
    <3>4. QED
      BY <3>2, <3>3 DEF ForAccess
  <2>3. QED
    BY <2>1, <2>2
<1>2. QED
  BY <1>1, MiiInvariance, PTL

\* The state of mii-bitbang.c and of the PHY has its type: an access ends with its last
\* clock, and the PHY holds one frame and one register at most.
THEOREM MiiTyping == MiiSpec => []MiiTypeOK
<1>1. MiiInv => MiiTypeOK
  <2> SUFFICES ASSUME MiiInv
               PROVE  MiiTypeOK
    OBVIOUS
  <2>1. turn \in 0..Preamble + HeadLen + DataBits + 3
    <3>1. CASE ~Under
      BY <3>1, ConstantsAre DEF MiiInv, ReturnInv
    <3>2. CASE Under
      <4>1. Going /\ phase \in {"pin", "clock"}
        BY <3>2 DEF Under, MiiInv, Typed
      <4>2. turn \in 0..Len(Pins(Access))
        BY <4>1, GoingIs DEF MiiInv, PinInv
      <4>3. QED
        BY <4>1, <4>2, GoingIs, ConstantsAre
    <3>3. QED
      BY <3>1, <3>2
  <2>2. Len(got) <= HeadLen + DataBits + 1 /\ Len(giving) <= DataBits + 1
    <3>1. CASE Idle
      BY <3>1, NoBits, ConstantsAre DEF Idle
    <3>2. CASE Following /\ Under
      <4>1. giving = <<>> /\ Len(got) = After
        BY <3>2 DEF Following
      <4>2. After <= HeadLen \/ After <= HeadLen + 1 + DataBits
        BY <3>2, GoingIs DEF Following, Under
      <4>3. After \in Nat
        BY <4>1 DEF MiiInv, Typed
      <4>4. QED
        BY <4>1, <4>2, <4>3, NoBits, ConstantsAre
    <3>3. CASE Answering
      BY <3>3, NoBits, ConstantsAre DEF Answering
    <3>4. QED
      BY <3>1, <3>2, <3>3 DEF MiiInv, FrameInv, ReturnInv, Lost, Done
  <2>3. QED
    BY <2>1, <2>2 DEF MiiInv, Typed, MiiTypeOK
<1>2. QED
  BY <1>1, MiiInvariance, PTL
===============================================================================
