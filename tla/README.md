# Robotlib: a TLA+ verification

Robotlib is the C library of a robot built around a soft-core processor: Linux with
Xenomai's native real-time tasks on top, and below it cores for GPIO, servos, motors and
encoders that are mapped into memory, a SPI bus with an analog converter and two I2C
buses with an accelerometer, a sonar and a compass. Every driver of the library says of
its functions that they are *thread-safe*, and most of what is checked here is what those
two words have to mean: what several tasks, each of them preempted anywhere, can and cannot
do to each other through a driver.

The paths below are relative to the root of the repository; `src/` in it holds the library,
`src/ex/platex.c` the program that runs all of it, `etherlite_fix/`, `lcd_daemon/` and
`mode_selection/` three programs of their own.

1. [Inventory](#1-inventory)
2. [Plan](#2-plan)
3. [Modules](#3-modules)
4. [Runs](#4-runs)
5. [Fairness](#5-fairness)
6. [Proofs](#6-proofs)
7. [Where code and documentation disagree](#7-where-code-and-documentation-disagree)
8. [What is not modelled](#8-what-is-not-modelled)

## 1. Inventory

### The parts

| Part | Code | State | Operations | Used by |
|---|---|---|---|---|
| Utilities | `src/util.c`, `util.h` | none | mutex macros, sleeps, log | all |
| Memory mapping | `src/busio.c` | descriptor of `/dev/mem` | `mapio_region`, `unmapio_region` | GPIO, servos, motors |
| GPIO core | `src/gpio.c` | data, tristate, GIE, IER and ISR registers; mutex, interrupt task | init, clean, read, write, interrupt channels | board I/O, display, PHY program |
| Board I/O | `src/platform_io.c` | two GPIO cores, inputs and outputs | start and stop of both, LEDs, buttons, bumpers | platex, mode selection |
| Servos | `src/hwservos.c` | one register per servo; latch `values` | init, clean, position, enable, disable | platex |
| Motors, encoders | `src/motors.c` | PWM and counter registers, copies of both, one mutex each | init, clean, set and read speed and divider, read and reset encoder | platex |
| I2C bus | `src/i2ctools.c` | file, the slave it addresses, mutex | init, clean, `i2c_get`, `_set`, `_get_3com`, `_set_1com` | the three sensors |
| SPI bus | `src/xspidev.c` | file, configuration, mutex | init, clean, configure, half- and full-duplex transfers | converter |
| Converter | `src/max1231adc.c` | FIFO and set-up of the chip, mutex | init, clean, one channel, scan, temperature, resets | platex |
| Accelerometer | `src/lis3lv02dl.c` | readings, calibration, power, mutex | init, identify, read, calibrate, power off, clean | platex |
| Sonar | `src/srf08.c` | the last shot, mutex | init, fire, echo, light, clean | platex |
| Compass | `src/hmc6352.c` | busy or not, mutex | init, read, calibrate, sleep, wake up, clean | examples |
| Display | `src/lcd.c` | pins and nibbles of an HD44780, mutex | init, print, clear, home, switch, clean | display daemon |
| Display daemon | `lcd_daemon/lcd_daemon.c` | 80-byte buffer, pipe | `lcd_task` | other processes, through the pipe |
| Robot program | `src/ex/platex.c` | main thread, six workers, cleaner | start, work, signal, clean, exit | |
| PHY program | `etherlite_fix/` | two GPIO pins; the PHY's registers | the accesses of `main_task` | |
| Mode selection | `mode_selection/mode_selection.c` | the mode pressed; two cores; the pipe | `main`, `main_task`, `clean_exit` | |
| Ranger | `src/gp2x.c` | none | table look-up | examples |

### How they interact

*Calls.* platex calls drivers; the sensors call the I2C bus, the converter the SPI bus, with
their own mutex held, so mutexes nest in one order: device, then bus. The I2C bus also nests
in itself: `i2c_get_3com` calls `i2c_set` with the mutex taken, which Xenomai allows to its
owner. *Shared state.* Registers, the slave address kept by the bus file, the FIFO of the
converter, and the fields of the driver structures, all guarded by the mutex of the
driver. *Messages.* The pipe of the display daemon, in
which the mode selection program writes. *Signals.* SIGINT and SIGTERM make the handler of
platex spawn the cleaner, a real-time task, and wait for it; the mode selection program
cleans in the handler itself. *Interrupts.* The
GPIO core sets status bits; a task of the driver waits for them.

### What is hard about them, and what makes each part correct

* **I2C bus**: tasks share one file, hence one selected slave; calls nest and one path
  releases twice; each step can fail. Correct: every call is one indivisible transaction, its
  slave stays selected, an answer belongs to its command, nothing stays locked, the file is
  open while in use, calls return.
* **GPIO**: read-modify-write of a shared word. Correct: no write changes a bit outside
  its mask, an interrupt call takes effect whatever others do between its two sections. A start may fail at any step, and a
  call follows it whether it failed or not. Correct: nobody uses a core that is not mapped.
* **Mode selection**: signals at any moment, also inside the handler of another one, which
  cleans under a task that may be starting. Correct: the same, and after a signal everything
  is given back and the program ends; the display ends up showing the mode that was chosen.
* **Servos**: enable and disable rewrite the word that holds the position. Correct: no
  position is lost or out of range, no servo is driven once its core is unmapped.
* **Motors**: nine steps that may fail, undone by a chain of gotos; reads are
  answered from a copy; the encoder driver keeps two readings that every reader shifts.
  A start that fails mostly says that it did not, and is then called and cleaned.
  Correct: a failed start leaves nothing behind, nothing it has given back is used, motors
  stand still after a clean, copies agree with registers, readings chain.
* **Converter**: two transfers per reading with a FIFO in between, whose failures nobody
  reports. Correct: a reading gives its own conversions and never those of another task, and
  reads stay aligned without resets.
* **Sensors**: several transfers per operation, other tasks' commands in between, failures
  that are mostly silent, a compass that is deaf for a while. Correct: one reading is of one
  read, one echo of one shot, no command is sent to a compass that is at the one before, a
  power-up that went through outlasts the initialisation.
* **platex**: start-up and shut-down order, signals at any moment, tasks deleted inside a
  driver. Correct: who works has its device and bus; the robot stands still at the end; a
  signal ends the program.
* **PHY program**: a line driven from both ends, a PHY that resets in mid-frame. Correct:
  no contention; the PHY does what it is asked and nothing else.
* **Display**: bytes in two halves, a process killed between them, another task's bytes.
  Correct: the display is in step after every start, takes whole bytes, shows the message.

`PROJECT.json` lists the hazards one by one at their lines, with the properties aimed at each.

## 2. Plan

Order: the lock everything rests on (`RtMutex`), the driver with the most intricate locking
and three drivers above it (`I2CBus`, with its abstract specification `AtomicBus`), the
shared registers (`Gpio`, `HwServos`, `Motors`), the program that ties them together
(`Platex`), then the devices behind buses (`SpiAdc`, `Sensors`), the PHY (`Mii`), the
display (`Lcd`), and last the life of the GPIO driver (`GpioLife`, over `Gpio` and `MapIo`)
and the program on top of it (`ModeSelection`). All of these are written and checked;
every safety property a passing run checks is proved too: of `I2CBus`, with its refinement, `Gpio`,
`GpioLife`, `HwServos`, `MotorsLife`, `Motors`, `Sensors`, `SpiAdc`, `Platex`, `ModeSelection`,
`Mii` and `Lcd`.

Composition is by contract: `I2CBus` shows that a bus call is atomic, and `Sensors`
takes a bus call as one step; `Platex` takes whole drivers as up or down; `GpioLife` is shown
to make only steps of `Gpio`, and `ModeSelection`, where one task makes all the accesses, takes
a register access as one step and a display message as a whole.

Next, for the model:

1. The I2C sensors over `I2CBus` itself, for one sensor.
2. Liveness of `Sensors`, `SpiAdc` and `Lcd`, whose error paths have the same early returns
   as the I2C bus: every call returns.
3. Servos and motors over `MapIo`, which shares its one descriptor with the GPIO cores.

## 3. Modules

One step of a module is one thing the code does that another task can see: a system call,
a bus or register access, an acquire, a release. What lies between two of them has no
effect on others and belongs to the step before or after it. Each module has one action
per such step, a program counter `pc` per task and one variable per piece of state.
Failure of a call the code can survive is a disjunct of its step.

### RtMutex - the mutex (external)

`RT_MUTEX` as the `UTIL_MUTEX_*` macros use it: an owner and a depth. Its owner may acquire
it again, only its owner may release it, and only the outermost release frees it. All modules
of drivers extend it. `rt_mutex_acquire` may also be interrupted or find the mutex deleted;
each module has these outcomes where its macro returns them.

### I2CCalls, AtomicBus, I2CBus - `src/i2ctools.c`

`I2CCalls` holds what both specifications share: the calls, the address checks, and what
`ioctl(I2C_SLAVE)` and one SMBus transfer may do (both external). A byte is abstracted to
the task that wrote it. `I2CBus` has the mutex, the file, the slave the file addresses, a
register per slave, and for each task its place in the call: `enter`, `select`,
`transfer`, `leave`, and the `nested_...` places of the `i2c_set` inside `i2c_get_3com`.
`i2c_set_1com` passes `again`, where it releases the mutex it no longer owns. Errors of
`set_slave_addr` are dropped as the code drops them.

`AtomicBus` is the promise: a call takes effect in one step, `Transact`, which moves the
slave and the registers as a whole call does. The refinement maps a transaction
to the moment the mutex becomes free; `settled` remembers slave and registers as of then.
Since `AtomicBus` has no way to let another call in between, `CallsAreAtomic` says that
tasks cannot tell the code's calls from indivisible ones. It does not say the call
succeeded, nor that it reached the slave it was asked for (section 7).

### Gpio - register access of `src/gpio.c`, wrappers of `src/platform_io.c`

A register is the set of its bits that are 1. A write is `WriteEnter`, `Load`, `StoreData`
(`StoreIER`, `StoreWord`), `WriteLeave`; a read `ReadEnter`, `ReadLoad`, `ReadLeave`. Calls on
interrupt channels are a read section followed by a write section, with the mutex free in
between. The tristate register and GIE are written whole and are one boolean each. An acquire
that fails is `Refused`. The core's own step is `InputChanges`. `NumChannels` is the
`num_of_channels` of the core, 1 for every core of the repository: there `enable` and `disable` act on
channel 1 whatever number they are given (`Meant`). Any task may make the calls; `IrqTask` and
`IrqKinds` say which tasks make the interrupt calls and which of them.

### MapIo, GpioLife - `src/busio.c`, `gpio_init`, `gpio_clean`, `pio_init_geninputs`

`MapIo` has no variables: `Ioremap` is the set of what the function may give and how it leaves
its static descriptor, from which it may never recover; `Unmaps` says when `munmap` succeeds.

`GpioLife` adds to `Gpio` the task `Main` that runs `pio_init_geninputs` and `gpio_clean`:
`phase` is the place in them, `mapped`, `alive` and `intr` what they have made. Each of
`Map`, `CreateMutex`, `CreateIntr` and `Spawn` may fail. The last part of `gpio_init` makes calls
of the driver itself (GIE, channels, then `gpio_set_dir` whatever happened); they wait in `todo` and
are made through `Gpio`, section by section. `UserStep` is a step of `Gpio` by any task
while the driver is up; an acquire is refused when the mutex does not exist. `gpio_clean`
starts when no call is in flight, which its note leaves to the user; it does not delete the
interrupt task, so that a second start with an interrupt function fails at the name
`"Int"` until that task has ended by itself.

### ModeSelection - `mode_selection/mode_selection.c`, `pio_init_all`, `pio_clean_all`

Three actors. The *Linux thread* starts `main_task` and pauses; signals put `clean_exit` on it,
a stack `handlers` of one frame per signal, since a signal blocks only itself. `CleanExit`
is the list of the handler's system calls; a failing `gpio_clean` jumps to the `close`.
*main_task* opens the pipe, starts the two cores (with the undo of the first when the second
fails), then blinks, polls and tells. *lcd_task*, in another process, takes
a message from the pipe and prints it line by line. A core has the two histories that decide
what `munmap` and `rt_mutex_delete` return the second time: `sized` (its addresses have been
set) and `alive`. The task is of a higher priority than the thread, so its register accesses
are single steps, but it sleeps between them and in `open`, `mmap` and `write`, where a handler
may run. Assumed of the systems below: a signal goes to the Linux thread and blocks
itself while its handler runs, as glibc's `signal` has it; a message once written is read.

### HwServos - `src/hwservos.c`

Pulse width and enable bit per servo, the latch `values`, the lifecycle with its failed
steps and the loop of `hwservos_clean` that disables servo after servo. A register is read
whole and written whole (`old`), which is where a lost update would be.

### MotorsLife, Motors - `src/motors.c`

`MotorsLife` has `motors_init_motor` and `motors_clean_motor` alone: a label per step
and per `goto` target, loop counters that keep their value across the goto, what is mapped,
allocated and alive, the counts the loops of the clean go by (`sized`), and `err`, which the
`malloc`s do not set and `UTIL_MUTEX_DELETE` overwrites: most failures are returned as 0.
`Motors` extends it with registers, copies and the calls of tasks, which come while the driver is
up and also after an init that failed and returned 0, as does the clean. Then the structure has null
pointers, or pointers to memory that has been freed and holds mutexes that have been deleted.
`rt_mutex_acquire` and `rt_mutex_delete` refuse these, or the process dies of the access; the model
has the first, and the second is a behaviour that stops there (`Crash` of `Platex`). Arrays come
from `malloc` and hold `Junk` until they are set.

### SpiAdc - `src/max1231adc.c` over `src/xspidev.c`

The converter (external) is a FIFO of results, each tagged with who asked for it and its
channel; conversions append, reads take from the head and give zeros when it is empty. A
reading is `ask`, then `take`, under the mutex of the converter. A
configuration is a `FullTransfer`, whose result the code reads the wrong way round. `fifo`
may hold results of earlier calls, so the histories `virgin` and `exact` say of what
calls the two properties speak. Every transfer may fail. `spi_half_transfer` and
`spi_half_read` then return 0, because the release of the mutex stores its own result over the
error, and so does `adc_read`: the call goes on with the FIFO as it is and a buffer that may not
have been written, and returns 0. The history `dropped` remembers it; the code has no such thing.

### Sensors - `lis3lv02dl.c`, `srf08.c`, `hmc6352.c`

One mutex per sensor, and per task the operation it is in. A reading is tagged with the
task whose read it is of (`acc`, `cal`), an echo with the shot it belongs to (`echo`,
`heard`). The compass is `busy` with a command after which it needs time (`Slow`: waited for
under the mutex, `Settle`), or with a measure, which `GETDATA` starts: `hmc6532_read_wait`
sleeps its 6 ms first (`asleep`, `Wake`) and takes the mutex only then. The history `alone` says that no
measure was asked for since that sleep began, `switched` that the power-up of an `init_3axis` went
through. Every bus call may fail, and few failures are reported: the operation leaves as it does
on success, and `lis3lv02dl_calib` copies the readings also when the read has read nothing.

### Platex - `src/ex/platex.c`

`Boot` and `Cleanup` are the two scripts of the program: what `main_task` and
`clean_rt_task` do, in order. The rest is what runs beside them: six workers, the Linux
thread with its signal handler, exit. A worker that has been spawned calls its driver (`Begin`)
whatever has become of it, and drives its actuator when the driver is up; it looks at the flag `end`
at the head of its loop, and those of `SetsUp` call their driver once before they do. It may
end by itself (`Quit`) when it overruns its period. A worker on a bus may be deleted inside a transfer
and then takes the mutexes it holds with it (`lost`). Priorities count: while a worker that
outranks the others is inside its driver, they do not run (`Idle`). The init of the motors may fail
and return 0: they are then `"broken"`, `main_task` goes on, and a call on them or their
clean may end the process (`Crash`). `JoinWaits` is whether `rt_task_join` waits for the cleaner,
which was spawned without `T_JOINABLE`; `platex` is run, and everything is proved, without it.

### Mii - `etherlite_fix/`

`Program` is the list of register accesses of `main_task`; each is clocked bit by bit on
two pins, with a PHY (external, IEEE 802.3 clause 22) that counts the preamble, takes
the frame, answers a read and can be reset at any moment.

### Lcd - `src/lcd.c`, `lcd_daemon/lcd_daemon.c`

A step is one write of the seven pins. A call is a `script`, a list of bytes, nibbles and
sleeps; `step` counts the writes made of the current item. The display (external, HD44780)
takes a nibble when enable falls and otherwise only waits for the first or the second
half of a byte; when the data change with the falling edge, it may take the old ones or
the new ones. The process may be killed between any two writes; pins and display keep
their state, the next process starts `lcd_init` on them. Abstractions: a sleep of the driver
outlasts what the display does meanwhile; a message is in the pipe when the daemon
reads it; the other task only switches the display on and off; the entry mode of the display
is never changed from its default.

## 4. Runs

States are distinct states found by TLC.

| Run | States | Asks |
|---|---|---|
| `bus` | 598 k | Do two tasks in any calls keep their sections apart, are the calls atomic, do they return? `OneTransaction`, `SelectionHolds`, `OwnAnswer`, `NothingHeldOutside`, `FileOpen`, refinement `CallsAreAtomic`, `CallsReturn` |
| `gpio` | 1.2 M | Does a write stay in its mask, an interrupt call take effect, and every access meet a mapped core, through starts, failures and stops? `WritesStayInMask`, `IrqCallsTakeEffect`, `UsedWhileMapped` |
| `servos` | 176 k | Are positions kept, and servos off when unmapped? `PositionKept`, `DisabledWhenUnmapped`; the range of a pulse is in `TypeOK` |
| `motors` | 225 k | Is every failed start undone, even one that says it succeeded and is used and cleaned, and do copies and readings hold? `NothingLeft`, `NothingUsedOnceGone`, `StoppedWhenCleaned`, `CopyIsApplied`, `ReadingsChain` |
| `platex` | 1.5 M | Do workers find their drivers, and does the robot stand still, whenever a signal comes after the start? `UsersHaveDevices`, `SafeStop`, `SignalEnds` |
| `platex_exit` | violation | Is every exit through the handler clean? `CleanExit`: no |
| `adc` | 760 k | Does a reading give its own conversions, and do readings stay aligned? `OwnConversions`, `Aligned` |
| `sensors` | 3.3 M | Are readings of one read, echoes of one shot, commands sent when the compass is back? `OwnedInside`, `AccelerationOfOneRead`, `EchoOfOneShot`, `CompassSettles`, `InitPowersUp` |
| `sensors_calib` | violation | Is a calibration that of one read? `CalibrationOfOneRead`: no |
| `mii` | 528 k | Does the PHY do what it is asked? `NoContention`, `DoesWhatIsAsked` |
| `mode` | 437 k | Is nothing used unmapped, all given back, the choice shown, and does a signal end the program? `RegistersMapped`, `CleanGivesBack`, `ChosenIsShown`, `SignalEnds` |
| `lcd` | 763 k | Is the display in step, and does it show the message? `Aligned`, `WholeBytes`, `Displayed` |

`TypeOK` is checked where it says more than what the variables range over: the count of files in
`bus` and `adc`, the bits of the register in `gpio`, the range of a pulse in `servos`. The other
modules have theirs as documentation of the state.

### Bounds, and why they are enough

* *Two tasks* everywhere. A driver distinguishes the owner of its mutex from everybody
  else; each property relates one task to another. The
  theorems of section 6 take any number of tasks. Symmetry is used only where tasks are interchangeable
  and no liveness property is checked.
* `bus`: addresses 0, 33 and 128 make every address check go both ways; an unknown size takes
  the transfers of a known one that fail. `MaxFiles = 2` admits one leaked descriptor beside
  the one in use.
* `gpio`: two fields of two bits, as the two banks of LEDs share a register, and a write of
  the whole word; values with bits the shift moves out of the mask. A core with one channel, as
  all of the repository, whose two tasks both make the interrupt calls, with either channel number.
  Starts and stops are not bounded.
* `mode`: the program is not scaled down. Three signals: two nest, and the third finds the first
  of them done. `PipeMax = 2` lets a message wait behind another one. The program ends
  or waits for ever, so its run does not look for deadlock.
* `servos`: requests below, at and above both limits. `motors`: settings below zero, within
  and above the limits; two motors and two encoders so that each loop of the goto chain
  can stop in its middle; counters within -1..1, since a property only compares them.
* `platex`: two signals, as the second one has a path of its own (the spawn of a second
  cleaner fails) and a third has none; two workers that may end by
  themselves (`Quitters`), one on a bus and one that leaves its motors driven. `platex_exit`
  needs no more than one signal and a join that does wait. The program ends, so its runs do not
  look for deadlock.
* `adc`: channels 0 and 1 and a FIFO of three: a scan with temperature fills it, a further
  conversion overflows it. `MaxFiles = 4` bounds the restarts.
* `mii`: nothing is scaled down: 32 bits of preamble, 5 of address, 16 of data, the register
  numbers and bits of the code. Two resets, so that a second may come while the PHY
  recovers from the first.
* `lcd`: lines of three characters instead of 16 and a buffer of nine instead of 80; the
  messages are shorter than a line, longer than a line and longer than the display. Two kills,
  so that the second one may come in the middle of an initialisation, and one acquire that
  is interrupted.

`PROJECT.json` names for every property of a passing run a mutated operator, kept beside the
original in the module as `Mutant of ...`: a bug of the kind a maintainer could make,
under which the property fails with the same bounds. None of them is part of `Next`.

## 5. Fairness

* `bus`: weak fairness of every step of a task inside a call, strong fairness of
  its acquire. A Xenomai task that is ready runs, as no task of the library loops without
  blocking; a system call ends, since the bus driver of Linux has a timeout; and a mutex
  of Xenomai has a queue from which the next owner is chosen at the release, so a
  waiting task is not passed over for ever among tasks of equal priority. That a task
  makes a call, that the driver is cleaned, and that a wait is interrupted are not fair:
  they need not happen.
* `platex`: strong fairness of the cleaner's steps and the handler's join, which wait while a
  worker of a higher priority is in its driver and, in one clean, for a mutex: workers are
  periodic and leave the processor between two periods, and the mutex has its queue. Weak
  fairness of the end of a call, of registers or on a bus. Nothing is assumed of the join that
  does not wait, of signals, of spawns, or of workers beginning a call. `SignalEnds` exempts runs in which a worker was deleted with
  a mutex in its hands: there the cleaner does wait for ever.
* `mode`: weak fairness of the display daemon, which is a task of the highest priority
  that blocks in `rt_pipe_read` only; of the delivery of a signal that is not blocked, of the
  steps of a handler, none of which waits, and of `main` once `pause` has returned.
  Nothing is assumed of `main_task`, of the buttons, of signals, nor of `main` before `pause`.

## 6. Proofs

TLAPS proves for every value of the constants, subject to the assumptions named in the modules.

| Theorem | Says |
|---|---|
| `I2CBusProofs!Typing` | types, and the count of open files |
| `I2CBusProofs!Exclusion` | `OneTransaction` |
| `I2CBusProofs!Balance` | `NothingHeldOutside` |
| `I2CBusProofs!OpenFile` | `FileOpen` |
| `I2CBusProofs!Selection` | `SelectionHolds` |
| `I2CBusProofs!Answers` | `OwnAnswer` |
| `I2CBusProofs!Atomicity` | `I2CBus` implements `AtomicBus`: `CallsAreAtomic` |
| `GpioProofs!Invariance` | types, lock discipline, and that a loaded word is current |
| `GpioProofs!MaskedWrites` | `WritesStayInMask` |
| `GpioProofs!InterruptCalls` | `IrqCallsTakeEffect`, for cores with one and with two channels |
| `GpioProofs!LifeImplements` | `GpioLife` implements `Gpio`: `LifeSpec => Spec` |
| `GpioProofs!RegistersAreMapped` | `UsedWhileMapped` |
| `RobotProofs!ServoTyping` | types, above all the range of a pulse |
| `RobotProofs!Positions` | `PositionKept` |
| `RobotProofs!Disabling` | `DisabledWhenUnmapped` |
| `MotorsProofs!Typing` | types |
| `MotorsProofs!GivesBack` | `NothingLeft` |
| `MotorsProofs!UsedWhileThere` | `NothingUsedOnceGone` |
| `MotorsProofs!ReadsAreApplied` | `CopyIsApplied` |
| `MotorsProofs!Chaining` | `ReadingsChain` |
| `MotorsProofs!StandsStill` | `StoppedWhenCleaned` |
| `SensorsProofs!Typing` | types |
| `SensorsProofs!Owned` | `OwnedInside` |
| `SensorsProofs!OneRead` | `AccelerationOfOneRead` |
| `SensorsProofs!OneShot` | `EchoOfOneShot` |
| `SensorsProofs!Settled` | `CompassSettles` |
| `SensorsProofs!PoweredUp` | `InitPowersUp` |
| `RobotProofs!PlatexTyping` | types, and the places in the two scripts |
| `RobotProofs!DevicesForUsers` | `UsersHaveDevices` |
| `RobotProofs!StopsSafely` | `SafeStop`, whether or not `rt_task_join` waits |
| `SpiAdcProofs!Typing` | types, and the room of the FIFO |
| `SpiAdcProofs!OwnResults` | `OwnConversions` |
| `SpiAdcProofs!Empties` | `Aligned` |
| `ProgramProofs!CoresAreMapped` | `RegistersMapped` |
| `ProgramProofs!AllIsGivenBack` | `CleanGivesBack` |
| `ProgramProofs!LineFree` | `NoContention` |
| `ProgramProofs!AccessDone` | `DoesWhatIsAsked` |
| `ProgramProofs!MiiTyping` | types, the last clock of an access, and at most one frame and one register in the PHY |
| `LcdProofs!Typing` | types, and that no item is sent with more writes than it has nibbles for |
| `LcdProofs!DisplayAligned` | `Aligned` |
| `LcdProofs!BytesWhole` | `WholeBytes` |
| `LcdProofs!MessagesDisplayed` | `Displayed` |

*Assumptions.* `TaskAssumption`: `NoTask` is no task. `AddressAssumption`: addresses are
bytes, 0 among them (the one a new file has). `MaxFilesAssumption`: the bound is a number.
`BitAssumption`: bits are numbers, a mask is a set of bits, a core has one or two channels.
`IrqAssumption`: interrupt calls are made by tasks. `MainAssumption`: the task that runs `gpio_init` is one of them, and may enable
a channel. `PulseAssumption`: requests are numbers and the limits are in order. `NumAssumption`: there
are one to sixteen motors and encoders, the numbers given to the initialisation.
`MotorsAssumption`: those the tasks use are among them, settings are integers, limits numbers.
`AdcAssumption`: channels are at most 15, the FIFO has room for something. `LcdAssumption`: characters are
bytes from 32 on, lines are at most 16 wide, and a message is at most as long as the buffer,
which is longer than two lines (80 and 32 in the code). `MiiAssumption`: five address bits or more,
for the register numbers of the code, and the bits of the constants lie in a register.
`PreambleAssumption`: the preamble is longer than the head of a frame and its data together, 32
against 14 and 16 bits in the code. `PlatexAssumption`
and `ModeAssumption` bound runs. TLC evaluates them in the runs of the same modules. Any number of tasks,
addresses, bits, fields and values satisfies them.

*The argument for the bus.* None of the properties is inductive: they do not say who owns
the mutex. `LockInv` does: the mutex is free or its owner is a task inside; a task inside
owns it at depth 1, or 2 at a nested place, and only while the mutex exists. The depth is
what makes the nested release leave the task inside as owner, and the second release of
`i2c_set_1com` harmless: whoever makes it is not inside, so it is not the owner. From
`LockInv` and the types follow `OneTransaction`, `NothingHeldOutside` and, with the count of
files, `FileOpen`. With the lemma that nobody but the task inside moves the slave or a
register (`WireStep`, `LifecycleStep`), `SelectionHolds` is inductive, and `OwnAnswer`
follows from `AnswerInv`, which adds that from the command's write to the read of its answer
the register of the slave is the task's own.

*The argument for the GPIO core.* `LoadIsCurrent` - the word a writer is about to merge its
field into is still the one in the register - is inductive beside the lock discipline, and
a store of a current word changes its mask only. Interrupt calls keep no lock between their read
and their write, so what they read may be stale when they store it. `WiredInv` says that it never
names a channel the core lacks, `DoneInv` that until a task leaves its write section the
register of a one-channel core is what its call asks for: stale or not, what was read has no other
channel to lose, and nobody stores before the task has left.

*The argument for its life.* `LifeImplements` has one obligation that is not a stutter: the calls
`gpio_init` makes itself are calls of the driver, which holds because `todo` has only such
(`TodoInv`). `UsedWhileMapped` is not inductive, as it does not say what an acquire depends on.
`LifeInv` adds that the mutex exists only over a mapping, but for the moment between the two
steps of `gpio_clean` (`MappingInv`); that who is inside is there by a mutex that exists
(`InsideInv`); and that nobody is in a call at that moment (`CallerInv`). Through
`LifeImplements` the theorems about `Gpio` hold of the driver across restarts.

*The argument for the servos.* `PositionKept` speaks of servos nobody is changing. `PositionInv`
says what holds in the meantime, too: register and latch agree unless a task is between its two
writes, and that one has the position in the register already (`LatchInv`). Enable and
disable keep the agreement because the pulse they write back is the one in the register
(`OldInv`), which needs the lock discipline. The range of a pulse needs `OldInv` as well: what
is written back was read from the register. For `DisabledWhenUnmapped`, every servo the loop
of the clean has behind it is off, and no call is in flight that could turn one on (`CallInv`).

*The argument for the refinement.* Where the step-by-step `I2CBus` has a task inside, `AtomicBus` has not
yet moved, and moves when the mutex becomes free. `Prefix` says, label by label, what the task
inside has made of its call so far, starting from `settled` (the bus as it was when the mutex was last
free): at the last label of a section this is what `Transact` does as a whole. `SettledInv` adds that a
free bus is settled. Both need `LockInv`, since nobody else may move the bus meanwhile. Every step
then maps to a call, a transaction or a return of `AtomicBus`, or to a stutter.

*The argument for the motors.* `UpInv`, `UndoInv` and `CleanInv` say for each label of the init, its goto
chain and the clean which parts are mapped and allocated and which mutexes exist, as intervals
of the loop indices: the index with which a loop is left by a goto is the one the chain counts down
from. A start that failed and returned 0 has no mutex left (`UndoInv`): a call on it is refused
before it touches an array or a register (`CallInv` has such a task before its acquire only), and its clean
finds no mutex to delete, so it ends before it frees a second time. `NothingLeft` and
`NothingUsedOnceGone` are read off these. For the calls, `PwmInv`
has a register and its copy agree unless a task is between its two writes, and `EncInv` has the value
kept of an encoder equal to the last one reported unless a reader inside has yet to report it, and the
previous value equal to that from the shift on; both need one owner per mutex. `StopInv` has a motor at
rest outside the time the driver is up or stopping, and the motors below the index of the stopping loop
already.

*The argument for the sensors.* `LockInv` as for the bus, per sensor. `ReadInv`: the axes before the
one a reader is at are its own. `EchoInv`: while a task reads an echo of a sonar it found at rest, nobody
fires. `SettleInv`: a compass that is at a command has a task waiting for it, inside. `WaitInv`: from the
end of a reader's sleep on there is no measure under way, unless one was asked for since it fell asleep;
only the second half of `CompassSettles` rests on it, as no mutex keeps two sleeping readers
apart. `PowerInv`: from the power-up of `init_3axis` that went through (`switched`) on, the device is on
until the section is left. Each but `WaitInv` needs that no two tasks are inside
one sensor (`Alone`).

*The argument for the converter.* A read that began on an empty FIFO finds it empty when it asks,
finds exactly its own conversions when it takes, and has them when it leaves, if no transfer
was `dropped`; if one was, it finds nothing but its own (`OnlyOf`) and leaves with these, with zeros, or with
nothing (`Honest`); both are in `OwnInv`. In between, the others only begin and end calls (`OthersOut`), and what a returning call disowns is not in
the FIFO. A read of the temperature is given two results and takes one, so that even a FIFO of one
would lose the first: the property asks for room for all a call converts. `FifoInv` says that as
long as `exact` holds, the FIFO has at most what the read under way takes.

*The argument for platex.* The two scripts enter through lemmas about their order alone (`BootOrder`,
`CleanupOrder`): a worker is spawned after the init of all it uses, it is deleted before its device is
cleaned, and before its actuator is stopped, which comes before the clean. `BootInv` says that a worker is
there exactly when `main_task` is past its spawn, and that what it is past starting is started: no
guard of a worker looks at its driver, so `UsersHaveDevices` (lemma `UsersFind`) holds by the order of the
script. `DeletedInv` says that whom the cleaner is past is gone for ever, `StoppedInv` that what it is
past stopping is not driven, `MovingInv` that only a worker that was spawned drives, and only through a
driver that is up. `EndInv`: no worker outlives an exit, so what is driven does not change after it.
`StopsSafely` needs nothing of `rt_task_join`: it speaks of actuators that have been cleaned, of the
cleaner at its end, and of an exit that has waited for it. What an exit that has not waited leaves driven is in
section 7.

*The argument for the mode selection.* `PlaceInv` says what `main_task` has made of the two cores where it
stands, as long as it is there; `RegistersMapped` follows. No handler can break it, because a
`clean_exit` deletes the task before it does anything else: while a handler is past that, or the
thread is waking behind one, there is no task (`GoneInv`). `GivenInv` says what a handler past
each of its steps has given back, whoever did it. One that finds the mutex of the inputs deleted gives up
and goes to its `close`: the other core is then given back already or a handler it interrupted is
still to do it, standing at the unmap of the outputs or behind it. Handlers end innermost
first, so the one that wakes the thread leaves nobody behind, and nothing held. Neither bound of
`ModeAssumption` is used: the result holds for any number of signals.

*The argument for the display.* The properties speak of what a task has sent; the invariant has to
say where the two controllers stand between any two writes of the pins. `LockInv` and `ScriptInv`: only
the owner of the mutex is in the middle of an item, and the scripts of the others are those of
`lcd_on` and `lcd_off`. `AlignInv` follows the display through `lcd_init`. A process that is killed
leaves it with four or eight wires, asleep or not, and with any first nibble, which the
three nibbles 3 of the next `lcd_init` have to bring to one state: after the first, what is
left for the first half of a byte is nothing or that nibble itself (`FirstNibble`); the second then
completes a byte that sets eight wires, or is a byte by itself, or is the first half of one
(`SecondNibble`); in each case the third leaves eight wires and nothing half taken. `SetFour` then
makes it four, and from there on every item is two nibbles taken as one byte, whatever the line does while enable
falls (`Latched` gives the old and the new data). A clear makes the display deaf, so every one is followed
in its script by a sleep before the next item, which is kept as a fact about what is left of
a script. `Aligned` and `WholeBytes` are read off it. `PrintInv` is for `Displayed`: from what is left of
`LcdPrint` it computes how many of its items the display has been told (`Told1`), what its address
counter must be then, and which cells show the message; a byte of another task in between
switches the display and touches neither address nor cells. `PrintIs`, what `LcdPrint` is
index by index, is where the widths of the two lines and the buffer enter.

*The argument for the PHY.* The properties speak of the end of an access, the invariant of every
clock of it. `LineIs`, `ReadLine` and `WriteLine` give the bits of an access place by place, for any widths.
Once the preamble is over, the PHY is in one of four states (`FrameInv`). It follows: it has
exactly the bits sent so far, so that `FrameIs`, for any frame that begins with the
head of the access, gives the opcode, the address and the register it will see. It answers: what it still
has to drive are the bits of the register the program has not read, and what the program has shifted in are
the others. It has written the register. Or it is lost: it woke up, or was reset, in the middle. Then no later
bit can begin a frame, because it has not counted a preamble of ones by the last place where the
line is low (`LowIs`): here `PreambleAssumption` enters, and without it data with enough ones in them
could pass for a preamble. Awake throughout the access, it counts the whole preamble and cannot be lost.
An answer starts with the first clock after the head of a read, where the program has let the line go, and
takes the `DataBits + 1` clocks that are left: `NoContention`.

*Model-checked only.* `CallsReturn` of `I2CBus` and the two `SignalEnds` and
`ChosenIsShown` are liveness under fairness, which TLAPS cannot do (nor `ENABLED`); what a recursive definition
computes for every input would need induction over data, which it cannot do either. No module
declares a `RECURSIVE` operator.

## 7. Where code and documentation disagree

Shown by a run:

* `platex_exit`. `src/ex/platex.c:495`: "Signal-handler, to ensure clean exit on
  Ctrl-C". A signal during start-up lets the cleaner pass over drivers `main_task` has yet to
  start; it starts them, their worker drives the actuator, and `exit(0)` leaves it driven.
* `sensors_calib`. `src/lis3lv02dl.c:222`: "This function is thread-safe".
  `lis3lv02dl_calib` copies the readings after the read has released the mutex, so two
  calibrations or a read beside it leave one made of two reads.

Found while reading, told here because each is one value or one line rather than a behaviour of
several steps, or because the model leaves that call to a later module:

* `src/util.h:69` and `:83`: `UTIL_MUTEX_DELETE` and `UTIL_MUTEX_RELEASE` assign to the
  `err` of the function they are used in, so an error kept in it until then is lost. This makes
  functions whose documentation says "@return 0 on success. Otherwise error." return 0 after a failure:
  `src/motors.c:64` (the chain at `:167` and `:177`; the failed `malloc`s at `:95` and `:125` do
  not set `err` at all), after which platex spawns the worker, which calls, and the cleaner cleans,
  a driver that has been given back; `src/xspidev.c:267` and `:302`, hence `max1231adc.c:161` and
  `:198` (`adc_ll_write8`, `adc_read`), whose callers then use old readings, zeros or a buffer
  that was never written; `src/lis3lv02dl.c:282` and `:306` (`init_3axis` returns 0 with the device
  off or its scale not set), `:180`, with `lis3lv02dl_calib` after it, and `:153`;
  `src/hmc6352.c:320`, `:346`, `:373` and `:399`. At `hmc6352.c:268` the value itself is
  what the release overwrites: the heading is always 0.
* `src/i2ctools.c:260`: `i2c_get_3com` returns 0, neither the byte it has read nor an
  error. `:151` and its siblings: the
  error of `set_slave_addr` is dropped, and the transfer goes to the slave selected before.
  `:294`: `i2c_set_1com` returns the error of its second release, `-EPERM`, when all
  went well, though its documentation (`:269`) promises the value.
* `src/gpio.c:222`: the read and the write of an interrupt call are two sections; on a core
  with two channels, of which the repository has none, two tasks can lose one of their updates.
  With one channel, `enable` and `disable` of channel 2 act on channel 1. `:280`:
  `gpio_irq_isr_checkandtoggle_channel` writes what it read from the status register to the
  enable register. `:304`: a failed `gpio_init` leaves behind what it had acquired (its own
  TODO says so). `:396`: `gpio_clean` "deactivates IRQs", but it writes neither GIE nor IER and
  leaves the interrupt task, whose name makes the next `gpio_init` with an interrupt function
  fail. The only such function of the repository, `gpio_isr` of platex, is not in use.
* `mode_selection/mode_selection.c:149`: "wait for signal & return of signal handler". A signal
  before `pause` deletes `main_task`, if it is there, and cleans; `main` then pauses until
  another signal comes (`SignalEnds` therefore speaks of a signal during `pause`). `:125`: if
  the outputs fail to start once they are mapped, and a signal comes after `pio_init_all` has
  deleted the mutex of the inputs, `pio_clean_all` stops at that mutex and leaves the outputs
  mapped (`CleanGivesBack` therefore speaks of a program that was initialised; the
  operating system takes the mappings back at the exit). The results of `write` and of
  `pio_read_buttons` are ignored.
* `src/hwservos.c:217`: a servo enabled before it is positioned is driven with a pulse of 0.
* `src/motors.c`: after an undo that failed to unmap the core, the clean unmaps it again; `:333`: the clamp of a
  motor number admits one past the last.
* `src/xspidev.c:141`: `open` is tested against 0 instead of -1, `spi_clean` does not close
  the file. `:226`: `spi_full_transfer` compares its result with 1.
* `src/max1231adc.c`: a failed read or a temperature reading leaves results in the FIFO
  that the next reading takes for its own (`virgin` and `exact` mark the calls this spares).
* `src/lis3lv02dl.c`: bytes that could not be read go into the reading as they are; the
  clean hides the error of the power-off. `src/srf08.c`: `srf08_get_light` swaps the
  register and the address. `src/hmc6352.c`: the identity check always gives `-ENODEV`. `:297`:
  the 6 ms "we need to wait at least this" are slept outside the mutex, so that of two readers that
  wait side by side the second sends its command right behind the first's.
* `src/ex/platex.c`: a second signal while the cleaner runs finds the task's name taken and
  calls `exit` in the middle of the clean (`:501`); `rt_task_join` on a task that was spawned with
  mode 0, without `T_JOINABLE`, may return `-EINVAL` at once, and the exit does not wait for the cleaner
  (`:506`, `JoinAtOnce`): both may leave motors driven, which is why `SafeStop` does not
  speak of them; a worker ends for good on the first overrun and leaves its actuators
  as they are; `adc_task` never prints channels 8 to 11.
* `etherlite_fix/main.c:129`: the log says "Disabling 1000MB" and the call passes -1, which
  advertises it. `marvell_88e1111.c:134`: a PHY that cannot be read gives all ones, which has
  the link bit set.
* `src/lcd.c:211`: `lcd_clear` sleeps after it has released the mutex, so a byte of another
  task may reach a display that does not listen. `:338`: the error of the address command is
  ignored; `:110`: so is that of the first nibble. `lcd_print` does not blank what a shorter
  message leaves of a longer one, and a message without a terminator keeps the tail of
  the one before it in the daemon's buffer (`lcd_daemon/lcd_daemon.c:112`).
* `src/busio.c:102`: after a failed `mmap` the descriptor is closed but kept, and every later
  mapping fails (`Ioremap` in `MapIo`).
* `src/util.c:58`: `util_pdbg` formats into one static buffer, which all tasks that report an
  error share.

## 8. What is not modelled

* The PID functions of `motors.c` (stubs that return `-ENOSYS`), and the third GPIO core of
  `platform_io.c`, whose functions are commented out or never called.
* The descriptor number that a failed `ioremap` closes twice may by then belong to another file of
  the process. Which one is a matter of what else the program opens, and is left out.
* Arithmetic on a value once it is read: the temperature of the converter, the
  conversions of the accelerometer and the ranger's table (`gp2x.c`).
* Command lines, fork, logging, the pipe's creation: process set-up.
* Vendored code: `src/i2ctools/i2cbusses.c` and `include/linux/i2c-dev.h`, whose calls are in
  `I2CCalls` as the drivers use them; Linux, Xenomai and the chips, in the modules marked
  external.
* The Orocos example (`orocos-test/`), addresses (`dev_mmaps_parms.h`) and version.
