--------------------------------- MODULE Lcd ---------------------------------
(***************************************************************************)
(* src/lcd.c and the task of lcd_daemon: a 16x2 character display behind   *)
(* seven pins of a GPIO core, which takes a byte in two nibbles.           *)
(*                                                                         *)
(* A step is one gpio_write: it puts a nibble, the register select and the *)
(* enable line on the pins.  The display (an HD44780, external) takes the  *)
(* nibble when enable falls, and is told a byte at a time: it either waits *)
(* for the first nibble or for the second.  Pins and display keep their    *)
(* state when the process is killed, which may happen between any two      *)
(* writes; the next process initialises whatever it finds.  A sleep of the *)
(* driver outlasts what the display does meanwhile.                        *)
(***************************************************************************)
EXTENDS RtMutex, Integers, Sequences

CONSTANTS Daemon,         \* the task of lcd_daemon
          Char,           \* the characters of messages, pairs of nibbles
          NUL,            \* the end of a string
          Messages,       \* what other processes write to the pipe
          Banner,         \* the message of lcd_task itself
          Width,          \* the length of a line: 16
          BufLen,         \* the length of lcd_task's buffer: 80
          MaxKills,       \* bound on the times the process is killed
          MaxInterrupts   \* bound on the acquires that are interrupted

Line2 == 40   \* the address LCD_ADR2 sets

ASSUME LcdAssumption ==
  /\ Daemon \in Task
  /\ Char \subseteq (2..15) \X (0..15) /\ NUL \notin Char
  /\ Width \in 1..16 /\ BufLen \in Nat /\ BufLen > 2 * Width
  /\ \A s \in Messages \cup {Banner} :
       s \in Seq(Char \cup {NUL}) /\ Len(s) \in 1..BufLen
  /\ MaxKills \in Nat /\ MaxInterrupts \in Nat

VARIABLES
  stage,       \* of lcd_task: "down", "init", "greet", "serve", "clean"
  mutex,       \* the mutex of the LCD
  buf,         \* lcd_task's buffer
  script,      \* what each task has still to do of its call, item by item
  step,        \* the writes it has made of its item, or -1 before it owns the mutex
  pins,        \* the GPIO's data register: enable, register select, nibble
  ctrl,        \* the display
  kills,
  interrupts,
  refused      \* history: the daemon's print had a byte refused

vars == <<stage, mutex, buf, script, step, pins, ctrl, kills, interrupts, refused>>

-----------------------------------------------------------------------------
\* What the driver sends.

Byte(rs, hi, lo) == [do |-> "byte", rs |-> rs, nibbles |-> <<hi, lo>>]
Nibble(n) == [do |-> "nibble", rs |-> 0, nibbles |-> <<n>>]
Sleep == [do |-> "sleep", rs |-> 0, nibbles |-> <<>>]

LCD_SET == Byte(0, 2, 8)
LCD_ON == Byte(0, 0, 12)
LCD_OFF == Byte(0, 0, 8)
LCD_MD == Byte(0, 0, 6)
LCD_ADR == Byte(0, 8, 0)
LCD_ADR2 == Byte(0, 10, 8)
LCD_CLR == Byte(0, 0, 1)
SetEight == Nibble(3)   \* LCD_SET8 >> 4
SetFour == Nibble(2)    \* LCD_SET >> 4

Clear == <<LCD_CLR, Sleep>>

\* Mutant of LcdInit: the workaround sends the nibble twice.
LcdInitTwice ==
  <<SetEight, Sleep, SetEight, Sleep, SetFour, Sleep, LCD_SET,
    LCD_OFF>> \o Clear \o <<LCD_ON, LCD_MD, LCD_ADR>>

LcdInit ==
  <<SetEight, Sleep, SetEight, Sleep, SetEight, Sleep, SetFour, Sleep, LCD_SET,
    LCD_OFF>> \o Clear \o <<LCD_ON, LCD_MD, LCD_ADR>>

\* The string in a buffer: what is before the first NUL.
String(b) ==
  LET ends == {i \in DOMAIN b : b[i] = NUL}
      end == IF ends = {} THEN Len(b) + 1 ELSE CHOOSE i \in ends : \A j \in ends : i <= j
  IN SubSeq(b, 1, end - 1)

Chars(s) == [i \in 1..Len(s) |-> Byte(1, s[i][1], s[i][2])]

\* Mutant of LcdPrint: the first line takes a character too many.
LcdPrintLong(s) ==
  <<LCD_ADR>> \o Chars(SubSeq(s, 1, IF Len(s) < Width + 1 THEN Len(s) ELSE Width + 1))
  \o <<LCD_ADR2>> \o Chars(SubSeq(s, Width + 2, IF Len(s) < 2 * Width THEN Len(s) ELSE 2 * Width))

LcdPrint(s) ==
  <<LCD_ADR>> \o Chars(SubSeq(s, 1, IF Len(s) < Width THEN Len(s) ELSE Width))
  \o <<LCD_ADR2>> \o Chars(SubSeq(s, Width + 1, IF Len(s) < 2 * Width THEN Len(s) ELSE 2 * Width))

Item(t) == script[t][1]

Busy(t) == script[t] # <<>>

-----------------------------------------------------------------------------
\* The display.

Blank == <<2, 0>>

\* The address after "set CGRAM address", where no character shows.
Nowhere == 128

Next7(a) == IF a = Nowhere THEN a ELSE (a + 1) % 128

Cleared == [i \in 1..2 * Width |-> Blank]

PowerOn == [wide |-> TRUE, first |-> <<>>, sleeping |-> FALSE, on |-> FALSE,
            at |-> 0, cells |-> Cleared, last |-> Sleep]

\* The visible cell of an address, if it has one.
Cell(a) == IF a < Width THEN {a + 1}
           ELSE IF a \in Line2..Line2 + Width - 1 THEN {Width + a - Line2 + 1} ELSE {}

\* c having been told the byte b.
Told(c, b) ==
  LET hi == b.nibbles[1]
      lo == b.nibbles[2]
      d == [c EXCEPT !.first = <<>>, !.last = b]
  IN IF b.rs = 1
       THEN [d EXCEPT !.at = Next7(@),
                      !.cells = [i \in DOMAIN @ |-> IF i \in Cell(c.at) THEN <<hi, lo>> ELSE @[i]]]
     ELSE IF hi >= 8 THEN [d EXCEPT !.at = (hi - 8) * 16 + lo]
     ELSE IF hi >= 4 THEN [d EXCEPT !.at = Nowhere]
     ELSE IF hi >= 2 THEN [d EXCEPT !.wide = hi = 3]
     ELSE IF hi = 1 \/ lo = 0 THEN d
     ELSE IF lo >= 8 THEN [d EXCEPT !.on = lo >= 12]
     ELSE IF lo \in {2, 3} THEN [d EXCEPT !.at = 0, !.sleeping = TRUE]
     ELSE IF lo = 1 THEN [d EXCEPT !.at = 0, !.cells = Cleared, !.sleeping = TRUE]
     ELSE d

\* The displays there may be after enable has fallen with rs and n on the pins.
\* While it clears itself it may or may not take a nibble; eight wires wide, it
\* finds the four nobody connects pulled up; and the register select of a byte is
\* that of its first nibble or of its second.
Latched(c, rs, n) ==
  LET taken == IF c.wide THEN {Told(c, Byte(rs, n, 15))}
               ELSE IF c.first = <<>> THEN {[c EXCEPT !.first = <<rs, n>>]}
               ELSE {Told(c, Byte(r, c.first[2], n)) : r \in {c.first[1], rs}}
  IN IF c.sleeping THEN taken \cup {c} ELSE taken

Init ==
  /\ stage = "down" /\ mutex = Free
  /\ buf = Banner
  /\ script = [t \in Task |-> <<>>] /\ step = [t \in Task |-> -1]
  /\ pins = [e |-> 0, rs |-> 0, n |-> 0] /\ ctrl = PowerOn
  /\ kills = 0 /\ interrupts = 0 /\ refused = FALSE

\* The display has done what it was told.
Wake ==
  /\ ctrl.sleeping /\ ctrl' = [ctrl EXCEPT !.sleeping = FALSE]
  /\ UNCHANGED <<stage, mutex, buf, script, step, pins, kills, interrupts, refused>>

-----------------------------------------------------------------------------
\* An item of a call: lcd_send_data_4bit, lcd_send_nibble or __usleep.

Writes(t) == 3 * Len(Item(t).nibbles)

\* Mutant of Enter: lcd_send_data_4bit does not take the mutex.
EnterUnlocked(t) ==
  /\ Busy(t) /\ Item(t).do # "sleep" /\ step[t] = -1
  /\ step' = [step EXCEPT ![t] = 0]
  /\ UNCHANGED <<stage, mutex, buf, script, pins, ctrl, kills, interrupts, refused>>

Enter(t) ==
  /\ Busy(t) /\ Item(t).do # "sleep" /\ step[t] = -1 /\ CanAcquire(mutex, t)
  /\ mutex' = Acquired(mutex, t)
  /\ step' = [step EXCEPT ![t] = 0]
  /\ UNCHANGED <<stage, buf, script, pins, ctrl, kills, interrupts, refused>>

\* The mutex is not acquired: the call ends, except that lcd_print goes on when
\* the byte is the jump to the second line.
EnterInterrupted(t) ==
  /\ Busy(t) /\ Item(t).do # "sleep" /\ step[t] = -1 /\ ~CanAcquire(mutex, t)
  /\ interrupts < MaxInterrupts /\ interrupts' = interrupts + 1
  /\ script' = [script EXCEPT ![t] = IF Item(t) = LCD_ADR2 THEN Tail(@) ELSE <<>>]
  /\ refused' = IF t = Daemon THEN TRUE ELSE refused
  /\ UNCHANGED <<stage, mutex, buf, step, pins, ctrl, kills>>

\* lcd_data_latch: each nibble is written with enable low, high and low.
Write(t) ==
  /\ Busy(t) /\ step[t] \in 0..Writes(t) - 1
  /\ step' = [step EXCEPT ![t] = @ + 1]
  /\ pins' = [e |-> IF step[t] % 3 = 1 THEN 1 ELSE 0, rs |-> Item(t).rs,
              n |-> Item(t).nibbles[1 + step[t] \div 3]]
  /\ IF pins.e = 1 /\ pins'.e = 0
       THEN \E p \in {pins, pins'} : ctrl' \in Latched(ctrl, p.rs, p.n)
       ELSE ctrl' = ctrl
  /\ UNCHANGED <<stage, mutex, buf, script, kills, interrupts, refused>>

Leave(t) ==
  /\ Busy(t) /\ step[t] = Writes(t)
  /\ mutex' = Released(mutex, t)
  /\ script' = [script EXCEPT ![t] = Tail(@)]
  /\ step' = [step EXCEPT ![t] = -1]
  /\ UNCHANGED <<stage, buf, pins, ctrl, kills, interrupts, refused>>

\* The display has finished before the driver wakes up.
SleepOver(t) ==
  /\ Busy(t) /\ Item(t).do = "sleep" /\ ~ctrl.sleeping
  /\ script' = [script EXCEPT ![t] = Tail(@)]
  /\ UNCHANGED <<stage, mutex, buf, step, pins, ctrl, kills, interrupts, refused>>

-----------------------------------------------------------------------------
\* lcd_task.

Starts(s, new) == stage' = new /\ script' = [script EXCEPT ![Daemon] = s]

\* lcd_init.
Start ==
  /\ stage = "down" /\ mutex' = Free
  /\ Starts(LcdInit, "init")
  /\ refused' = FALSE
  /\ UNCHANGED <<buf, step, pins, ctrl, kills, interrupts>>

\* lcd_on, lcd_clear and the banner.
Greet ==
  /\ stage = "init" /\ ~Busy(Daemon)
  /\ buf' = Banner
  /\ Starts(<<LCD_ON>> \o Clear \o LcdPrint(String(Banner)), "greet")
  /\ UNCHANGED <<mutex, step, pins, ctrl, kills, interrupts, refused>>

\* rt_pipe_read puts a message over the start of the buffer.
Read ==
  /\ stage \in {"greet", "serve"} /\ ~Busy(Daemon)
  /\ \E s \in Messages :
       /\ buf' = s \o SubSeq(buf, Len(s) + 1, Len(buf))
       /\ Starts(LcdPrint(String(buf')), "serve")
  /\ refused' = FALSE
  /\ UNCHANGED <<mutex, step, pins, ctrl, kills, interrupts>>

\* lcd_clean, which nobody else may be using the display for.
Clean ==
  /\ stage \in {"greet", "serve"} /\ \A t \in Task : ~Busy(t)
  /\ Starts(Clear, "clean")
  /\ UNCHANGED <<mutex, buf, step, pins, ctrl, kills, interrupts, refused>>

Cleaned ==
  /\ stage = "clean" /\ ~Busy(Daemon)
  /\ stage' = "down"
  /\ UNCHANGED <<mutex, buf, script, step, pins, ctrl, kills, interrupts, refused>>

\* lcd_on or lcd_off by another task.
Switch(t) ==
  /\ t # Daemon /\ stage = "serve" /\ ~Busy(t)
  /\ \E b \in {LCD_ON, LCD_OFF} : script' = [script EXCEPT ![t] = <<b>>]
  /\ UNCHANGED <<stage, mutex, buf, step, pins, ctrl, kills, interrupts, refused>>

\* clean_exit, or any other death of the process.
Kill ==
  /\ stage # "down" /\ kills < MaxKills
  /\ kills' = kills + 1
  /\ stage' = "down"
  /\ script' = [t \in Task |-> <<>>] /\ step' = [t \in Task |-> -1]
  /\ UNCHANGED <<mutex, buf, pins, ctrl, interrupts, refused>>

Next ==
  \/ Wake \/ Start \/ Greet \/ Read \/ Clean \/ Cleaned \/ Kill
  \/ \E t \in Task :
       \/ Enter(t) \/ EnterInterrupted(t) \/ Write(t) \/ Leave(t)
       \/ SleepOver(t) \/ Switch(t)

Spec == Init /\ [][Next]_vars

-----------------------------------------------------------------------------
TypeOK ==
  /\ stage \in {"down", "init", "greet", "serve", "clean"}
  /\ mutex \in Mutexes
  /\ buf \in Seq(Char \cup {NUL}) /\ Len(buf) <= BufLen
  /\ \A t \in Task : step[t] \in -1..6 /\ (Busy(t) => step[t] <= Writes(t))
  /\ pins \in [e : {0, 1}, rs : {0, 1}, n : 0..15]
  /\ ctrl.at \in 0..Nowhere /\ ctrl.cells \in [1..2 * Width -> (0..15) \X (0..15)]
  /\ kills \in 0..MaxKills /\ interrupts \in 0..MaxInterrupts /\ refused \in BOOLEAN

\* Once lcd_init is over the display reads four wires and waits for the first
\* nibble of a byte whenever no byte is being sent, whatever the last process was
\* doing when it was killed.
Aligned ==
  stage \in {"greet", "serve", "clean"} /\ mutex = Free =>
    ~ctrl.wide /\ ctrl.first = <<>> /\ pins.e = 0

\* A byte that has been sent is the byte the display was told, though several tasks
\* send at once.
WholeBytes ==
  \A t \in Task :
    stage \in {"greet", "serve"} /\ Busy(t) /\ Item(t).do = "byte" /\ step[t] = 6 =>
      ctrl.last = Item(t)

\* A message that was printed with no byte refused stands on the display, its first
\* Width characters on the first line and the next on the second.
Displayed ==
  stage = "serve" /\ ~Busy(Daemon) /\ ~refused =>
    \A i \in 1..2 * Width :
      i <= Len(String(buf)) => ctrl.cells[i] = String(buf)[i]
=============================================================================
