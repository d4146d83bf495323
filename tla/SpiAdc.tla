------------------------------- MODULE SpiAdc --------------------------------
(***************************************************************************)
(* src/max1231adc.c over src/xspidev.c: a MAX1231 converter on a spidev    *)
(* file.  adc_read asks for conversions in one SPI transfer and takes them *)
(* out of the FIFO of the chip in another, both under adc->mutex.  Under   *)
(* the SPI mutex a task makes one system call only, so a transfer with its *)
(* acquire and release is one step.                                        *)
(*                                                                         *)
(* The chip is external: a conversion byte converts the temperature first  *)
(* when its bit is set, then its channel or channels, and appends every    *)
(* result to the FIFO; a read takes results from its head and gives zeros  *)
(* once it is empty.                                                       *)
(***************************************************************************)
EXTENDS RtMutex, Sequences

CONSTANTS Top,        \* the highest channel the tasks use, at most 15
          Capacity,   \* results the FIFO holds
          MaxFiles    \* bound on the descriptors opened: none is ever closed

ASSUME AdcAssumption == Top \in 0..15 /\ Capacity \in Nat \ {0} /\ MaxFiles \in Nat

VARIABLES
  stage,    \* "absent", "spi" once spi_init returned, "ready" with the ADC
  files,    \* descriptors of the spidev file that are open
  trigger,  \* what starts a conversion: the conversion "byte" or the CNVST "pin"
  fifo,     \* results of the chip not read yet
  mutex,    \* adc->mutex
  pc, op,   \* per task, where it stands and the call it makes
  dest,     \* per task, the results it has read
  dropped,  \* history, per task: a transfer of its call failed and was forgotten
  virgin,   \* history, per task: its call began on an empty FIFO, with conversions
            \* started by the byte
  exact     \* history: nothing since the last reset can have left a result behind

driver == <<stage, files>>
chip   == <<trigger, fifo>>
vars   == <<driver, chip, mutex, pc, op, dest, dropped, virgin, exact>>

Temperature == 16

Calls == [kind : {"one"}, n : (0..Top) \cup {Temperature}]
         \cup [kind : {"scan"}, n : 0..Top]
         \cup [kind : {"reset", "reset_fifo", "single_ended"}]

NoCall == [kind |-> "none"]

Reads(c) == c.kind \in {"one", "scan"}

\* A result: who asked for it and its channel.  NoTask asked for what an earlier
\* call left behind.
Results == [by : Task \cup {NoTask}, ch : (0..Top) \cup {Temperature}]

\* What the chip gives when the FIFO is empty; what adc_read had before it read.
Zeros == [by |-> NoTask, ch |-> 0]

\* The channels a conversion byte converts.  The number of the temperature does
\* not fit the channel field of the byte: it names channel 0 there.
Converts(c) ==
  IF c.kind = "scan" THEN [i \in 1..c.n + 1 |-> i - 1]
  ELSE IF c.n = Temperature THEN <<Temperature, 0>> ELSE <<c.n>>

\* Mutant of Count: the length of a scan forgets that channel 0 counts.
CountShort(c) == IF c.kind = "scan" THEN c.n ELSE 1

\* How many results a read takes, two bytes each.
Count(c) == IF c.kind = "scan" THEN c.n + 1 ELSE 1

Init ==
  /\ stage = "absent" /\ files = 0
  /\ trigger = "byte" /\ fifo = <<>>
  /\ mutex = Free
  /\ pc = [t \in Task |-> "idle"]
  /\ op = [t \in Task |-> NoCall]
  /\ dest = [t \in Task |-> <<>>]
  /\ dropped = [t \in Task |-> FALSE]
  /\ virgin = [t \in Task |-> FALSE]
  /\ exact = TRUE

Quiet == \A t \in Task : pc[t] = "idle"

-----------------------------------------------------------------------------
\* Start and stop, while no task is in a call.

\* Mutant of SpiInit: the second open is not checked either.
SpiInitUnchecked ==
  /\ stage = "absent"
  /\ \E first, second \in 0..1, configured \in BOOLEAN :
       /\ files' = files + first + second /\ files' <= MaxFiles
       /\ stage' = IF configured THEN "spi" ELSE "absent"
  /\ UNCHANGED <<chip, mutex, pc, op, dest, dropped, virgin, exact>>

\* spi_init opens the file, looking only for descriptor 0, and spi_set_config
\* opens it again, which is checked; then come six ioctls that may fail.
SpiInit ==
  /\ stage = "absent"
  /\ \E first, second \in 0..1, configured \in BOOLEAN :
       /\ files' = files + first + second /\ files' <= MaxFiles
       /\ stage' = IF second = 1 /\ configured THEN "spi" ELSE "absent"
  /\ UNCHANGED <<chip, mutex, pc, op, dest, dropped, virgin, exact>>

\* max1231_init; when it cannot create the mutex it returns the error.
AdcInit ==
  /\ stage = "spi"
  /\ stage' \in {"spi", "ready"} /\ mutex' = Free
  /\ UNCHANGED <<files, chip, pc, op, dest, dropped, virgin, exact>>

\* spi_full_transfer under the SPI mutex: the bytes reach the chip, or they do not.
\* Its result is compared with 1, which is neither that of a failure nor the number
\* of bytes: it returns 0 either way.
FullTransfer(setting) == trigger' \in {trigger, setting}

\* max1231_config, which does not take adc->mutex, sends two setup bytes with the
\* clock of the structure, which nothing sets: 0, conversions started by the pin.
Configure ==
  /\ stage = "ready" /\ Quiet
  /\ FullTransfer("pin")
  /\ UNCHANGED <<driver, fifo, mutex, pc, op, dest, dropped, virgin, exact>>

\* max1231_clean when the ADC is there, then spi_clean, which deletes the mutex of
\* the SPI device and closes no file.
CleanAll ==
  /\ stage # "absent" /\ Quiet
  /\ stage' = "absent"
  /\ UNCHANGED <<files, chip, mutex, pc, op, dest, dropped, virgin, exact>>

-----------------------------------------------------------------------------
Goto(t, label) == pc' = [pc EXCEPT ![t] = label]

Call(t, c) ==
  /\ pc[t] = "idle" /\ stage = "ready"
  /\ op' = [op EXCEPT ![t] = c]
  /\ Goto(t, "enter")
  /\ UNCHANGED <<driver, chip, mutex, dest, dropped, virgin, exact>>

Begin(t) ==
  /\ Goto(t, IF Reads(op[t]) THEN "ask" ELSE "send")
  /\ virgin' = [virgin EXCEPT ![t] = fifo = <<>> /\ trigger = "byte"]
  /\ UNCHANGED <<driver, chip, op, dest, dropped, exact>>

\* Mutant of Enter: adc_read leaves the locking to the SPI transfers.
EnterUnlocked(t) ==
  /\ pc[t] = "enter" /\ Begin(t)
  /\ UNCHANGED mutex

Enter(t) ==
  /\ pc[t] = "enter" /\ CanAcquire(mutex, t)
  /\ mutex' = Acquired(mutex, t)
  /\ Begin(t)

\* The chip appends the results; of too many it keeps the last.
Appended(t) ==
  LET all == fifo \o [i \in DOMAIN Converts(op[t]) |->
                        [by |-> t, ch |-> Converts(op[t])[i]]]
  IN SubSeq(all, IF Len(all) > Capacity THEN Len(all) - Capacity + 1 ELSE 1, Len(all))

\* The conversion byte goes out, and is waited for, or the transfer fails.  The release
\* of the SPI mutex stores its own 0 over the error: nobody is told.
Ask(t) ==
  /\ pc[t] = "ask"
  /\ \/ /\ fifo' = IF trigger = "byte" THEN Appended(t) ELSE fifo
        /\ dropped' = dropped
     \/ dropped' = [dropped EXCEPT ![t] = TRUE] /\ fifo' = fifo
  /\ exact' = (exact /\ trigger = "byte" /\ ~dropped'[t] /\ op[t].n # Temperature)
  /\ Goto(t, "take")
  /\ UNCHANGED <<driver, trigger, mutex, op, dest, virgin>>

\* The read is made whatever became of the write; one that fails, as silently, leaves
\* the buffer of the caller as it was.
Take(t) ==
  /\ pc[t] = "take"
  /\ \/ /\ dest' = [dest EXCEPT ![t] =
             [i \in 1..Count(op[t]) |-> IF i <= Len(fifo) THEN fifo[i] ELSE Zeros]]
        /\ fifo' = SubSeq(fifo, Count(op[t]) + 1, Len(fifo))
        /\ UNCHANGED <<dropped, exact>>
     \/ /\ dropped' = [dropped EXCEPT ![t] = TRUE]
        /\ exact' = FALSE
        /\ UNCHANGED <<dest, fifo>>
  /\ Goto(t, "leave")
  /\ UNCHANGED <<driver, trigger, mutex, op, virgin>>

\* adc_ll_write8: a reset empties the FIFO, of everything or only of results; the
\* setup of single-ended inputs and the full reset start conversions by the byte.  A
\* write that fails is reported no more than in adc_read.
Send(t) ==
  /\ pc[t] = "send"
  /\ \/ /\ dropped' = dropped
        /\ trigger' = IF op[t].kind = "reset_fifo" THEN trigger ELSE "byte"
        /\ fifo' = IF op[t].kind = "single_ended" THEN fifo ELSE <<>>
        /\ exact' = (exact \/ op[t].kind # "single_ended")
     \/ dropped' = [dropped EXCEPT ![t] = TRUE] /\ UNCHANGED <<chip, exact>>
  /\ Goto(t, "leave")
  /\ UNCHANGED <<driver, mutex, op, dest, virgin>>

Leave(t) ==
  /\ pc[t] = "leave"
  /\ mutex' = Released(mutex, t)
  /\ Goto(t, "return")
  /\ UNCHANGED <<driver, chip, op, dest, dropped, virgin, exact>>

\* 0, even when a transfer failed: the releases have overwritten the errors the code
\* tests.  What the call left in the FIFO is nobody's now.
Return(t) ==
  /\ pc[t] = "return"
  /\ Goto(t, "idle")
  /\ op' = [op EXCEPT ![t] = NoCall]
  /\ dest' = [dest EXCEPT ![t] = <<>>]
  /\ dropped' = [dropped EXCEPT ![t] = FALSE]
  /\ virgin' = [virgin EXCEPT ![t] = FALSE]
  /\ fifo' = [i \in DOMAIN fifo |->
                IF fifo[i].by = t THEN [fifo[i] EXCEPT !.by = NoTask] ELSE fifo[i]]
  /\ UNCHANGED <<driver, trigger, mutex, exact>>

Lifecycle == SpiInit \/ AdcInit \/ Configure \/ CleanAll

Step(t) ==
  \/ \E c \in Calls : Call(t, c)
  \/ Enter(t) \/ Ask(t) \/ Take(t) \/ Send(t) \/ Leave(t) \/ Return(t)

Next == Lifecycle \/ \E t \in Task : Step(t)

Spec == Init /\ [][Next]_vars

-----------------------------------------------------------------------------
InsideLabels == {"ask", "take", "send", "leave"}

TypeOK ==
  /\ stage \in {"absent", "spi", "ready"} /\ files \in 0..MaxFiles
  /\ trigger \in {"byte", "pin"}
  /\ fifo \in Seq(Results) /\ Len(fifo) <= Capacity
  /\ mutex \in Mutexes
  /\ pc \in [Task -> InsideLabels \cup {"idle", "enter", "return"}]
  /\ op \in [Task -> Calls \cup {NoCall}]
  /\ dest \in [Task -> Seq(Results)]
  /\ dropped \in [Task -> BOOLEAN] /\ virgin \in [Task -> BOOLEAN]
  /\ exact \in BOOLEAN
  /\ stage # "absent" => files > 0

Asked(t) == [i \in 1..Count(op[t]) |-> [by |-> t, ch |-> Converts(op[t])[i]]]

\* adc_read is one transaction.  A read that began on an empty FIFO, and it returns 0
\* whatever happened, gives no result another task asked for or an earlier call left,
\* even when a transfer failed; when none did, and its conversions fit in the FIFO, it
\* gives those it asked for, channel by channel.
OwnConversions ==
  \A t \in Task : pc[t] = "return" /\ Reads(op[t]) /\ virgin[t] =>
    /\ \A i \in DOMAIN dest[t] : dest[t][i].by = t \/ dest[t][i] = Zeros
    /\ ~dropped[t] /\ Len(Converts(op[t])) <= Capacity => dest[t] = Asked(t)

\* As long as no transfer fails, nobody asks for the temperature and conversions
\* are started by the byte, every read empties the FIFO it has filled: the reads
\* stay aligned without any reset.
Aligned ==
  exact /\ (\A t \in Task : pc[t] \notin InsideLabels) => fifo = <<>>

===========================================================================
