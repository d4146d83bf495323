---------------------------- MODULE SpiAdcProofs -----------------------------
(***************************************************************************)
(* Proofs about SpiAdc, for any tasks, channels and size of the FIFO.      *)
(***************************************************************************)
EXTENDS SpiAdc, SequenceTheorems, TLAPS

USE TaskAssumption, AdcAssumption

-----------------------------------------------------------------------------
Inside(t) == pc[t] \in InsideLabels

\* The owner of adc->mutex is the one task inside adc_read or adc_ll_write8.
LockInv ==
  /\ mutex = Free \/ (mutex.owner \in Task /\ Inside(mutex.owner))
  /\ \A t \in Task : Inside(t) => mutex = [owner |-> t, depth |-> 1]

\* A task is in a call only while the ADC is there, and where its call takes it.
CallInv ==
  \A t \in Task :
    pc[t] # "idle" =>
      /\ stage = "ready" /\ op[t] \in Calls
      /\ pc[t] \in {"ask", "take"} => Reads(op[t])
      /\ pc[t] = "send" => ~Reads(op[t])

\* What the chip gives for the conversion byte of a task.
Produced(t) ==
  [i \in DOMAIN Converts(op[t]) |-> [by |-> t, ch |-> Converts(op[t])[i]]]

Fits(t) == Len(Converts(op[t])) <= Capacity

\* Only results of a task are in the FIFO; what it has read is its own, or zeros.
OnlyOf(t) == \A i \in 1..Len(fifo) : fifo[i].by = t
Honest(t) == \A i \in DOMAIN dest[t] : dest[t][i].by = t \/ dest[t][i] = Zeros

\* Between its two transfers a read has the FIFO for itself.
Own(t) ==
  virgin[t] =>
    /\ pc[t] = "ask" => fifo = <<>> /\ trigger = "byte"
    /\ pc[t] = "take" => OnlyOf(t)
    /\ pc[t] = "take" /\ ~dropped[t] /\ Fits(t) => fifo = Produced(t)
    /\ pc[t] \in {"leave", "return"} /\ Reads(op[t]) /\ ~dropped[t] /\ Fits(t) =>
         dest[t] = Asked(t)
    /\ Honest(t)

OwnInv ==
  \A t \in Task :
    /\ pc[t] \notin {"leave", "return"} => dest[t] = <<>>
    /\ Own(t)

\* The FIFO holds no more than the read under way takes.
FifoInv ==
  exact =>
    /\ (\A t \in Task : pc[t] # "take") => fifo = <<>>
    /\ \A t \in Task : pc[t] = "take" => Len(fifo) <= Count(op[t])

IInv ==
  TypeOK /\ LockInv /\ CallInv /\ OwnInv /\ FifoInv

-----------------------------------------------------------------------------
(***************************************************************************)
(* What a call converts and takes, as sequences.                           *)
(***************************************************************************)
Channels == (0..Top) \cup {Temperature}

\* How many results a conversion byte appends to the FIFO.
Number(c) ==
  IF c.kind = "scan" THEN c.n + 1 ELSE IF c.n = Temperature THEN 2 ELSE 1

LEMMA Labelling == InsideLabels = {"ask", "take", "send", "leave"}
BY DEF InsideLabels

LEMMA CallType ==
  ASSUME NEW c \in Calls
  PROVE  /\ c.kind \in {"one", "scan", "reset", "reset_fifo", "single_ended"}
         /\ Reads(c) => c.n \in Channels /\ (c.kind = "scan" => c.n \in 0..Top)
         /\ ~Reads(c) => c.kind \in {"reset", "reset_fifo", "single_ended"}
BY DEF Calls, Reads, Channels

\* Acquiring and releasing give mutexes; the mutex held once is freed.
LEMMA MutexType ==
  ASSUME NEW m \in Mutexes, NEW t \in Task
  PROVE  /\ Acquired(m, t) \in Mutexes /\ Released(m, t) \in Mutexes
         /\ m = [owner |-> t, depth |-> 1] => m # Free /\ Released(m, t) = Free
         /\ m = Free => Acquired(m, t) = [owner |-> t, depth |-> 1]
BY DEF Mutexes, Acquired, Released, Free

\* A function on 1..n is a sequence of length n.
LEMMA Listed ==
  ASSUME NEW S, NEW n \in Nat, NEW f \in [1..n -> S]
  PROVE  f \in Seq(S) /\ Len(f) = n
<1>1. f \in Seq(S)
  BY SeqDef
<1>2. Len(f) \in Nat /\ 1..n = 1..Len(f)
  BY <1>1, LenProperties
<1>3. QED
  BY <1>1, <1>2

\* A read takes at least one result and at most those it has converted, all of
\* them unless it is one of the temperature.
LEMMA Conversions ==
  ASSUME NEW c \in Calls, Reads(c)
  PROVE  /\ Number(c) \in Nat /\ Count(c) \in Nat
         /\ Count(c) <= Number(c) /\ (c.n # Temperature => Count(c) = Number(c))
         /\ Converts(c) \in [1..Number(c) -> Channels]
         /\ Len(Converts(c)) = Number(c)
<1>1. /\ Number(c) \in Nat /\ Count(c) \in Nat
      /\ Count(c) <= Number(c) /\ (c.n # Temperature => Count(c) = Number(c))
  BY CallType DEF Number, Count, Reads, Channels, Temperature
<1>2. Converts(c) \in [1..Number(c) -> Channels]
  <2>1. CASE c.kind = "scan"
    <3>1. c.n \in 0..Top
      BY <2>1, CallType
    <3>2. [i \in 1..c.n + 1 |-> i - 1] \in [1..c.n + 1 -> Channels]
      BY <3>1 DEF Channels
    <3>3. QED
      BY <2>1, <3>2 DEF Number, Converts
  <2>2. CASE c.kind # "scan" /\ c.n = Temperature
    <3>1. <<Temperature, 0>> \in [1..2 -> Channels]
      BY DEF Channels
    <3>2. QED
      BY <2>2, <3>1 DEF Number, Converts
  <2>3. CASE c.kind # "scan" /\ c.n # Temperature
    <3>1. <<c.n>> \in [1..1 -> Channels]
      BY CallType
    <3>2. QED
      BY <2>3, <3>1 DEF Number, Converts
  <2>4. QED
    BY <2>1, <2>2, <2>3
<1>3. QED
  BY <1>1, <1>2, Listed

\* The results it asks for, and those it takes.
LEMMA Products ==
  ASSUME NEW t \in Task, op[t] \in Calls, Reads(op[t])
  PROVE  /\ Produced(t) \in Seq(Results) /\ Len(Produced(t)) = Number(op[t])
         /\ \A i \in 1..Number(op[t]) :
              Produced(t)[i] = [by |-> t, ch |-> Converts(op[t])[i]]
<1>1. Converts(op[t]) \in [1..Number(op[t]) -> Channels] /\ Number(op[t]) \in Nat
  BY Conversions
<1>2. Produced(t) = [i \in 1..Number(op[t]) |-> [by |-> t, ch |-> Converts(op[t])[i]]]
  BY <1>1 DEF Produced
<1>3. Produced(t) \in [1..Number(op[t]) -> Results]
  BY <1>1, <1>2 DEF Results, Channels
<1>4. QED
  BY <1>1, <1>2, <1>3, Listed

\* The FIFO keeps the last results that fit; one that was empty holds those of the
\* call, all of them if they fit.
LEMMA Appending ==
  ASSUME NEW t \in Task, op[t] \in Calls, Reads(op[t]), fifo \in Seq(Results)
  PROVE  /\ Appended(t) \in Seq(Results) /\ Len(Appended(t)) <= Capacity
         /\ fifo = <<>> => Len(Appended(t)) <= Number(op[t])
         /\ fifo = <<>> /\ Number(op[t]) <= Capacity => Appended(t) = Produced(t)
         /\ fifo = <<>> => \A i \in 1..Len(Appended(t)) : Appended(t)[i].by = t
<1> DEFINE all == fifo \o Produced(t)
           first == IF Len(all) > Capacity THEN Len(all) - Capacity + 1 ELSE 1
<1>1. Appended(t) = SubSeq(all, first, Len(all))
  BY DEF Appended, Produced
<1>2. all \in Seq(Results) /\ (fifo = <<>> => all = Produced(t))
  BY Products, ConcatProperties, ConcatEmptySeq
<1>3. Len(all) \in Nat /\ \A i \in 1..Len(all) : all[i] \in Results
  BY <1>2, LenProperties, ElementOfSeq
<1> HIDE DEF all
<1>4. first \in Int /\ first >= 1
  BY <1>3
<1>5. /\ SubSeq(all, first, Len(all)) \in Seq(Results)
      /\ Len(SubSeq(all, first, Len(all))) =
           IF first <= Len(all) THEN Len(all) - first + 1 ELSE 0
  BY <1>3, <1>4, SubSeqProperties
<1>6. Len(Appended(t)) <= Capacity /\ Len(Appended(t)) <= Len(all)
  BY <1>1, <1>3, <1>5
<1>7. ASSUME fifo = <<>>, Number(op[t]) <= Capacity PROVE Appended(t) = Produced(t)
  <2>1. all = Produced(t) /\ Len(all) = Number(op[t])
    BY <1>2, <1>7, Products
  <2>2. first = 1
    BY <1>3, <1>7, <2>1
  <2>3. QED
    BY <1>1, <1>2, <2>1, <2>2, SubSeqFull
<1>8. ASSUME fifo = <<>>, NEW i \in 1..Len(Appended(t)) PROVE Appended(t)[i].by = t
  <2>1. all = Produced(t) /\ Len(all) = Number(op[t])
    BY <1>2, <1>8, Products
  <2>2. i \in 1..(Len(all) - first + 1) /\ first + i - 1 \in 1..Len(all)
    BY <1>1, <1>3, <1>4, <1>5
  <2>3. Appended(t)[i] = all[first + i - 1]
    BY <1>1, <1>3, <1>4, <2>2, SubSeqProperties
  <2>4. all[first + i - 1] = [by |-> t, ch |-> Converts(op[t])[first + i - 1]]
    BY <2>1, <2>2, Products
  <2>5. QED
    BY <2>3, <2>4
<1>9. QED
  BY <1>1, <1>2, <1>5, <1>6, <1>7, <1>8, Products

\* What a read gives, and what it leaves in the FIFO.
Taken(t) == [i \in 1..Count(op[t]) |-> IF i <= Len(fifo) THEN fifo[i] ELSE Zeros]
Rest(t) == SubSeq(fifo, Count(op[t]) + 1, Len(fifo))

LEMMA Taking ==
  ASSUME NEW t \in Task, op[t] \in Calls, Reads(op[t]), fifo \in Seq(Results)
  PROVE  /\ Taken(t) \in Seq(Results)
         /\ fifo = Produced(t) => Taken(t) = Asked(t)
         /\ OnlyOf(t) => \A i \in DOMAIN Taken(t) :
                           Taken(t)[i].by = t \/ Taken(t)[i] = Zeros
         /\ Rest(t) \in Seq(Results) /\ Len(Rest(t)) <= Len(fifo)
         /\ Len(fifo) <= Count(op[t]) => Rest(t) = <<>>
<1>1. /\ Count(op[t]) \in Nat /\ Number(op[t]) \in Nat /\ Count(op[t]) <= Number(op[t])
  BY Conversions
<1>2. Len(fifo) \in Nat /\ \A i \in 1..Len(fifo) : fifo[i] \in Results
  BY LenProperties, ElementOfSeq
<1>3. Zeros \in Results
  BY DEF Zeros, Results
<1>4. Taken(t) \in Seq(Results)
  <2>1. Taken(t) \in [1..Count(op[t]) -> Results]
    BY <1>1, <1>2, <1>3 DEF Taken
  <2>2. QED
    BY <1>1, <2>1, Listed
<1>5. ASSUME fifo = Produced(t) PROVE Taken(t) = Asked(t)
  <2>1. \A i \in 1..Count(op[t]) :
          i <= Len(fifo) /\ fifo[i] = [by |-> t, ch |-> Converts(op[t])[i]]
    BY <1>1, <1>5, Products
  <2>2. QED
    BY <2>1 DEF Taken, Asked
<1>6. \A i \in (Count(op[t]) + 1)..Len(fifo) : fifo[i] \in Results
  BY <1>1, <1>2
<1>7. /\ Rest(t) \in Seq(Results)
      /\ Len(Rest(t)) = IF Count(op[t]) + 1 <= Len(fifo)
                          THEN Len(fifo) - (Count(op[t]) + 1) + 1 ELSE 0
  BY <1>1, <1>2, <1>6, SubSeqProperties DEF Rest
<1>8. Len(fifo) <= Count(op[t]) => Rest(t) = <<>>
  BY <1>1, <1>2, SubSeqEmpty DEF Rest
<1>9. ASSUME OnlyOf(t), NEW i \in DOMAIN Taken(t)
      PROVE  Taken(t)[i].by = t \/ Taken(t)[i] = Zeros
  <2>1. /\ i \in 1..Count(op[t])
        /\ Taken(t)[i] = IF i <= Len(fifo) THEN fifo[i] ELSE Zeros
    BY <1>9 DEF Taken
  <2>2. i <= Len(fifo) => fifo[i].by = t
    BY <1>1, <1>2, <1>9, <2>1 DEF OnlyOf
  <2>3. QED
    BY <2>1, <2>2
<1>10. QED
  BY <1>1, <1>2, <1>4, <1>5, <1>7, <1>8, <1>9

\* What a call leaves behind is nobody's.
Disowned(t) ==
  [i \in DOMAIN fifo |-> IF fifo[i].by = t THEN [fifo[i] EXCEPT !.by = NoTask] ELSE fifo[i]]

LEMMA Disowning ==
  ASSUME NEW t \in Task, fifo \in Seq(Results)
  PROVE  /\ Disowned(t) \in Seq(Results) /\ Len(Disowned(t)) = Len(fifo)
         /\ (\A i \in 1..Len(fifo) : fifo[i].by # t) => Disowned(t) = fifo
<1>1. /\ Len(fifo) \in Nat /\ DOMAIN fifo = 1..Len(fifo)
      /\ fifo \in [1..Len(fifo) -> Results]
  BY LenProperties
<1>2. \A r \in Results : [r EXCEPT !.by = NoTask] \in Results
  BY DEF Results
<1>3. Disowned(t) \in [1..Len(fifo) -> Results]
  BY <1>1, <1>2 DEF Disowned
<1>4. (\A i \in 1..Len(fifo) : fifo[i].by # t) => Disowned(t) = fifo
  BY <1>1 DEF Disowned
<1>5. QED
  BY <1>1, <1>3, <1>4, Listed

\* Steps outside the calls leave those alone, and touch the chip and the mutex only
\* while there is none.
LEMMA Outside ==
  ASSUME CallInv, Lifecycle \/ UNCHANGED vars
  PROVE  /\ UNCHANGED <<pc, op, dest, dropped, virgin, exact, fifo>>
         /\ UNCHANGED <<stage, trigger, mutex>> \/ (Quiet /\ mutex' \in {mutex, Free})
BY DEF Lifecycle, SpiInit, AdcInit, Configure, CleanAll, vars, driver, chip, Quiet, CallInv

\* A step of a task leaves the others alone.
LEMMA Frame ==
  ASSUME TypeOK, NEW t \in Task, Step(t)
  PROVE  /\ \A u \in Task : u # t =>
              UNCHANGED <<pc[u], op[u], dest[u], dropped[u], virgin[u]>>
         /\ stage' = stage /\ files' = files
<1>typ. /\ pc \in [Task -> InsideLabels \cup {"idle", "enter", "return"}]
        /\ op \in [Task -> Calls \cup {NoCall}] /\ dest \in [Task -> Seq(Results)]
        /\ dropped \in [Task -> BOOLEAN] /\ virgin \in [Task -> BOOLEAN]
  BY DEF TypeOK
<1> USE DEF Step, Call, Enter, Begin, Ask, Take, Send, Leave, Return, Goto
<1>1. stage' = stage /\ files' = files
  BY DEF driver
<1>2. \A u \in Task : u # t => pc'[u] = pc[u]
  BY <1>typ
<1>3. \A u \in Task : u # t => op'[u] = op[u]
  BY <1>typ
<1>4. \A u \in Task : u # t => dest'[u] = dest[u]
  BY <1>typ
<1>5. \A u \in Task : u # t => dropped'[u] = dropped[u]
  BY <1>typ
<1>6. \A u \in Task : u # t => virgin'[u] = virgin[u]
  BY <1>typ
<1>7. QED
  BY <1>1, <1>2, <1>3, <1>4, <1>5, <1>6

\* No two tasks are inside.
LEMMA Alone ==
  ASSUME LockInv, NEW t \in Task, NEW u \in Task, Inside(t), Inside(u)
  PROVE  t = u
<1>1. mutex = [owner |-> t, depth |-> 1] /\ mutex = [owner |-> u, depth |-> 1]
  BY DEF LockInv
<1>2. QED
  BY <1>1

\* Nobody is inside when a task enters.
LEMMA Entering ==
  ASSUME LockInv, NEW t \in Task, Enter(t)
  PROVE  mutex = Free /\ \A u \in Task : ~Inside(u)
<1>1. ~Inside(t)
  BY DEF Enter, Inside, InsideLabels
<1>2. mutex = Free
  BY <1>1 DEF Enter, CanAcquire, LockInv
<1>3. ASSUME NEW u \in Task, Inside(u) PROVE FALSE
  <2>1. mutex = [owner |-> u, depth |-> 1]
    BY <1>3 DEF LockInv
  <2>2. QED
    BY <1>2, <2>1 DEF Free
<1>4. QED
  BY <1>2, <1>3

-----------------------------------------------------------------------------
\* Every step keeps the types.
LEMMA TypeStep ==
  ASSUME IInv, [Next]_vars
  PROVE  TypeOK'
<1>typ. /\ stage \in {"absent", "spi", "ready"} /\ files \in 0..MaxFiles
        /\ trigger \in {"byte", "pin"} /\ fifo \in Seq(Results)
        /\ Len(fifo) <= Capacity /\ mutex \in Mutexes
        /\ pc \in [Task -> InsideLabels \cup {"idle", "enter", "return"}]
        /\ op \in [Task -> Calls \cup {NoCall}] /\ dest \in [Task -> Seq(Results)]
        /\ dropped \in [Task -> BOOLEAN] /\ virgin \in [Task -> BOOLEAN]
        /\ exact \in BOOLEAN /\ (stage # "absent" => files > 0)
  BY DEF IInv, TypeOK
<1>inv. CallInv
  BY DEF IInv
<1>empty. <<>> \in Seq(Results) /\ Len(<<>>) <= Capacity
  BY EmptySeq
<1>1. CASE Lifecycle \/ UNCHANGED vars
  <2>1. UNCHANGED <<pc, op, dest, dropped, virgin, exact, fifo>>
    BY <1>1, <1>inv, Outside
  <2>2. mutex' \in Mutexes
    BY <1>1, <1>typ, <1>inv, Outside DEF Free, Mutexes
  <2>3. trigger' \in {"byte", "pin"}
    BY <1>1, <1>typ DEF Lifecycle, SpiInit, AdcInit, Configure, CleanAll, FullTransfer,
       vars, chip
  <2>4. /\ stage' \in {"absent", "spi", "ready"} /\ files' \in 0..MaxFiles
        /\ stage' # "absent" => files' > 0
    <3>1. CASE SpiInit
      BY <3>1, <1>typ DEF SpiInit
    <3>2. CASE ~SpiInit
      BY <1>1, <3>2, <1>typ DEF Lifecycle, AdcInit, Configure, CleanAll, vars, driver
    <3>3. QED
      BY <3>1, <3>2
  <2>5. QED
    BY <1>typ, <2>1, <2>2, <2>3, <2>4 DEF TypeOK
<1>2. ASSUME NEW t \in Task, Step(t) PROVE TypeOK'
  <2> USE DEF Step, Goto
  <2>1. /\ stage' \in {"absent", "spi", "ready"} /\ files' \in 0..MaxFiles
        /\ stage' # "absent" => files' > 0
    BY <1>2, <1>typ, Frame DEF IInv
  <2>2. mutex' \in Mutexes
    <3>1. \/ mutex' = mutex \/ mutex' = Acquired(mutex, t) \/ mutex' = Released(mutex, t)
      BY <1>2 DEF Call, Enter, Ask, Take, Send, Leave, Return
    <3>2. QED
      BY <3>1, <1>typ, MutexType
  <2>3. pc' \in [Task -> InsideLabels \cup {"idle", "enter", "return"}]
    <3>1. \E l \in InsideLabels \cup {"idle", "enter", "return"} :
            pc' = [pc EXCEPT ![t] = l]
      BY <1>2, Labelling DEF Call, Enter, Begin, Ask, Take, Send, Leave, Return
    <3>2. QED
      BY <3>1, <1>typ
  <2>4. op' \in [Task -> Calls \cup {NoCall}]
    BY <1>2, <1>typ DEF Call, Enter, Begin, Ask, Take, Send, Leave, Return
  <2>5. dropped' \in [Task -> BOOLEAN]
    BY <1>2, <1>typ DEF Call, Enter, Begin, Ask, Take, Send, Leave, Return
  <2>6. virgin' \in [Task -> BOOLEAN]
    <3>1. UNCHANGED virgin \/ \E f \in BOOLEAN : virgin' = [virgin EXCEPT ![t] = f]
      BY <1>2 DEF Call, Enter, Begin, Ask, Take, Send, Leave, Return
    <3>2. QED
      BY <3>1, <1>typ
  <2>7. exact' \in BOOLEAN
    BY <1>2, <1>typ DEF Call, Enter, Begin, Ask, Take, Send, Leave, Return
  <2>8. trigger' \in {"byte", "pin"}
    BY <1>2, <1>typ DEF Call, Enter, Begin, Ask, Take, Send, Leave, Return, chip
  <2>9. dest' \in [Task -> Seq(Results)]
    <3>1. CASE Take(t)
      <4>1. op[t] \in Calls /\ Reads(op[t])
        BY <3>1, <1>inv DEF Take, CallInv
      <4>2. dest' = dest \/ dest' = [dest EXCEPT ![t] = Taken(t)]
        BY <3>1 DEF Take, Taken
      <4>3. QED
        BY <4>1, <4>2, <1>typ, Taking
    <3>2. CASE ~Take(t)
      BY <1>2, <3>2, <1>typ, <1>empty DEF Call, Enter, Begin, Ask, Send, Leave, Return
    <3>3. QED
      BY <3>1, <3>2
  <2>10. fifo' \in Seq(Results) /\ Len(fifo') <= Capacity
    <3>1. CASE Ask(t)
      <4>1. op[t] \in Calls /\ Reads(op[t])
        BY <3>1, <1>inv DEF Ask, CallInv
      <4>2. fifo' = fifo \/ fifo' = Appended(t)
        BY <3>1 DEF Ask
      <4>3. QED
        BY <4>1, <4>2, <1>typ, Appending
    <3>2. CASE Take(t)
      <4>1. op[t] \in Calls /\ Reads(op[t])
        BY <3>2, <1>inv DEF Take, CallInv
      <4>2. fifo' = fifo \/ fifo' = Rest(t)
        BY <3>2 DEF Take, Rest
      <4>3. Rest(t) \in Seq(Results) /\ Len(Rest(t)) <= Len(fifo)
        BY <4>1, <1>typ, Taking
      <4>4. QED
        BY <4>2, <4>3, <1>typ, LenProperties
    <3>3. CASE Return(t)
      <4>1. fifo' = Disowned(t)
        BY <3>3 DEF Return, Disowned
      <4>2. QED
        BY <4>1, <1>typ, Disowning
    <3>4. CASE ~Ask(t) /\ ~Take(t) /\ ~Return(t)
      BY <1>2, <3>4, <1>typ, <1>empty DEF Call, Enter, Begin, Send, Leave, chip
    <3>5. QED
      BY <3>1, <3>2, <3>3, <3>4
  <2>11. QED
    BY <2>1, <2>2, <2>3, <2>4, <2>5, <2>6, <2>7, <2>8, <2>9, <2>10 DEF TypeOK
<1>3. QED
  BY <1>1, <1>2 DEF Next

\* Where a call stands tells what it is.
LEMMA CallStep ==
  ASSUME IInv, [Next]_vars
  PROVE  CallInv'
<1>inv. TypeOK /\ CallInv
  BY DEF IInv
<1>1. CASE Lifecycle \/ UNCHANGED vars
  <2>1. UNCHANGED <<pc, op>> /\ (stage' = stage \/ \A t \in Task : pc[t] = "idle")
    BY <1>1, <1>inv, Outside DEF Quiet
  <2>2. QED
    BY <2>1, <1>inv DEF CallInv
<1>2. ASSUME NEW t \in Task, Step(t) PROVE CallInv'
  <2>typ. /\ pc \in [Task -> InsideLabels \cup {"idle", "enter", "return"}]
          /\ op \in [Task -> Calls \cup {NoCall}]
    BY <1>inv DEF TypeOK
  <2>1. (\A u \in Task : u # t => UNCHANGED <<pc[u], op[u]>>) /\ stage' = stage
    BY <1>2, <1>inv, Frame
  <2>2. ASSUME pc'[t] # "idle"
        PROVE  /\ stage = "ready" /\ op'[t] \in Calls
               /\ pc'[t] \in {"ask", "take"} => Reads(op'[t])
               /\ pc'[t] = "send" => ~Reads(op'[t])
    <3>1. CASE \E c \in Calls : Call(t, c)
      BY <3>1, <2>typ DEF Call, Goto
    <3>2. CASE ~\E c \in Calls : Call(t, c)
      <4>1. pc[t] # "idle" /\ op'[t] = op[t]
        BY <1>2, <2>2, <3>2, <2>typ DEF Step, Enter, Begin, Ask, Take, Send, Leave,
           Return, Goto
      <4>2. /\ stage = "ready" /\ op[t] \in Calls
            /\ pc[t] \in {"ask", "take"} => Reads(op[t])
        BY <4>1, <1>inv DEF CallInv
      <4>3. \/ pc'[t] = IF Reads(op[t]) THEN "ask" ELSE "send"
            \/ pc'[t] = "take" /\ pc[t] = "ask"
            \/ pc'[t] \in {"leave", "return"}
        BY <1>2, <2>2, <3>2, <2>typ DEF Step, Enter, Begin, Ask, Take, Send, Leave,
           Return, Goto
      <4>4. QED
        BY <4>1, <4>2, <4>3
    <3>3. QED
      BY <3>1, <3>2
  <2>3. QED
    BY <2>1, <2>2, <1>inv DEF CallInv
<1>3. QED
  BY <1>1, <1>2 DEF Next

\* The mutex is that of the one task inside.
LEMMA LockStep ==
  ASSUME IInv, [Next]_vars
  PROVE  LockInv'
<1>inv. TypeOK /\ LockInv /\ CallInv
  BY DEF IInv
<1>typ. /\ pc \in [Task -> InsideLabels \cup {"idle", "enter", "return"}]
        /\ mutex \in Mutexes
  BY <1>inv DEF TypeOK
<1>1. CASE Lifecycle \/ UNCHANGED vars
  <2>1. pc' = pc /\ (mutex' = mutex \/ (Quiet /\ mutex' = Free))
    BY <1>1, <1>inv, Outside
  <2>2. CASE mutex' = mutex
    BY <2>1, <2>2, <1>inv DEF LockInv, Inside
  <2>3. CASE Quiet /\ mutex' = Free
    BY <2>1, <2>3 DEF LockInv, Inside, Quiet, InsideLabels
  <2>4. QED
    BY <2>1, <2>2, <2>3
<1>2. ASSUME NEW t \in Task, Step(t) PROVE LockInv'
  <2>1. \A u \in Task : u # t => pc'[u] = pc[u]
    BY <1>2, <1>inv, Frame
  <2>2. CASE Enter(t)
    <3>1. mutex' = [owner |-> t, depth |-> 1] /\ \A u \in Task : ~Inside(u)
      BY <2>2, <1>inv, <1>typ, Entering, MutexType DEF Enter
    <3>2. pc'[t] \in InsideLabels
      BY <2>2, <1>typ, Labelling DEF Enter, Begin, Goto
    <3>3. QED
      BY <2>1, <3>1, <3>2 DEF LockInv, Inside
  <2>3. CASE Leave(t)
    <3>1. Inside(t)
      BY <2>3 DEF Leave, Inside, InsideLabels
    <3>2. mutex' = Free
      BY <2>3, <3>1, <1>inv, <1>typ, MutexType DEF Leave, LockInv
    <3>3. \A u \in Task : ~Inside(u)'
      <4>1. ~Inside(t)'
        BY <2>3, <1>typ DEF Leave, Goto, Inside, InsideLabels
      <4>2. ASSUME NEW u \in Task, u # t PROVE ~Inside(u)'
        BY <2>1, <4>2, <3>1, <1>inv, Alone DEF Inside
      <4>3. QED
        BY <4>1, <4>2
    <3>4. QED
      BY <3>2, <3>3 DEF LockInv
  <2>4. CASE ~Enter(t) /\ ~Leave(t)
    <3>1. mutex' = mutex /\ (Inside(t)' <=> Inside(t))
      BY <1>2, <2>4, <1>typ DEF Step, Call, Ask, Take, Send, Return, Goto, Inside,
         InsideLabels
    <3>2. \A u \in Task : Inside(u)' <=> Inside(u)
      BY <2>1, <3>1 DEF Inside
    <3>3. QED
      BY <3>1, <3>2, <1>inv DEF LockInv, Inside
  <2>5. QED
    BY <2>2, <2>3, <2>4
<1>3. QED
  BY <1>1, <1>2 DEF Next

-----------------------------------------------------------------------------
\* While a task is inside, the others only begin and end their calls: the FIFO stays
\* as it is when it holds no result of theirs.
LEMMA OthersOut ==
  ASSUME IInv, NEW t \in Task, NEW u \in Task, u # t, Step(t), Inside(u),
         \A i \in 1..Len(fifo) : fifo[i].by # t
  PROVE  fifo' = fifo /\ trigger' = trigger
<1>inv. TypeOK /\ LockInv /\ CallInv
  BY DEF IInv
<1>1. ~Inside(t) /\ ~Enter(t)
  BY <1>inv, Alone, Entering
<1>2. (\E c \in Calls : Call(t, c)) \/ Return(t)
  BY <1>1 DEF Step, Ask, Take, Send, Leave, Inside, InsideLabels
<1>3. CASE \E c \in Calls : Call(t, c)
  BY <1>3 DEF Call, chip
<1>4. CASE Return(t)
  <2>1. fifo' = Disowned(t) /\ trigger' = trigger
    BY <1>4 DEF Return, Disowned
  <2>2. fifo \in Seq(Results)
    BY <1>inv DEF TypeOK
  <2>3. QED
    BY <2>1, <2>2, Disowning
<1>5. QED
  BY <1>2, <1>3, <1>4

\* A read that began on an empty FIFO works on its own conversions.
LEMMA OwnStep ==
  ASSUME IInv, [Next]_vars
  PROVE  OwnInv'
<1>inv. TypeOK /\ LockInv /\ CallInv /\ OwnInv
  BY DEF IInv
<1>typ. /\ pc \in [Task -> InsideLabels \cup {"idle", "enter", "return"}]
        /\ op \in [Task -> Calls \cup {NoCall}] /\ dest \in [Task -> Seq(Results)]
        /\ dropped \in [Task -> BOOLEAN] /\ virgin \in [Task -> BOOLEAN]
        /\ fifo \in Seq(Results)
  BY <1>inv DEF TypeOK
<1>1. CASE Lifecycle \/ UNCHANGED vars
  <2>1. /\ UNCHANGED <<pc, op, dest, dropped, virgin, fifo>>
        /\ trigger' = trigger \/ \A t \in Task : pc[t] = "idle"
    BY <1>1, <1>inv, Outside DEF Quiet
  <2>2. QED
    BY <2>1, <1>inv DEF OwnInv, Own, OnlyOf, Honest, Produced, Fits, Asked
<1>2. ASSUME NEW t \in Task, Step(t) PROVE OwnInv'
  <2>own. \A u \in Task : Own(u) /\ (pc[u] \notin {"leave", "return"} => dest[u] = <<>>)
    BY <1>inv DEF OwnInv
  <2>1. ASSUME NEW u \in Task, u # t
        PROVE  Own(u)' /\ (pc'[u] \notin {"leave", "return"} => dest'[u] = <<>>)
    <3>1. UNCHANGED <<pc[u], op[u], dest[u], dropped[u], virgin[u]>>
      BY <1>2, <1>inv, <2>1, Frame
    <3>2. UNCHANGED <<Produced(u), Fits(u), Asked(u), Honest(u)>>
      BY <3>1 DEF Produced, Fits, Asked, Honest
    <3>3. CASE pc[u] \in {"ask", "take"} /\ virgin[u]
      <4>1. Inside(u)
        BY <3>3 DEF Inside, InsideLabels
      <4>2. \A i \in 1..Len(fifo) : fifo[i].by # t
        <5>1. CASE pc[u] = "ask"
          <6>1. fifo = <<>>
            BY <3>3, <5>1, <2>own DEF Own
          <6>2. Len(fifo) = 0 /\ 1..0 = {}
            BY <6>1
          <6>3. QED
            BY <6>2
        <5>2. CASE pc[u] = "take"
          BY <2>1, <3>3, <5>2, <2>own DEF Own, OnlyOf
        <5>3. QED
          BY <3>3, <5>1, <5>2
      <4>3. fifo' = fifo /\ trigger' = trigger
        BY <1>2, <2>1, <4>1, <4>2, OthersOut
      <4>4. UNCHANGED OnlyOf(u)
        BY <4>3 DEF OnlyOf
      <4>5. QED
        BY <2>own, <3>1, <3>2, <4>3, <4>4 DEF Own
    <3>4. CASE ~(pc[u] \in {"ask", "take"} /\ virgin[u])
      BY <2>own, <3>1, <3>2, <3>4 DEF Own
    <3>5. QED
      BY <3>3, <3>4
  <2>2. Own(t)' /\ (pc'[t] \notin {"leave", "return"} => dest'[t] = <<>>)
    <3> DEFINE Empty == pc'[t] \notin {"leave", "return"} => dest'[t] = <<>>
    <3>1. CASE (\E c \in Calls : Call(t, c)) \/ Send(t)
      <4>1. /\ pc'[t] \in {"enter", "leave"} /\ (pc'[t] = "leave" => ~Reads(op'[t]))
            /\ pc[t] \notin {"leave", "return"} /\ dest'[t] = dest[t]
        BY <3>1, <1>inv, <1>typ DEF Call, Send, Goto, CallInv
      <4>2. dest'[t] = <<>>
        BY <4>1, <2>own
      <4>3. Honest(t)'
        BY <4>2 DEF Honest
      <4>4. QED
        BY <4>1, <4>2, <4>3 DEF Own
    <3>2. CASE Return(t)
      BY <3>2, <1>typ DEF Return, Goto, Own
    <3>3. CASE Enter(t)
      <4>1. /\ pc'[t] \in {"ask", "send"} /\ fifo' = fifo /\ trigger' = trigger
            /\ virgin'[t] => fifo = <<>> /\ trigger = "byte"
            /\ pc[t] \notin {"leave", "return"} /\ dest'[t] = dest[t]
        BY <3>3, <1>typ DEF Enter, Begin, Goto, chip
      <4>2. dest'[t] = <<>>
        BY <4>1, <2>own
      <4>3. Honest(t)'
        BY <4>2 DEF Honest
      <4>4. QED
        BY <4>1, <4>2, <4>3 DEF Own
    <3>4. CASE Ask(t)
      <4>1. /\ pc[t] = "ask" /\ pc'[t] = "take" /\ op'[t] = op[t] /\ dest'[t] = dest[t]
            /\ virgin'[t] = virgin[t] /\ op[t] \in Calls /\ Reads(op[t])
        BY <3>4, <1>inv, <1>typ DEF Ask, Goto, CallInv
      <4>2. UNCHANGED <<Produced(t), Fits(t)>> /\ (Honest(t) => Honest(t)')
        BY <4>1 DEF Produced, Fits, Honest
      <4>3. ASSUME virgin[t], ~dropped'[t], Fits(t) PROVE fifo' = Produced(t)
        <5>1. fifo = <<>> /\ trigger = "byte"
          BY <4>1, <4>3, <2>own DEF Own
        <5>2. fifo' = Appended(t)
          BY <3>4, <4>3, <5>1, <1>typ DEF Ask
        <5>3. Number(op[t]) <= Capacity
          BY <4>1, <4>3, Conversions DEF Fits
        <5>4. QED
          BY <4>1, <5>1, <5>2, <5>3, <1>typ, Appending
      <4>4. ASSUME virgin[t] PROVE OnlyOf(t)'
        <5>1. fifo = <<>> /\ (fifo' = fifo \/ fifo' = Appended(t))
          BY <3>4, <4>1, <4>4, <2>own DEF Own, Ask
        <5>2. CASE fifo' = <<>>
          <6>1. Len(fifo') = 0 /\ 1..0 = {}
            BY <5>2
          <6>2. QED
            BY <6>1 DEF OnlyOf
        <5>3. CASE fifo' = Appended(t)
          BY <4>1, <5>1, <5>3, <1>typ, Appending DEF OnlyOf
        <5>4. QED
          BY <5>1, <5>2, <5>3
      <4>5. Empty
        BY <4>1, <2>own
      <4>6. QED
        BY <4>1, <4>2, <4>3, <4>4, <4>5, <2>own DEF Own
    <3>5. CASE Take(t)
      <4>1. /\ pc[t] = "take" /\ pc'[t] = "leave" /\ op'[t] = op[t]
            /\ virgin'[t] = virgin[t] /\ op[t] \in Calls /\ Reads(op[t])
        BY <3>5, <1>inv, <1>typ DEF Take, Goto, CallInv
      <4>2. UNCHANGED <<Fits(t), Asked(t)>>
        BY <4>1 DEF Fits, Asked
      <4>3. ASSUME virgin[t], ~dropped'[t], Fits(t) PROVE dest'[t] = Asked(t)
        <5>1. dropped' = dropped /\ dest'[t] = Taken(t)
          BY <3>5, <4>3, <1>typ DEF Take, Taken
        <5>2. fifo = Produced(t)
          BY <4>1, <4>3, <5>1, <2>own DEF Own
        <5>3. QED
          BY <4>1, <5>1, <5>2, <1>typ, Taking
      <4>4. ASSUME virgin[t] PROVE Honest(t)'
        <5>1. OnlyOf(t) /\ dest[t] = <<>>
          BY <4>1, <4>4, <2>own DEF Own
        <5>2. dest'[t] = Taken(t) \/ dest'[t] = dest[t]
          BY <3>5, <1>typ DEF Take, Taken
        <5>3. \A i \in DOMAIN Taken(t) : Taken(t)[i].by = t \/ Taken(t)[i] = Zeros
          BY <4>1, <5>1, <1>typ, Taking
        <5>4. QED
          BY <5>1, <5>2, <5>3 DEF Honest
      <4>5. QED
        BY <4>1, <4>2, <4>3, <4>4 DEF Own
    <3>6. CASE Leave(t)
      <4>1. /\ pc[t] = "leave" /\ pc'[t] = "return"
            /\ UNCHANGED <<op[t], virgin[t], dropped[t], dest[t]>>
        BY <3>6, <1>typ DEF Leave, Goto
      <4>2. UNCHANGED <<Fits(t), Asked(t), Honest(t)>>
        BY <4>1 DEF Fits, Asked, Honest
      <4>3. QED
        BY <4>1, <4>2, <2>own DEF Own
    <3>7. QED
      BY <1>2, <3>1, <3>2, <3>3, <3>4, <3>5, <3>6 DEF Step
  <2>3. QED
    BY <2>1, <2>2 DEF OwnInv
<1>3. QED
  BY <1>1, <1>2 DEF Next

\* While nothing has gone wrong, the FIFO is empty but between the transfers of a read.
LEMMA FifoStep ==
  ASSUME IInv, [Next]_vars
  PROVE  FifoInv'
<1>inv. TypeOK /\ LockInv /\ CallInv /\ FifoInv
  BY DEF IInv
<1>typ. /\ pc \in [Task -> InsideLabels \cup {"idle", "enter", "return"}]
        /\ op \in [Task -> Calls \cup {NoCall}] /\ dropped \in [Task -> BOOLEAN]
        /\ fifo \in Seq(Results)
  BY <1>inv DEF TypeOK
<1>1. CASE Lifecycle \/ UNCHANGED vars
  <2>1. UNCHANGED <<pc, op, exact, fifo>>
    BY <1>1, <1>inv, Outside
  <2>2. QED
    BY <2>1, <1>inv DEF FifoInv
<1>2. ASSUME NEW t \in Task, Step(t), exact' PROVE FifoInv'
  <2>1. \A u \in Task : u # t => UNCHANGED <<pc[u], op[u]>>
    BY <1>2, <1>inv, Frame
  <2>2. CASE Call(t, op'[t]) \/ Enter(t) \/ Leave(t)
    <3>1. UNCHANGED <<fifo, exact>> /\ pc[t] # "take" /\ pc'[t] # "take"
      BY <2>2, <1>typ DEF Call, Enter, Begin, Leave, Goto, chip
    <3>2. QED
      BY <1>2, <2>1, <3>1, <1>inv DEF FifoInv
  <2>3. CASE Ask(t)
    <3>1. /\ exact /\ op[t] \in Calls /\ Reads(op[t]) /\ op[t].n # Temperature
          /\ pc[t] = "ask" /\ pc'[t] = "take" /\ op'[t] = op[t]
      BY <1>2, <2>3, <1>inv, <1>typ DEF Ask, Goto, CallInv
    <3>2. \A u \in Task : u # t => ~Inside(u)
      BY <3>1, <1>inv, Alone DEF Inside, InsideLabels
    <3>3. fifo = <<>>
      BY <3>1, <3>2, <1>inv DEF FifoInv, Inside, InsideLabels
    <3>4. fifo' = fifo \/ fifo' = Appended(t)
      BY <2>3 DEF Ask
    <3>5. Len(Appended(t)) <= Count(op[t]) /\ Count(op[t]) \in Nat
      BY <3>1, <3>3, <1>typ, Appending, Conversions
    <3>6. Len(fifo') <= Count(op[t])
      BY <3>3, <3>4, <3>5
    <3>7. QED
      BY <2>1, <3>1, <3>2, <3>6 DEF FifoInv, Inside, InsideLabels
  <2>4. CASE Take(t)
    <3>1. /\ exact /\ fifo' = Rest(t) /\ op[t] \in Calls /\ Reads(op[t])
          /\ pc[t] = "take" /\ pc'[t] = "leave"
      BY <1>2, <2>4, <1>inv, <1>typ DEF Take, Goto, CallInv, Rest
    <3>2. fifo' = <<>>
      BY <3>1, <1>inv, <1>typ, Taking DEF FifoInv
    <3>3. \A u \in Task : u # t => ~Inside(u)
      BY <3>1, <1>inv, Alone DEF Inside, InsideLabels
    <3>4. QED
      BY <2>1, <3>1, <3>2, <3>3 DEF FifoInv, Inside, InsideLabels
  <2>5. CASE Send(t)
    <3>1. pc[t] = "send" /\ pc'[t] = "leave"
      BY <2>5, <1>typ DEF Send, Goto
    <3>2. \A u \in Task : pc[u] # "take" /\ pc'[u] # "take"
      <4>1. \A u \in Task : u # t => ~Inside(u)
        BY <3>1, <1>inv, Alone DEF Inside, InsideLabels
      <4>2. QED
        BY <2>1, <3>1, <4>1 DEF Inside, InsideLabels
    <3>3. fifo' = <<>>
      <4>1. fifo' = <<>> \/ (fifo' = fifo /\ exact)
        BY <1>2, <2>5 DEF Send, chip
      <4>2. QED
        BY <3>2, <4>1, <1>inv DEF FifoInv
    <3>4. QED
      BY <3>2, <3>3 DEF FifoInv
  <2>6. CASE Return(t)
    <3>1. /\ exact /\ fifo' = Disowned(t) /\ Len(fifo') = Len(fifo)
          /\ pc[t] = "return" /\ pc'[t] = "idle"
      BY <1>2, <2>6, <1>typ, Disowning DEF Return, Goto, Disowned
    <3>2. fifo = <<>> => fifo' = <<>>
      BY <3>1 DEF Disowned
    <3>3. QED
      BY <2>1, <3>1, <3>2, <1>inv DEF FifoInv
  <2>7. QED
    <3>1. ASSUME NEW c \in Calls, Call(t, c) PROVE Call(t, op'[t])
      BY <3>1, <1>typ DEF Call
    <3>2. QED
      BY <1>2, <2>2, <2>3, <2>4, <2>5, <2>6, <3>1 DEF Step
<1>3. QED
  BY <1>1, <1>2 DEF Next, FifoInv

-----------------------------------------------------------------------------
LEMMA InitInv ==
  ASSUME Init
  PROVE  IInv
<1>1. <<>> \in Seq(Results) /\ Len(<<>>) <= Capacity
  BY EmptySeq
<1>2. Free \in Mutexes
  BY DEF Free, Mutexes
<1>3. TypeOK
  BY <1>1, <1>2 DEF Init, TypeOK
<1>4. LockInv /\ CallInv /\ OwnInv /\ FifoInv
  BY DEF Init, LockInv, CallInv, OwnInv, Own, FifoInv, Inside, InsideLabels
<1>5. QED
  BY <1>3, <1>4 DEF IInv

LEMMA Invariance == Spec => []IInv
<1>1. Init => IInv
  BY InitInv
<1>2. IInv /\ [Next]_vars => IInv'
  <2> SUFFICES ASSUME IInv, [Next]_vars PROVE IInv'
    OBVIOUS
  <2>1. TypeOK' /\ LockInv' /\ CallInv' /\ OwnInv' /\ FifoInv'
    BY TypeStep, LockStep, CallStep, OwnStep, FifoStep
  <2>2. QED
    BY <2>1 DEF IInv
<1>3. QED
  BY <1>1, <1>2, PTL DEF Spec

\* The state of the driver, of the chip and of the calls keeps its types: the FIFO
\* never holds more than it has room for.
THEOREM Typing == Spec => []TypeOK
<1>1. IInv => TypeOK
  BY DEF IInv
<1>2. QED
  BY <1>1, Invariance, PTL

\* adc_read is one transaction: a read that began on an empty FIFO gives, although it
\* returns 0 whatever failed, no result of another task and none of an earlier call;
\* when both its transfers were made and its conversions fit, those it asked for.
THEOREM OwnResults == Spec => []OwnConversions
<1>1. ASSUME IInv PROVE OwnConversions
  <2>1. \A t \in Task : Own(t)
    BY <1>1 DEF IInv, OwnInv
  <2>2. QED
    BY <2>1 DEF Own, Honest, Fits, OwnConversions
<1>2. QED
  BY <1>1, Invariance, PTL

\* While no transfer fails, nobody asks for the temperature and the byte starts the
\* conversions, the FIFO is empty whenever no call is on the chip.
THEOREM Empties == Spec => []Aligned
<1>1. IInv => Aligned
  BY DEF IInv, FifoInv, Aligned, InsideLabels
<1>2. QED
  BY <1>1, Invariance, PTL
=============================================================================
