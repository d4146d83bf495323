------------------------------ MODULE LcdProofs -------------------------------
(***************************************************************************)
(* Proofs about Lcd, for any tasks, characters, messages and widths, and   *)
(* for any number of kills.                                                *)
(***************************************************************************)
EXTENDS Lcd, TLAPS, SequenceTheorems, WellFoundedInduction

USE TaskAssumption, LcdAssumption

-----------------------------------------------------------------------------
Letter == {Byte(1, c[1], c[2]) : c \in Char}
Command == {LCD_SET, LCD_ON, LCD_OFF, LCD_MD, LCD_ADR, LCD_ADR2, LCD_CLR}
Items == {SetEight, SetFour, Sleep} \cup Command \cup Letter

First == {<<>>} \cup {0, 1} \X (0..15)
Cells == [1..2 * Width -> (0..15) \X (0..15)]
Last == {Sleep} \cup {Byte(r, hi, lo) : r \in {0, 1}, hi \in 0..15, lo \in 0..15}

Display ==
  [wide : BOOLEAN, first : First, sleeping : BOOLEAN, on : BOOLEAN, at : 0..Nowhere,
   cells : Cells, last : Last]

Types ==
  /\ stage \in {"down", "init", "greet", "serve", "clean"}
  /\ mutex \in Mutexes
  /\ buf \in Seq(Char \cup {NUL}) /\ Len(buf) <= BufLen
  /\ script \in [Task -> Seq(Items)] /\ step \in [Task -> -1..6]
  /\ pins \in [e : {0, 1}, rs : {0, 1}, n : 0..15]
  /\ ctrl \in Display /\ (ctrl.wide => ctrl.first = <<>>)
  /\ kills \in 0..MaxKills /\ interrupts \in 0..MaxInterrupts /\ refused \in BOOLEAN

\* A task with a write behind or before it is the one that owns the mutex; while
\* lcd_task initialises, greets or cleans, there is no other.
LockInv ==
  /\ stage = "down" => \A t \in Task : ~Busy(t) /\ step[t] = -1
  /\ stage # "down" => \/ mutex = Free
                       \/ (mutex.owner \in Task /\ mutex.depth = 1)
  /\ stage # "down" => \A t \in Task : step[t] # -1 <=> mutex.owner = t
  /\ \A t \in Task : step[t] # -1 =>
       Busy(t) /\ Item(t).do # "sleep" /\ step[t] <= Writes(t)
  /\ stage \in {"init", "greet", "clean"} => \A t \in Task : Busy(t) => t = Daemon

\* A script of whole bytes, with a sleep after each clear.
Plain(s) ==
  \A i \in DOMAIN s :
    /\ s[i] \in Command \cup Letter \cup {Sleep}
    /\ s[i] = LCD_CLR => i + 1 \in DOMAIN s /\ s[i + 1] = Sleep

\* The item of LcdInit the daemon is at.
Place == 16 - Len(script[Daemon])

ScriptInv ==
  /\ stage = "init" =>
       Place \in 1..16 /\ script[Daemon] = SubSeq(LcdInit, Place, Len(LcdInit))
  /\ stage \in {"greet", "clean"} => Plain(script[Daemon])
  /\ stage = "serve" =>
       \A i \in DOMAIN script[Daemon] : script[Daemon][i] \in {LCD_ADR, LCD_ADR2} \cup Letter
  /\ \A t \in Task \ {Daemon} :
       \A i \in DOMAIN script[t] : script[t][i] \in {LCD_ON, LCD_OFF}

\* The nibbles of the workaround are sent, and bytes are from now on.
Tuned == stage \in {"greet", "serve", "clean"} \/ (stage = "init" /\ Place > 8)

\* The pins while t is at its item, once it has made its first write.
Driven(t) ==
  /\ step[t] > 0 => pins.e = IF step[t] \in {2, 5} THEN 1 ELSE 0
  /\ step[t] > 0 => pins.rs = Item(t).rs
  /\ step[t] \in 1..3 => pins.n = Item(t).nibbles[1]
  /\ step[t] \in 4..6 => pins.n = Item(t).nibbles[2]

\* The display is told a byte by a task that owns the mutex, nibble by nibble.
Sending(t) ==
  /\ step[t] = 0 => pins.e = 0
  /\ ctrl.first = IF step[t] \in 3..5 THEN <<Item(t).rs, Item(t).nibbles[1]>> ELSE <<>>
  /\ step[t] = 6 => ctrl.last = Item(t)

TunedInv ==
  Tuned =>
    /\ ~ctrl.wide
    /\ mutex = Free => ctrl.first = <<>> /\ pins.e = 0
    /\ \A t \in Task : step[t] # -1 => Sending(t)
    /\ ctrl.sleeping =>
         /\ Busy(Daemon)
         /\ Item(Daemon) = Sleep \/ (Item(Daemon) = LCD_CLR /\ step[Daemon] = 6)

\* A display that is clearing itself has at most the first nibble of lcd_init.
SleepInv ==
  ctrl.sleeping =>
    /\ ctrl.first \in {<<>>, <<0, 3>>}
    /\ pins.e = 1 => pins.rs = 0 /\ pins.n = 3

\* How many of the four nibbles of the workaround the display has had.
Latches == (IF step[Daemon] = 3 THEN Place + 1 ELSE Place) \div 2

\* What they make of a display in any state.
TuningInv ==
  stage = "init" /\ Place <= 8 =>
    /\ Latches >= 1 /\ step[Daemon] <= 0 => pins.e = 0
    /\ Place > 2 => ~ctrl.sleeping
    /\ Latches = 1 => ctrl.first \in {<<>>, <<0, 3>>}
    /\ Latches = 2 => ctrl.wide \/ ctrl.first = <<0, 3>>
    /\ Latches = 3 => ctrl.wide
    /\ Latches = 4 => ~ctrl.wide /\ ctrl.first = <<>>

DrivenInv == \A t \in Task : step[t] # -1 => Driven(t)

-----------------------------------------------------------------------------
\* The lengths of the lines a string makes, and what lcd_print has still to send.
Line1(s) == IF Len(s) < Width THEN Len(s) ELSE Width
Rest(s) == IF Len(s) <= Width THEN 0 ELSE IF Len(s) < 2 * Width THEN Len(s) - Width ELSE Width
Shown == String(buf)
Ahead == Line1(Shown) + Rest(Shown) + 3 - Len(script[Daemon])

\* The item of LcdPrint the display is told next, and the address it is at then.
Told1 == IF step[Daemon] = 6 THEN Ahead + 1 ELSE Ahead
Address(s, k) == IF k <= Line1(s) + 2 THEN k - 2 ELSE Line2 + k - Line1(s) - 3

\* The display c shows what it was told of s before the item k.
ShowsUpTo(s, c, k) ==
  \A i \in 1..2 * Width :
    i <= Len(s) /\ (IF i <= Width THEN i <= k - 2 ELSE i <= k - 3) => c.cells[i] = s[i]

\* Of a message with no byte refused the display shows what it has been told.
PrintInv ==
  stage = "serve" /\ ~refused =>
    /\ Ahead \in 1..Len(LcdPrint(Shown)) + 1
    /\ script[Daemon] = SubSeq(LcdPrint(Shown), Ahead, Len(LcdPrint(Shown)))
    /\ Told1 >= 2 => ctrl.at = Address(Shown, Told1)
    /\ ShowsUpTo(Shown, ctrl, Told1)

AlignInv == DrivenInv /\ TunedInv /\ SleepInv /\ TuningInv

IInv == Types /\ LockInv /\ ScriptInv /\ AlignInv /\ PrintInv

-----------------------------------------------------------------------------
\* What the driver sends, item by item.
LEMMA ItemTypes ==
  ASSUME NEW it \in Items
  PROVE  /\ it.rs \in {0, 1} /\ it.do \in {"byte", "nibble", "sleep"}
         /\ it.do = "sleep" <=> it = Sleep
         /\ it.do = "nibble" <=> it \in {SetEight, SetFour}
         /\ it.do = "byte" <=> it \in Command \cup Letter
         /\ Len(it.nibbles) \in 0..2
         /\ it.do = "byte" => Len(it.nibbles) = 2
         /\ it.do = "nibble" => Len(it.nibbles) = 1
         /\ \A i \in 1..Len(it.nibbles) : it.nibbles[i] \in 0..15
<1>1. CASE it \in Command
  BY <1>1 DEF Command, LCD_SET, LCD_ON, LCD_OFF, LCD_MD, LCD_ADR, LCD_ADR2, LCD_CLR,
     Byte, Sleep, SetEight, SetFour, Nibble
<1>2. CASE it \in Letter
  <2>1. PICK c \in Char : it = Byte(1, c[1], c[2])
    BY <1>2 DEF Letter
  <2>2. c[1] \in 2..15 /\ c[2] \in 0..15
    OBVIOUS
  <2>3. QED
    BY <1>2, <2>1, <2>2 DEF Byte, Sleep, SetEight, SetFour, Nibble
<1>3. CASE it \in {SetEight, SetFour}
  <2>1. it.do = "nibble" /\ it.rs = 0 /\ Len(it.nibbles) = 1 /\ it.nibbles[1] \in 0..15
    BY <1>3 DEF SetEight, SetFour, Nibble
  <2>2. it \notin Command /\ it # Sleep
    BY <2>1 DEF Command, LCD_SET, LCD_ON, LCD_OFF, LCD_MD, LCD_ADR, LCD_ADR2, LCD_CLR,
       Byte, Sleep
  <2>3. it \notin Letter
    BY <2>1 DEF Letter, Byte
  <2>4. QED
    BY <1>3, <2>1, <2>2, <2>3
<1>4. CASE it = Sleep
  <2>1. it.do = "sleep" /\ it.rs = 0 /\ Len(it.nibbles) = 0
    BY <1>4 DEF Sleep
  <2>2. it \notin Command /\ it \notin {SetEight, SetFour}
    BY <2>1 DEF Command, LCD_SET, LCD_ON, LCD_OFF, LCD_MD, LCD_ADR, LCD_ADR2, LCD_CLR,
       Byte, SetEight, SetFour, Nibble
  <2>3. it \notin Letter
    BY <2>1 DEF Letter, Byte
  <2>4. QED
    BY <1>4, <2>1, <2>2, <2>3
<1>5. QED
  BY <1>1, <1>2, <1>3, <1>4 DEF Items

\* A letter is no command, and jumps, clears and switches are different commands.
LEMMA ItemsDiffer ==
  /\ \A it \in Letter : it.rs = 1
  /\ \A it \in Command : it.rs = 0
  /\ LCD_CLR \notin {LCD_ON, LCD_OFF, LCD_ADR, LCD_ADR2, LCD_SET, LCD_MD, Sleep}
  /\ LCD_ADR # LCD_ADR2 /\ Sleep \notin Command
  /\ {LCD_ON, LCD_OFF} \cap {LCD_ADR, LCD_ADR2} = {}
<1>1. \A it \in Letter : it.rs = 1
  BY DEF Letter, Byte
<1>2. \A it \in Command : it.rs = 0 /\ it.do = "byte"
  BY DEF Command, LCD_SET, LCD_ON, LCD_OFF, LCD_MD, LCD_ADR, LCD_ADR2, LCD_CLR, Byte
<1>3. Sleep.do = "sleep"
  BY DEF Sleep
<1>4. /\ LCD_CLR.nibbles = <<0, 1>> /\ LCD_ON.nibbles = <<0, 12>>
      /\ LCD_OFF.nibbles = <<0, 8>> /\ LCD_ADR.nibbles = <<8, 0>>
      /\ LCD_ADR2.nibbles = <<10, 8>> /\ LCD_SET.nibbles = <<2, 8>>
      /\ LCD_MD.nibbles = <<0, 6>>
  BY DEF LCD_SET, LCD_ON, LCD_OFF, LCD_MD, LCD_ADR, LCD_ADR2, LCD_CLR, Byte
<1>5. LCD_CLR \in Command
  BY DEF Command
<1>6. /\ LCD_CLR # LCD_ON /\ LCD_CLR # LCD_OFF /\ LCD_CLR # LCD_ADR
      /\ LCD_CLR # LCD_ADR2 /\ LCD_CLR # LCD_SET /\ LCD_CLR # LCD_MD
      /\ LCD_ADR # LCD_ADR2 /\ LCD_ON # LCD_ADR /\ LCD_ON # LCD_ADR2
      /\ LCD_OFF # LCD_ADR /\ LCD_OFF # LCD_ADR2
  BY <1>4
<1>7. QED
  BY <1>1, <1>2, <1>3, <1>5, <1>6

LEMMA LcdInitIs ==
  /\ LcdInit \in Seq(Items) /\ Len(LcdInit) = 15
  /\ LcdInit[1] = SetEight /\ LcdInit[2] = Sleep /\ LcdInit[3] = SetEight
  /\ LcdInit[4] = Sleep /\ LcdInit[5] = SetEight /\ LcdInit[6] = Sleep
  /\ LcdInit[7] = SetFour /\ LcdInit[8] = Sleep /\ LcdInit[9] = LCD_SET
  /\ LcdInit[10] = LCD_OFF /\ LcdInit[11] = LCD_CLR /\ LcdInit[12] = Sleep
  /\ LcdInit[13] = LCD_ON /\ LcdInit[14] = LCD_MD /\ LcdInit[15] = LCD_ADR
<1> DEFINE head == <<SetEight, Sleep, SetEight, Sleep, SetEight, Sleep, SetFour, Sleep,
                     LCD_SET, LCD_OFF>>
           tail == <<LCD_ON, LCD_MD, LCD_ADR>>
<1>1. head \in Seq(Items) /\ Clear \in Seq(Items) /\ tail \in Seq(Items)
  BY DEF Items, Command, Clear
<1>2. Len(head) = 10 /\ Len(Clear) = 2 /\ Len(tail) = 3
  BY DEF Clear
<1>3. LcdInit = (head \o Clear) \o tail
  BY DEF LcdInit
<1>4. /\ head[1] = SetEight /\ head[2] = Sleep /\ head[3] = SetEight /\ head[4] = Sleep
      /\ head[5] = SetEight /\ head[6] = Sleep /\ head[7] = SetFour /\ head[8] = Sleep
      /\ head[9] = LCD_SET /\ head[10] = LCD_OFF
      /\ Clear[1] = LCD_CLR /\ Clear[2] = Sleep
      /\ tail[1] = LCD_ON /\ tail[2] = LCD_MD /\ tail[3] = LCD_ADR
  BY DEF Clear
<1> HIDE DEF head, tail
<1> DEFINE most == head \o Clear
<1>5. /\ most \in Seq(Items) /\ Len(most) = Len(head) + Len(Clear)
      /\ \A i \in 1..Len(head) + Len(Clear) :
           most[i] = IF i <= Len(head) THEN head[i] ELSE Clear[i - Len(head)]
  BY <1>1, ConcatProperties
<1>init. LcdInit = most \o tail
  BY <1>3
<1> HIDE DEF most
<1>6. /\ LcdInit \in Seq(Items) /\ Len(LcdInit) = Len(most) + Len(tail)
      /\ \A i \in 1..Len(most) + Len(tail) :
           LcdInit[i] = IF i <= Len(most) THEN most[i] ELSE tail[i - Len(most)]
  BY <1>1, <1>5, <1>init, ConcatProperties
<1>7. \A i \in 1..10 : LcdInit[i] = head[i]
  BY <1>2, <1>5, <1>6
<1>8. LcdInit[11] = Clear[1] /\ LcdInit[12] = Clear[2]
  BY <1>2, <1>5, <1>6
<1>9. LcdInit[13] = tail[1] /\ LcdInit[14] = tail[2] /\ LcdInit[15] = tail[3]
  BY <1>2, <1>5, <1>6
<1>10. QED
  BY <1>2, <1>4, <1>5, <1>6, <1>7, <1>8, <1>9

\* Leaving an item behind, a script is the rest of the same call.
LEMMA Onwards ==
  ASSUME NEW s \in Seq(Items), NEW k \in 1..Len(s) + 1, NEW r \in Seq(Items),
         r = SubSeq(s, k, Len(s))
  PROVE  /\ Len(r) = Len(s) + 1 - k
         /\ r # <<>> => k <= Len(s) /\ r[1] = s[k] /\ Tail(r) = SubSeq(s, k + 1, Len(s))
         /\ k = Len(s) + 1 => r = <<>>
<1>1. \A i \in k..Len(s) : s[i] \in Items
  OBVIOUS
<1>2. /\ Len(r) = Len(s) + 1 - k
      /\ \A i \in 1..Len(s) - k + 1 : r[i] = s[k + i - 1]
  BY <1>1, SubSeqProperties
<1>3. ASSUME r # <<>>
      PROVE  k <= Len(s) /\ r[1] = s[k] /\ Tail(r) = SubSeq(s, k + 1, Len(s))
  <2>1. Len(r) > 0
    BY <1>3
  <2>2. k \in 1..Len(s) /\ Len(s) \in k..Len(s)
    BY <1>2, <2>1
  <2>3. Tail(SubSeq(s, k, Len(s))) = SubSeq(s, k + 1, Len(s))
    BY <2>2, HeadTailOfSubSeq
  <2>4. QED
    BY <1>2, <2>2, <2>3
<1>4. k = Len(s) + 1 => r = <<>>
  BY <1>2
<1>5. QED
  BY <1>2, <1>3, <1>4

\* A set of numbers has a smallest one.
LEMMA Smallest ==
  ASSUME NEW T \in SUBSET Nat, T # {}
  PROVE  \E x \in T : \A y \in T : x <= y
<1>1. IsWellFoundedOn(OpToRel(<, Nat), Nat)
  BY NatLessThanWellFounded
<1>2. PICK x \in T : \A y \in T : ~(<<y, x>> \in OpToRel(<, Nat))
  BY <1>1, WFMin
<1>3. \A y \in T : ~(y < x)
  BY <1>2 DEF OpToRel
<1>4. QED
  BY <1>3

\* A string has no NUL.
LEMMA Strings ==
  ASSUME NEW b \in Seq(Char \cup {NUL})
  PROVE  String(b) \in Seq(Char)
<1> DEFINE ends == {i \in DOMAIN b : b[i] = NUL}
           end == IF ends = {} THEN Len(b) + 1
                  ELSE CHOOSE i \in ends : \A j \in ends : i <= j
<1>1. end \in 1..Len(b) + 1 /\ \A i \in 1..end - 1 : i \notin ends
  <2>1. CASE ends = {}
    BY <2>1
  <2>2. CASE ends # {}
    <3>1. \E i \in ends : \A j \in ends : i <= j
      <4>1. ends \in SUBSET Nat
        OBVIOUS
      <4> HIDE DEF ends
      <4>2. QED
        BY <2>2, <4>1, Smallest
    <3>2. end \in ends /\ \A j \in ends : end <= j
      BY <2>2, <3>1
    <3>3. end \in DOMAIN b
      BY <3>2
    <3> HIDE DEF end, ends
    <3>4. DOMAIN b = 1..Len(b) /\ Len(b) \in Nat
      OBVIOUS
    <3>5. end \in 1..Len(b)
      BY <3>3, <3>4
    <3>6. ASSUME NEW i \in 1..end - 1
          PROVE  i \notin ends
      <4>1. ~(end <= i)
        BY <3>5
      <4>2. QED
        BY <3>2, <4>1
    <3>7. end \in 1..Len(b) + 1
      BY <3>4, <3>5
    <3>8. QED
      BY <3>6, <3>7
  <2>3. QED
    BY <2>1, <2>2
<1>2. String(b) = SubSeq(b, 1, end - 1)
  BY DEF String
<1> HIDE DEF end
<1>3. \A i \in 1..end - 1 : b[i] \in Char
  BY <1>1
<1>4. QED
  BY <1>1, <1>2, <1>3, SubSeqProperties

\* What lcd_print sends for a string.
LEMMA PrintIs ==
  ASSUME NEW s \in Seq(Char)
  PROVE  /\ LcdPrint(s) \in Seq({LCD_ADR, LCD_ADR2} \cup Letter)
         /\ Line1(s) \in 0..Width /\ Rest(s) \in 0..Width
         /\ Rest(s) > 0 => Line1(s) = Width
         /\ Len(LcdPrint(s)) = Line1(s) + Rest(s) + 2
         /\ LcdPrint(s)[1] = LCD_ADR /\ LcdPrint(s)[Line1(s) + 2] = LCD_ADR2
         /\ \A i \in 2..Line1(s) + 1 :
              LcdPrint(s)[i] = Byte(1, s[i - 1][1], s[i - 1][2])
         /\ \A i \in Line1(s) + 3..Line1(s) + Rest(s) + 2 :
              LcdPrint(s)[i] = Byte(1, s[i - 2][1], s[i - 2][2])
<1> DEFINE B == {LCD_ADR, LCD_ADR2} \cup Letter
           last == IF Len(s) < 2 * Width THEN Len(s) ELSE 2 * Width
           a == SubSeq(s, 1, Line1(s))
           b == SubSeq(s, Width + 1, last)
<1>1. /\ Line1(s) \in 0..Width /\ Rest(s) \in 0..Width /\ Line1(s) <= Len(s)
      /\ Rest(s) > 0 => Line1(s) = Width /\ last = Width + Rest(s)
      /\ Rest(s) = 0 => last <= Width
      /\ last \in Nat /\ last <= Len(s)
  BY DEF Line1, Rest
<1>2. ASSUME NEW c \in Char PROVE Byte(1, c[1], c[2]) \in B
  BY DEF Letter
<1>3. /\ a \in Seq(Char) /\ Len(a) = Line1(s)
      /\ \A i \in 1..Line1(s) : a[i] = s[i]
  <2>1. \A i \in 1..Line1(s) : s[i] \in Char
    BY <1>1
  <2>2. QED
    BY <1>1, <2>1, SubSeqProperties
<1>4. /\ b \in Seq(Char) /\ Len(b) = Rest(s)
      /\ \A i \in 1..Rest(s) : b[i] = s[Width + i]
  <2>1. \A i \in Width + 1..last : s[i] \in Char
    BY <1>1
  <2>2. /\ b \in Seq(Char) /\ Len(b) = IF Width + 1 <= last THEN last - Width ELSE 0
        /\ \A i \in 1..last - Width : b[i] = s[Width + i]
    BY <1>1, <2>1, SubSeqProperties
  <2>3. QED
    BY <1>1, <2>2
<1>5. LcdPrint(s) = ((<<LCD_ADR>> \o Chars(a)) \o <<LCD_ADR2>>) \o Chars(b)
  BY DEF LcdPrint, Line1
<1> HIDE DEF a, b, last
<1>6. ASSUME NEW t \in Seq(Char)
      PROVE  /\ Chars(t) \in Seq(B) /\ Len(Chars(t)) = Len(t)
             /\ \A i \in 1..Len(t) : Chars(t)[i] = Byte(1, t[i][1], t[i][2])
  BY <1>2 DEF Chars
<1> HIDE DEF B
<1>7. <<LCD_ADR>> \in Seq(B) /\ <<LCD_ADR2>> \in Seq(B)
  BY DEF B
<1> DEFINE x == <<LCD_ADR>> \o Chars(a)
           y == x \o <<LCD_ADR2>>
<1>8. /\ x \in Seq(B) /\ Len(x) = Line1(s) + 1 /\ x[1] = LCD_ADR
      /\ \A i \in 2..Line1(s) + 1 : x[i] = Chars(a)[i - 1]
  BY <1>1, <1>3, <1>6, <1>7, ConcatProperties
<1> HIDE DEF x
<1>9. /\ y \in Seq(B) /\ Len(y) = Line1(s) + 2 /\ y[Line1(s) + 2] = LCD_ADR2
      /\ \A i \in 1..Line1(s) + 1 : y[i] = x[i]
  BY <1>1, <1>7, <1>8, ConcatProperties
<1>10. LcdPrint(s) = y \o Chars(b)
  BY <1>5 DEF x
<1> HIDE DEF y
<1>11. /\ LcdPrint(s) \in Seq(B) /\ Len(LcdPrint(s)) = Line1(s) + Rest(s) + 2
       /\ \A i \in 1..Line1(s) + 2 : LcdPrint(s)[i] = y[i]
       /\ \A i \in Line1(s) + 3..Line1(s) + Rest(s) + 2 :
            LcdPrint(s)[i] = Chars(b)[i - Line1(s) - 2]
  <2> DEFINE z == Chars(b)
  <2>1. z \in Seq(B) /\ Len(z) = Rest(s)
    BY <1>4, <1>6
  <2> HIDE DEF z
  <2>2. /\ y \o z \in Seq(B) /\ Len(y \o z) = Len(y) + Len(z)
        /\ \A i \in 1..Len(y) + Len(z) :
             (y \o z)[i] = IF i <= Len(y) THEN y[i] ELSE z[i - Len(y)]
    <3>1. y \in Seq(B)
      BY <1>9
    <3> HIDE DEF B
    <3>2. QED
      BY <2>1, <3>1, ConcatProperties
  <2>3. LcdPrint(s) = y \o z
    BY <1>10 DEF z
  <2>4. /\ LcdPrint(s) \in Seq(B) /\ Len(LcdPrint(s)) = Line1(s) + Rest(s) + 2
        /\ \A i \in 1..Line1(s) + 2 : LcdPrint(s)[i] = y[i]
    BY <1>1, <1>9, <2>1, <2>2, <2>3
  <2>5. ASSUME NEW i \in Line1(s) + 3..Line1(s) + Rest(s) + 2
        PROVE  LcdPrint(s)[i] = z[i - Line1(s) - 2]
    <3>1. Line1(s) \in Nat /\ Rest(s) \in Nat /\ Len(y) = Line1(s) + 2 /\ Len(z) = Rest(s)
      BY <1>1, <1>9, <2>1
    <3>2. /\ i \in 1..Len(y) + Len(z)
          /\ ~(i <= Len(y))
          /\ i - Len(y) = i - Line1(s) - 2
      BY <3>1
    <3>3. (y \o z)[i] = z[i - Len(y)]
      BY <2>2, <3>2
    <3>4. QED
      BY <2>3, <3>2, <3>3
  <2>6. QED
    BY <2>4, <2>5 DEF z
<1>12. \A i \in 2..Line1(s) + 1 : LcdPrint(s)[i] = Byte(1, s[i - 1][1], s[i - 1][2])
  <2>1. ASSUME NEW i \in 2..Line1(s) + 1
        PROVE  LcdPrint(s)[i] = Byte(1, s[i - 1][1], s[i - 1][2])
    <3>1. i - 1 \in 1..Line1(s)
      BY <1>1
    <3>2. Chars(a)[i - 1] = Byte(1, a[i - 1][1], a[i - 1][2])
      BY <1>3, <1>6, <3>1
    <3>3. LcdPrint(s)[i] = Chars(a)[i - 1]
      BY <1>1, <1>8, <1>9, <1>11
    <3>4. QED
      BY <1>3, <3>1, <3>2, <3>3
  <2>2. QED
    BY <2>1
<1>13. ASSUME NEW i \in Line1(s) + 3..Line1(s) + Rest(s) + 2
       PROVE  LcdPrint(s)[i] = Byte(1, s[i - 2][1], s[i - 2][2])
  <2>1. Line1(s) = Width /\ i - Line1(s) - 2 \in 1..Rest(s)
    BY <1>1
  <2>2. b[i - Line1(s) - 2] = s[i - 2]
    BY <1>1, <1>4, <2>1
  <2> DEFINE j == i - Line1(s) - 2
  <2>3. LcdPrint(s)[i] = Chars(b)[j]
    BY <1>11
  <2>4. j \in 1..Len(b) /\ b[j] = s[i - 2]
    BY <1>4, <2>1, <2>2
  <2> HIDE DEF j
  <2>5. Chars(b)[j] = Byte(1, b[j][1], b[j][2])
    BY <1>4, <1>6, <2>4
  <2>6. QED
    BY <2>3, <2>4, <2>5
<1>14. QED
  BY <1>1, <1>8, <1>9, <1>11, <1>12, <1>13 DEF B

-----------------------------------------------------------------------------
\* What a byte makes of the display.
LEMMA ToldTypes ==
  ASSUME NEW c \in Display, NEW r \in {0, 1}, NEW hi \in 0..15, NEW lo \in 0..15
  PROVE  /\ Told(c, Byte(r, hi, lo)) \in Display
         /\ Told(c, Byte(r, hi, lo)).first = <<>>
         /\ Told(c, Byte(r, hi, lo)).last = Byte(r, hi, lo)
<1> DEFINE b == Byte(r, hi, lo)
           d == [c EXCEPT !.first = <<>>, !.last = b]
<1>1. b.rs = r /\ b.nibbles[1] = hi /\ b.nibbles[2] = lo
  BY DEF Byte
<1>2. b \in Last /\ <<>> \in First
  BY DEF Last, First
<1> HIDE DEF b
<1>3. /\ d \in Display /\ d.first = <<>> /\ d.last = b
      /\ d.at = c.at /\ d.cells = c.cells
  BY <1>2 DEF Display
<1>4. ASSUME NEW e,
             \/ \E a \in 0..Nowhere : e = [d EXCEPT !.at = a]
             \/ \E w \in BOOLEAN : e = [d EXCEPT !.wide = w]
             \/ \E o \in BOOLEAN : e = [d EXCEPT !.on = o]
             \/ e = d
             \/ e = [d EXCEPT !.at = 0, !.sleeping = TRUE]
             \/ e = [d EXCEPT !.at = 0, !.cells = Cleared, !.sleeping = TRUE]
             \/ \E a \in 0..Nowhere, f \in Cells :
                  e = [d EXCEPT !.at = a, !.cells = f]
      PROVE  e \in Display /\ e.first = <<>> /\ e.last = b
  <2>1. Cleared \in Cells /\ 0 \in 0..Nowhere
    BY DEF Cleared, Cells, Blank, Nowhere
  <2> HIDE DEF d
  <2>2. ASSUME \/ \E a \in 0..Nowhere : e = [d EXCEPT !.at = a]
               \/ e = [d EXCEPT !.at = 0, !.sleeping = TRUE]
               \/ e = [d EXCEPT !.at = 0, !.cells = Cleared, !.sleeping = TRUE]
        PROVE  e \in Display /\ e.first = <<>> /\ e.last = b
    BY <1>3, <2>1, <2>2 DEF Display
  <2>3. ASSUME NEW a \in 0..Nowhere, NEW f \in Cells, e = [d EXCEPT !.at = a, !.cells = f]
        PROVE  e \in Display /\ e.first = <<>> /\ e.last = b
    BY <1>3, <2>3 DEF Display
  <2>4. ASSUME \/ \E w \in BOOLEAN : e = [d EXCEPT !.wide = w]
               \/ \E o \in BOOLEAN : e = [d EXCEPT !.on = o]
               \/ e = d
        PROVE  e \in Display /\ e.first = <<>> /\ e.last = b
    BY <1>3, <2>4 DEF Display
  <2>5. QED
    BY <1>4, <2>2, <2>3, <2>4
<1>5. CASE r = 1
  <2> DEFINE a == Next7(c.at)
             f == [i \in DOMAIN c.cells |-> IF i \in Cell(c.at) THEN <<hi, lo>>
                                            ELSE c.cells[i]]
  <2>1. Told(c, b) = [d EXCEPT !.at = Next7(@),
          !.cells = [i \in DOMAIN @ |-> IF i \in Cell(c.at) THEN <<hi, lo>> ELSE @[i]]]
    BY <1>1, <1>5 DEF Told
  <2>2. Told(c, b) = [d EXCEPT !.at = a, !.cells = f]
    BY <2>1, <1>3
  <2>3. a \in 0..Nowhere
    <3>1. c.at \in 0..128
      BY DEF Display, Nowhere
    <3>2. \A x \in Nat : x % 128 \in 0..127
      OBVIOUS
    <3>3. ASSUME NEW x \in 0..128 PROVE Next7(x) \in 0..128
      <4>1. (x + 1) % 128 \in 0..127
        BY <3>2
      <4>2. QED
        BY <4>1 DEF Next7, Nowhere
    <3>4. QED
      BY <3>1, <3>3 DEF Nowhere
  <2>4. f \in Cells
    <3>1. c.cells \in Cells /\ <<hi, lo>> \in (0..15) \X (0..15)
      BY DEF Display
    <3>2. QED
      BY <3>1 DEF Cells
  <2> HIDE DEF a, f, d
  <2>5. QED
    BY <1>4, <2>2, <2>3, <2>4 DEF b
<1>6. CASE r = 0
  <2>1. (hi - 8) * 16 + lo \in Int /\ (hi >= 8 => (hi - 8) * 16 + lo \in 0..Nowhere)
    BY DEF Nowhere
  <2>2. \/ hi >= 8 /\ Told(c, b) = [d EXCEPT !.at = (hi - 8) * 16 + lo]
        \/ Told(c, b) = [d EXCEPT !.at = Nowhere]
        \/ Told(c, b) = [d EXCEPT !.wide = hi = 3]
        \/ Told(c, b) = d
        \/ Told(c, b) = [d EXCEPT !.on = lo >= 12]
        \/ Told(c, b) = [d EXCEPT !.at = 0, !.sleeping = TRUE]
        \/ Told(c, b) = [d EXCEPT !.at = 0, !.cells = Cleared, !.sleeping = TRUE]
    BY <1>1, <1>6 DEF Told
  <2>3. Nowhere \in 0..Nowhere /\ (hi = 3) \in BOOLEAN /\ (lo >= 12) \in BOOLEAN
    BY DEF Nowhere
  <2> HIDE DEF d
  <2>4. QED
    BY <1>4, <2>1, <2>2, <2>3 DEF b
<1>7. QED
  BY <1>5, <1>6

\* What each byte the driver sends leaves alone, and what it sets.
LEMMA ToldItem ==
  ASSUME NEW c \in Display, NEW it \in Command \cup Letter
  PROVE  /\ it # LCD_SET => Told(c, it).wide = c.wide
         /\ ~c.wide => ~Told(c, it).wide
         /\ it # LCD_CLR => Told(c, it).sleeping = c.sleeping
         /\ it \in {LCD_ON, LCD_OFF} =>
              Told(c, it).at = c.at /\ Told(c, it).cells = c.cells
         /\ it = LCD_ADR => Told(c, it).at = 0 /\ Told(c, it).cells = c.cells
         /\ it = LCD_ADR2 => Told(c, it).at = Line2 /\ Told(c, it).cells = c.cells
<1> DEFINE d == [c EXCEPT !.first = <<>>, !.last = it]
<1>1. /\ d.wide = c.wide /\ d.sleeping = c.sleeping /\ d.at = c.at /\ d.cells = c.cells
      /\ d \in [wide : BOOLEAN, first : {<<>>}, sleeping : BOOLEAN, on : BOOLEAN,
                at : 0..Nowhere, cells : Cells, last : {it}]
  BY DEF Display
<1> HIDE DEF d
<1>2. CASE it = LCD_SET
  <2>1. it.rs = 0 /\ it.nibbles[1] = 2 /\ it.nibbles[2] = 8
    BY <1>2 DEF LCD_SET, Byte
  <2>2. Told(c, it) = [d EXCEPT !.wide = 2 = 3]
    BY <2>1 DEF Told, d
  <2>3. QED
    BY <1>1, <1>2, <2>2 DEF LCD_SET, LCD_ON, LCD_OFF, LCD_ADR, LCD_ADR2, LCD_CLR, Byte
<1>3. CASE it \in {LCD_ON, LCD_OFF}
  <2>1. it.rs = 0 /\ it.nibbles[1] = 0 /\ it.nibbles[2] \in {8, 12}
    BY <1>3 DEF LCD_ON, LCD_OFF, Byte
  <2>2. Told(c, it) = [d EXCEPT !.on = it.nibbles[2] >= 12]
    BY <2>1 DEF Told, d
  <2>3. it \notin {LCD_ADR, LCD_ADR2}
    BY <1>3, ItemsDiffer
  <2>4. QED
    BY <1>1, <2>2, <2>3
<1>4. CASE it = LCD_MD
  <2>1. it.rs = 0 /\ it.nibbles[1] = 0 /\ it.nibbles[2] = 6
    BY <1>4 DEF LCD_MD, Byte
  <2>2. Told(c, it) = d
    BY <2>1 DEF Told, d
  <2>3. it \notin {LCD_ADR, LCD_ADR2}
    BY <2>1 DEF LCD_ADR, LCD_ADR2, Byte
  <2>4. QED
    BY <1>1, <2>2, <2>3
<1>5. CASE it \in {LCD_ADR, LCD_ADR2}
  <2>1. /\ it.rs = 0 /\ it.nibbles[1] >= 8 /\ it.nibbles[1] \in 0..15
        /\ it = LCD_ADR => (it.nibbles[1] - 8) * 16 + it.nibbles[2] = 0
        /\ it = LCD_ADR2 => (it.nibbles[1] - 8) * 16 + it.nibbles[2] = Line2
    BY <1>5 DEF LCD_ADR, LCD_ADR2, Byte, Line2
  <2>2. Told(c, it) = [d EXCEPT !.at = (it.nibbles[1] - 8) * 16 + it.nibbles[2]]
    BY <2>1 DEF Told, d
  <2>3. it \notin {LCD_ON, LCD_OFF}
    BY <1>5, ItemsDiffer
  <2>4. QED
    BY <1>1, <2>1, <2>2, <2>3
<1>6. CASE it = LCD_CLR
  <2>1. it.rs = 0 /\ it.nibbles[1] = 0 /\ it.nibbles[2] = 1
    BY <1>6 DEF LCD_CLR, Byte
  <2>2. Told(c, it) = [d EXCEPT !.at = 0, !.cells = Cleared, !.sleeping = TRUE]
    BY <2>1 DEF Told, d
  <2>3. it \notin {LCD_ON, LCD_OFF, LCD_ADR, LCD_ADR2}
    BY <1>6, ItemsDiffer
  <2>4. QED
    BY <1>1, <1>6, <2>2, <2>3
<1>7. CASE it \in Letter
  <2>1. it.rs = 1 /\ it \notin {LCD_ON, LCD_OFF, LCD_ADR, LCD_ADR2}
    BY <1>7, ItemsDiffer DEF Command
  <2>2. \E a, f : Told(c, it) = [d EXCEPT !.at = a, !.cells = f]
    BY <2>1 DEF Told, d
  <2>3. QED
    BY <1>1, <2>1, <2>2
<1>8. QED
  BY <1>2, <1>3, <1>4, <1>5, <1>6, <1>7 DEF Command

\* A letter goes to the cell at the address, and the address goes on.
LEMMA ToldLetter ==
  ASSUME NEW c \in Display, NEW p \in Char
  PROVE  LET e == Told(c, Byte(1, p[1], p[2])) IN
         /\ e.at = Next7(c.at)
         /\ \A i \in 1..2 * Width :
              e.cells[i] = IF i \in Cell(c.at) THEN p ELSE c.cells[i]
<1> DEFINE b == Byte(1, p[1], p[2])
           d == [c EXCEPT !.first = <<>>, !.last = b]
           f == [i \in DOMAIN c.cells |-> IF i \in Cell(c.at) THEN p ELSE c.cells[i]]
<1>1. b.rs = 1 /\ b.nibbles[1] = p[1] /\ b.nibbles[2] = p[2]
  BY DEF Byte
<1>2. p = <<p[1], p[2]>>
  OBVIOUS
<1> HIDE DEF b
<1>3. d.at = c.at /\ d.cells = c.cells
  BY DEF Display
<1>4. Told(c, b) = [d EXCEPT !.at = Next7(@),
        !.cells = [i \in DOMAIN @ |-> IF i \in Cell(c.at) THEN <<p[1], p[2]>> ELSE @[i]]]
  BY <1>1 DEF Told
<1>5. Told(c, b).at = Next7(c.at) /\ Told(c, b).cells = f
  BY <1>2, <1>4 DEF Display
<1>6. DOMAIN c.cells = 1..2 * Width
  BY DEF Display, Cells
<1>7. QED
  BY <1>5, <1>6 DEF b

\* What the falling edge of enable makes of the display.
LEMMA LatchedIs ==
  ASSUME NEW c \in Display, NEW r, NEW n, NEW d \in Latched(c, r, n)
  PROVE  \/ c.sleeping /\ d = c
         \/ c.wide /\ d = Told(c, Byte(r, n, 15))
         \/ ~c.wide /\ c.first = <<>> /\ d = [c EXCEPT !.first = <<r, n>>]
         \/ /\ ~c.wide /\ c.first # <<>>
            /\ \E q \in {c.first[1], r} : d = Told(c, Byte(q, c.first[2], n))
BY DEF Latched

\* The second half of a byte completes it.
LEMMA SecondTold ==
  ASSUME NEW c \in Display, c.first # <<>>, NEW r \in {0, 1},
         NEW q \in {c.first[1], r}, NEW n \in 0..15
  PROVE  /\ Told(c, Byte(q, c.first[2], n)) \in Display
         /\ Told(c, Byte(q, c.first[2], n)).first = <<>>
<1>1. c.first[1] \in {0, 1} /\ c.first[2] \in 0..15
  BY DEF Display, First
<1>2. q \in {0, 1}
  BY <1>1
<1> DEFINE hi == c.first[2]
<1>3. hi \in 0..15
  BY <1>1
<1> HIDE DEF hi
<1>4. /\ Told(c, Byte(q, hi, n)) \in Display
      /\ Told(c, Byte(q, hi, n)).first = <<>>
  BY <1>2, <1>3, ToldTypes
<1>5. QED
  BY <1>4 DEF hi

\* The display stays one, and clears itself only when told so with a whole byte.
LEMMA LatchedTypes ==
  ASSUME NEW c \in Display, c.wide => c.first = <<>>,
         NEW r \in {0, 1}, NEW n \in 0..15, NEW d \in Latched(c, r, n)
  PROVE  /\ d \in Display /\ (d.wide => d.first = <<>>)
         /\ d.sleeping => d.first = <<>> \/ c.sleeping
         /\ d.first \in {<<>>, c.first, <<r, n>>}
<1>1. CASE c.sleeping /\ d = c
  BY <1>1
<1>2. CASE c.wide /\ d = Told(c, Byte(r, n, 15))
  <2>1. 15 \in 0..15 /\ r \in {0, 1} /\ n \in 0..15
    OBVIOUS
  <2>2. d \in Display /\ d.first = <<>>
    BY <1>2, <2>1, ToldTypes
  <2>3. QED
    BY <2>2
<1>3. CASE ~c.wide /\ c.first = <<>> /\ d = [c EXCEPT !.first = <<r, n>>]
  <2>1. <<r, n>> \in First
    BY DEF First
  <2>2. d \in Display /\ d.first = <<r, n>> /\ d.wide = c.wide /\ d.sleeping = c.sleeping
    BY <1>3, <2>1 DEF Display
  <2>3. QED
    BY <1>3, <2>2
<1>4. ASSUME ~c.wide, c.first # <<>>, NEW q \in {c.first[1], r},
             d = Told(c, Byte(q, c.first[2], n))
      PROVE  d \in Display /\ d.first = <<>>
  BY <1>4, SecondTold
<1>5. QED
  BY <1>1, <1>2, <1>3, <1>4, LatchedIs

-----------------------------------------------------------------------------
\* Scripts of whole bytes.
LEMMA PlainTail ==
  ASSUME NEW s \in Seq(Items), s # <<>>, Plain(s)
  PROVE  Plain(Tail(s))
<1>1. /\ Tail(s) \in Seq(Items) /\ Len(Tail(s)) = Len(s) - 1 /\ Len(s) \in Nat \ {0}
      /\ \A i \in 1..Len(s) - 1 : Tail(s)[i] = s[i + 1]
  OBVIOUS
<1>2. ASSUME NEW i \in DOMAIN Tail(s)
      PROVE  /\ Tail(s)[i] \in Command \cup Letter \cup {Sleep}
             /\ Tail(s)[i] = LCD_CLR =>
                  i + 1 \in DOMAIN Tail(s) /\ Tail(s)[i + 1] = Sleep
  <2>1. i + 1 \in DOMAIN s /\ Tail(s)[i] = s[i + 1] /\ i \in 1..Len(s) - 1
    BY <1>1
  <2>2. s[i + 1] = LCD_CLR => i + 2 \in 1..Len(s) /\ s[i + 2] = Sleep
    BY <2>1 DEF Plain
  <2>3. i + 2 \in 1..Len(s) => Tail(s)[i + 1] = s[i + 2] /\ i + 1 \in DOMAIN Tail(s)
    BY <1>1, <2>1
  <2>4. QED
    BY <2>1, <2>2, <2>3 DEF Plain
<1>3. QED
  BY <1>2 DEF Plain

LEMMA PlainConcat ==
  ASSUME NEW s \in Seq(Items), NEW r \in Seq(Items), Plain(s), Plain(r)
  PROVE  s \o r \in Seq(Items) /\ Plain(s \o r)
<1> DEFINE q == s \o r
<1>1. /\ q \in Seq(Items) /\ Len(q) = Len(s) + Len(r)
      /\ \A i \in 1..Len(s) + Len(r) : q[i] = IF i <= Len(s) THEN s[i] ELSE r[i - Len(s)]
  BY ConcatProperties
<1> HIDE DEF q
<1>2. ASSUME NEW i \in DOMAIN q
      PROVE  /\ q[i] \in Command \cup Letter \cup {Sleep}
             /\ q[i] = LCD_CLR => i + 1 \in DOMAIN q /\ q[i + 1] = Sleep
  <2>1. CASE i <= Len(s)
    <3>1. i \in DOMAIN s /\ q[i] = s[i]
      BY <1>1, <2>1
    <3>2. s[i] = LCD_CLR => i + 1 \in 1..Len(s) /\ s[i + 1] = Sleep
      BY <3>1 DEF Plain
    <3>3. QED
      BY <1>1, <3>1, <3>2 DEF Plain
  <2>2. CASE ~(i <= Len(s))
    <3>1. i - Len(s) \in DOMAIN r /\ q[i] = r[i - Len(s)]
      BY <1>1, <2>2
    <3>2. r[i - Len(s)] = LCD_CLR =>
            i - Len(s) + 1 \in 1..Len(r) /\ r[i - Len(s) + 1] = Sleep
      BY <3>1 DEF Plain
    <3>3. r[i - Len(s)] = LCD_CLR => i + 1 \in DOMAIN q /\ q[i + 1] = Sleep
      BY <1>1, <2>2, <3>1, <3>2
    <3>4. QED
      BY <3>1, <3>3 DEF Plain
  <2>3. QED
    BY <2>1, <2>2
<1>3. Plain(q)
  BY <1>2 DEF Plain
<1>4. QED
  BY <1>1, <1>3 DEF q

\* What the scripts of lcd_task are made of.
LEMMA Scripts ==
  /\ Clear \in Seq(Items) /\ Plain(Clear)
  /\ \A s \in Seq(Char) : LcdPrint(s) \in Seq(Items) /\ Plain(LcdPrint(s))
  /\ \A s \in Seq(Char) : LET g == <<LCD_ON>> \o Clear \o LcdPrint(s)
                          IN  g \in Seq(Items) /\ Plain(g)
<1>1. Clear \in Seq(Items) /\ Plain(Clear)
  <2>1. Clear[1] = LCD_CLR /\ Clear[2] = Sleep /\ Len(Clear) = 2 /\ Clear \in Seq(Items)
    BY DEF Clear, Items, Command
  <2>2. DOMAIN Clear = {1, 2} /\ 1 + 1 = 2
    BY <2>1
  <2>3. LCD_CLR \in Command /\ Sleep # LCD_CLR
    BY ItemsDiffer DEF Command
  <2>4. QED
    BY <2>1, <2>2, <2>3 DEF Plain
<1>2. ASSUME NEW s \in Seq(Char)
      PROVE  LcdPrint(s) \in Seq(Items) /\ Plain(LcdPrint(s))
  <2>1. LcdPrint(s) \in Seq({LCD_ADR, LCD_ADR2} \cup Letter)
    BY PrintIs
  <2>2. {LCD_ADR, LCD_ADR2} \cup Letter \subseteq Items
    BY DEF Items, Command
  <2>3. \A i \in DOMAIN LcdPrint(s) : LcdPrint(s)[i] \in {LCD_ADR, LCD_ADR2} \cup Letter
    BY <2>1
  <2>4. LCD_CLR \notin {LCD_ADR, LCD_ADR2} \cup Letter /\ {LCD_ADR, LCD_ADR2} \subseteq Command
    BY ItemsDiffer DEF Command
  <2>5. LcdPrint(s) \in Seq(Items)
    BY <2>1, <2>2, SeqMonotonic
  <2>6. QED
    BY <2>3, <2>4, <2>5 DEF Plain
<1>3. ASSUME NEW s \in Seq(Char)
      PROVE  LET g == <<LCD_ON>> \o Clear \o LcdPrint(s) IN g \in Seq(Items) /\ Plain(g)
  <2> DEFINE h == <<LCD_ON>>
  <2>1. h \in Seq(Items) /\ DOMAIN h = {1} /\ h[1] = LCD_ON
    BY DEF Items, Command
  <2>2. Plain(h)
    BY <2>1, ItemsDiffer DEF Plain, Command
  <2> HIDE DEF h
  <2>3. h \o Clear \in Seq(Items) /\ Plain(h \o Clear)
    BY <1>1, <2>1, <2>2, PlainConcat
  <2> DEFINE k == h \o Clear
  <2>4. k \in Seq(Items) /\ Plain(k)
    BY <2>3
  <2> HIDE DEF k
  <2>5. k \o LcdPrint(s) \in Seq(Items) /\ Plain(k \o LcdPrint(s))
    BY <1>2, <2>4, PlainConcat
  <2>6. QED
    BY <2>5 DEF h, k
<1>4. QED
  BY <1>1, <1>2, <1>3

\* The item a task is at, and the script behind it.
LEMMA ItemAt ==
  ASSUME Types, NEW t \in Task, Busy(t)
  PROVE  /\ script[t] \in Seq(Items) /\ 1 \in DOMAIN script[t]
         /\ Item(t) = script[t][1] /\ Item(t) \in Items
         /\ Tail(script[t]) \in Seq(Items)
         /\ Len(Tail(script[t])) = Len(script[t]) - 1 /\ Len(script[t]) \in Nat \ {0}
         /\ \A i \in DOMAIN Tail(script[t]) :
              i + 1 \in DOMAIN script[t] /\ Tail(script[t])[i] = script[t][i + 1]
         /\ <<>> \in Seq(Items)
<1>1. script[t] \in Seq(Items) /\ script[t] # <<>>
  BY DEF Types, Busy
<1>2. QED
  BY <1>1 DEF Item

\* A write: the nibble, the register select and the enable line it puts on the pins.
LEMMA WriteIs ==
  ASSUME Types, NEW t \in Task, Write(t)
  PROVE  /\ step[t] \in 0..5 /\ step' = [step EXCEPT ![t] = step[t] + 1]
         /\ Busy(t) /\ Item(t) \in Items /\ Item(t).do # "sleep"
         /\ Len(Item(t).nibbles) = 2 \/ (Len(Item(t).nibbles) = 1 /\ step[t] \in 0..2)
         /\ pins' = [e |-> IF step[t] \in {1, 4} THEN 1 ELSE 0, rs |-> Item(t).rs,
                     n |-> Item(t).nibbles[IF step[t] < 3 THEN 1 ELSE 2]]
         /\ Item(t).rs \in {0, 1}
         /\ Item(t).nibbles[IF step[t] < 3 THEN 1 ELSE 2] \in 0..15
         /\ \/ ~(pins.e = 1 /\ pins'.e = 0) /\ ctrl' = ctrl
            \/ /\ pins.e = 1 /\ pins'.e = 0
               /\ \E p \in {pins, pins'} : ctrl' \in Latched(ctrl, p.rs, p.n)
         /\ UNCHANGED <<stage, mutex, buf, script, refused>>
<1>1. Item(t) \in Items /\ Busy(t)
  BY ItemAt DEF Write
<1>2. /\ Len(Item(t).nibbles) \in 0..2 /\ Item(t).rs \in {0, 1}
      /\ \A i \in 1..Len(Item(t).nibbles) : Item(t).nibbles[i] \in 0..15
      /\ Len(Item(t).nibbles) = 0 => Item(t).do = "sleep"
      /\ Item(t).do = "sleep" => Len(Item(t).nibbles) = 0
  <2> DEFINE it == Item(t)
  <2>1. it \in Items
    BY <1>1
  <2> HIDE DEF it
  <2>2. /\ it.rs \in {0, 1} /\ it.do \in {"byte", "nibble", "sleep"}
        /\ it.do = "sleep" => it = Sleep
        /\ Len(it.nibbles) \in 0..2
        /\ it.do = "byte" => Len(it.nibbles) = 2
        /\ it.do = "nibble" => Len(it.nibbles) = 1
        /\ \A i \in 1..Len(it.nibbles) : it.nibbles[i] \in 0..15
    BY <2>1, ItemTypes
  <2>3. it = Sleep => Len(it.nibbles) = 0
    BY DEF Sleep
  <2>4. Len(it.nibbles) = 0 => it.do = "sleep"
    BY <2>2
  <2>5. QED
    BY <2>2, <2>3, <2>4 DEF it
<1>3. step[t] \in Int /\ step[t] >= 0 /\ step[t] <= 3 * Len(Item(t).nibbles) - 1
  BY <1>2 DEF Write, Writes
<1>4. /\ step[t] \in 0..5
      /\ Len(Item(t).nibbles) = 2 \/ (Len(Item(t).nibbles) = 1 /\ step[t] \in 0..2)
  BY <1>2, <1>3
<1>5. /\ step[t] % 3 = 1 <=> step[t] \in {1, 4}
      /\ 1 + step[t] \div 3 = IF step[t] < 3 THEN 1 ELSE 2
  <2>1. step[t] \in {0, 1, 2, 3, 4, 5}
    BY <1>4
  <2>2. /\ 0 % 3 = 0 /\ 1 % 3 = 1 /\ 2 % 3 = 2 /\ 3 % 3 = 0 /\ 4 % 3 = 1 /\ 5 % 3 = 2
        /\ 0 \div 3 = 0 /\ 1 \div 3 = 0 /\ 2 \div 3 = 0
        /\ 3 \div 3 = 1 /\ 4 \div 3 = 1 /\ 5 \div 3 = 1
    OBVIOUS
  <2>3. QED
    BY <2>1, <2>2
<1>6. pins' = [e |-> IF step[t] \in {1, 4} THEN 1 ELSE 0, rs |-> Item(t).rs,
               n |-> Item(t).nibbles[IF step[t] < 3 THEN 1 ELSE 2]]
  BY <1>5 DEF Write
<1>7. Item(t).nibbles[IF step[t] < 3 THEN 1 ELSE 2] \in 0..15
  <2> DEFINE i == IF step[t] < 3 THEN 1 ELSE 2
             l == Len(Item(t).nibbles)
  <2>1. l = 2 \/ (l = 1 /\ step[t] < 3)
    BY <1>4
  <2>2. i \in 1..l
    <3> HIDE DEF l
    <3>1. QED
      BY <2>1
  <2>3. \A k \in 1..l : Item(t).nibbles[k] \in 0..15
    BY <1>2
  <2> HIDE DEF i, l
  <2>4. Item(t).nibbles[i] \in 0..15
    BY <2>2, <2>3
  <2>5. QED
    BY <2>4 DEF i
<1>8. /\ step' = [step EXCEPT ![t] = step[t] + 1]
      /\ \/ ~(pins.e = 1 /\ pins'.e = 0) /\ ctrl' = ctrl
         \/ /\ pins.e = 1 /\ pins'.e = 0
            /\ \E p \in {pins, pins'} : ctrl' \in Latched(ctrl, p.rs, p.n)
      /\ UNCHANGED <<stage, mutex, buf, script, refused>>
  BY DEF Write
<1>9. Item(t).do # "sleep"
  BY <1>2, <1>4
<1>10. QED
  BY <1>1, <1>2, <1>4, <1>6, <1>7, <1>8, <1>9


-----------------------------------------------------------------------------
\* A task with writes of an item behind or before it owns the mutex alone.
LEMMA Owner ==
  ASSUME Types, LockInv
  PROVE  /\ \A t \in Task : step[t] # -1 =>
              /\ stage # "down" /\ mutex = [owner |-> t, depth |-> 1] /\ mutex # Free
              /\ Busy(t) /\ \A u \in Task : step[u] # -1 => u = t
         /\ stage # "down" /\ (\A t \in Task : step[t] = -1) => mutex = Free
         /\ stage # "down" /\ mutex = Free => \A t \in Task : step[t] = -1
<1>1. mutex \in Mutexes
  BY DEF Types
<1>2. \A t \in Task : step[t] # -1 => stage # "down" /\ mutex.owner = t /\ Busy(t)
  BY DEF LockInv
<1>3. Free.owner = NoTask /\ NoTask \notin Task
  BY DEF Free
<1>4. ASSUME NEW t \in Task, step[t] # -1
      PROVE  mutex = [owner |-> t, depth |-> 1] /\ mutex # Free
  <2>1. mutex.owner = t /\ mutex # Free /\ mutex.depth = 1
    BY <1>2, <1>3, <1>4 DEF LockInv
  <2>2. QED
    BY <1>1, <2>1 DEF Mutexes
<1>5. ASSUME stage # "down", \A t \in Task : step[t] = -1
      PROVE  mutex = Free
  BY <1>5 DEF LockInv
<1>6. ASSUME stage # "down", mutex = Free
      PROVE  \A t \in Task : step[t] = -1
  BY <1>3, <1>6 DEF LockInv
<1>7. QED
  BY <1>2, <1>4, <1>5, <1>6

\* The items of lcd_init that are left.
LEMMA InitItems ==
  ASSUME Types, ScriptInv, stage = "init"
  PROVE  /\ Place \in 1..16 /\ Len(script[Daemon]) = 16 - Place
         /\ Busy(Daemon) <=> Place < 16
         /\ Busy(Daemon) =>
              /\ Item(Daemon) = LcdInit[Place]
              /\ Tail(script[Daemon]) = SubSeq(LcdInit, Place + 1, Len(LcdInit))
              /\ Len(Tail(script[Daemon])) = 16 - (Place + 1)
<1>1. /\ Place \in 1..16 /\ script[Daemon] = SubSeq(LcdInit, Place, Len(LcdInit))
      /\ script[Daemon] \in Seq(Items)
  BY DEF ScriptInv, Types
<1>2. LcdInit \in Seq(Items) /\ Len(LcdInit) = 15
  BY LcdInitIs
<1>3. Place \in 1..Len(LcdInit) + 1
  BY <1>1, <1>2
<1>4. /\ Len(script[Daemon]) = Len(LcdInit) + 1 - Place
      /\ script[Daemon] # <<>> =>
           /\ Place <= Len(LcdInit) /\ script[Daemon][1] = LcdInit[Place]
           /\ Tail(script[Daemon]) = SubSeq(LcdInit, Place + 1, Len(LcdInit))
      /\ Place = Len(LcdInit) + 1 => script[Daemon] = <<>>
  BY <1>1, <1>2, <1>3, Onwards
<1>5. Len(script[Daemon]) = 16 - Place
  BY <1>1, <1>2, <1>4
<1>6. Busy(Daemon) <=> Place < 16
  <2>1. script[Daemon] # <<>> => Place < 16
    BY <1>1, <1>2, <1>4
  <2>2. script[Daemon] = <<>> => Len(script[Daemon]) = 0
    OBVIOUS
  <2>3. script[Daemon] = <<>> => ~(Place < 16)
    BY <1>1, <1>5, <2>2
  <2>4. QED
    BY <2>1, <2>3 DEF Busy
<1>7. ASSUME Busy(Daemon)
      PROVE  Len(Tail(script[Daemon])) = 16 - (Place + 1)
  <2>1. Len(Tail(script[Daemon])) = Len(script[Daemon]) - 1
    BY <1>1, <1>7 DEF Busy
  <2>2. QED
    BY <1>1, <1>5, <2>1
<1>8. QED
  BY <1>1, <1>4, <1>5, <1>6, <1>7 DEF Item, Busy

\* Before it is tuned the daemon is at a nibble of the workaround or a sleep.
LEMMA TuningItem ==
  ASSUME Types, ScriptInv, stage = "init", Place <= 8
  PROVE  /\ Place \in 1..8 /\ Busy(Daemon)
         /\ Place \in {1, 3, 5} => Item(Daemon) = SetEight
         /\ Place = 7 => Item(Daemon) = SetFour
         /\ Place \in {2, 4, 6, 8} => Item(Daemon) = Sleep
<1>1. Place \in 1..8 /\ Busy(Daemon) /\ Item(Daemon) = LcdInit[Place]
  BY InitItems
<1>2. QED
  BY <1>1, LcdInitIs

\* Once it is tuned there are bytes and sleeps, and a clear is followed by a sleep.
LEMMA TunedItem ==
  ASSUME Types, LockInv, ScriptInv, Tuned, NEW t \in Task, Busy(t)
  PROVE  /\ Item(t) \in Command \cup Letter \cup {Sleep}
         /\ t # Daemon => Item(t) \in {LCD_ON, LCD_OFF} /\ stage = "serve"
         /\ stage = "serve" => Item(t) \notin {Sleep, LCD_CLR}
         /\ Item(t) = LCD_CLR =>
              t = Daemon /\ Tail(script[t]) # <<>> /\ Tail(script[t])[1] = Sleep
<1>1. 1 \in DOMAIN script[t] /\ Item(t) = script[t][1]
  BY ItemAt
<1>2. {LCD_ON, LCD_OFF, LCD_ADR, LCD_ADR2, LCD_CLR} \subseteq Command
  BY ItemsDiffer DEF Command
<1>3. \A it \in Letter : it \notin {Sleep, LCD_CLR}
  BY <1>2, ItemsDiffer DEF Sleep
<1>4. CASE t # Daemon
  <2>1. Item(t) \in {LCD_ON, LCD_OFF}
    BY <1>1, <1>4 DEF ScriptInv
  <2>2. stage \notin {"init", "greet", "clean"}
    BY <1>4 DEF LockInv
  <2>3. Item(t) \notin {Sleep, LCD_CLR}
    BY <2>1, ItemsDiffer, <1>2
  <2>4. QED
    BY <1>2, <1>4, <2>1, <2>2, <2>3 DEF Tuned
<1>5. CASE t = Daemon /\ stage = "serve"
  <2>1. Item(t) \in {LCD_ADR, LCD_ADR2} \cup Letter
    BY <1>1, <1>5 DEF ScriptInv
  <2>2. Item(t) \notin {Sleep, LCD_CLR}
    BY <2>1, ItemsDiffer, <1>2, <1>3
  <2>3. QED
    BY <1>2, <1>5, <2>1, <2>2
<1>6. CASE t = Daemon /\ stage \in {"greet", "clean"}
  <2>1. Plain(script[t])
    BY <1>6 DEF ScriptInv
  <2>2. /\ Item(t) \in Command \cup Letter \cup {Sleep}
        /\ Item(t) = LCD_CLR => 2 \in DOMAIN script[t] /\ script[t][2] = Sleep
    BY <1>1, <2>1 DEF Plain
  <2>3. 2 \in DOMAIN script[t] => Tail(script[t]) # <<>> /\ Tail(script[t])[1] = script[t][2]
    <3> DEFINE q == script[t]
               r == Tail(q)
    <3>1. /\ q \in Seq(Items) /\ r \in Seq(Items) /\ Len(r) = Len(q) - 1
          /\ \A i \in DOMAIN r : r[i] = q[i + 1]
      BY ItemAt
    <3> HIDE DEF q, r
    <3>2. ASSUME 2 \in DOMAIN q
          PROVE  r # <<>> /\ r[1] = q[2]
      <4>1. Len(q) >= 2 /\ 1 \in DOMAIN r
        BY <3>1, <3>2
      <4>2. QED
        BY <3>1, <4>1
    <3>3. QED
      BY <3>2 DEF q, r
  <2>4. QED
    BY <1>6, <2>2, <2>3
<1>7. CASE t = Daemon /\ stage = "init"
  <2>1. Place \in 9..15 /\ Item(t) = LcdInit[Place]
    BY <1>7, InitItems DEF Tuned
  <2>2. Item(t) \in Command \cup {Sleep} /\ (Item(t) = LCD_CLR => Place = 11)
    BY <2>1, LcdInitIs, ItemsDiffer DEF Command
  <2>3. ASSUME Place = 11
        PROVE  Tail(script[t]) # <<>> /\ Tail(script[t])[1] = Sleep
    <3> DEFINE r == Tail(script[t])
    <3>1. r = SubSeq(LcdInit, 12, Len(LcdInit)) /\ r \in Seq(Items)
      BY <1>7, <2>3, InitItems, ItemAt
    <3>2. 12 \in 1..Len(LcdInit) + 1 /\ LcdInit \in Seq(Items) /\ Len(LcdInit) = 15
      BY LcdInitIs
    <3> HIDE DEF r
    <3>3. /\ Len(r) = Len(LcdInit) + 1 - 12
          /\ r # <<>> => r[1] = LcdInit[12]
      BY <3>1, <3>2, Onwards
    <3>4. Len(r) = 4
      BY <3>2, <3>3
    <3>5. r # <<>>
      BY <3>4
    <3>6. QED
      BY <3>3, <3>5, LcdInitIs DEF r
  <2>4. QED
    BY <1>7, <2>2, <2>3
<1>8. QED
  BY <1>4, <1>5, <1>6, <1>7 DEF Tuned

-----------------------------------------------------------------------------
\* A message over the start of the buffer leaves a buffer.
LEMMA ReadBuf ==
  ASSUME Types, NEW s \in Messages
  PROVE  LET b == s \o SubSeq(buf, Len(s) + 1, Len(buf)) IN
         b \in Seq(Char \cup {NUL}) /\ Len(b) <= BufLen
<1> DEFINE C == Char \cup {NUL}
           r == SubSeq(buf, Len(s) + 1, Len(buf))
<1>1. s \in Seq(C) /\ Len(s) \in 1..BufLen
  OBVIOUS
<1>2. buf \in Seq(C) /\ Len(buf) <= BufLen /\ BufLen \in Nat
  BY DEF Types
<1> HIDE DEF C
<1>3. \A i \in Len(s) + 1..Len(buf) : buf[i] \in C
  BY <1>1, <1>2
<1>4. r \in Seq(C) /\ Len(r) = IF Len(s) + 1 <= Len(buf) THEN Len(buf) - (Len(s) + 1) + 1 ELSE 0
  BY <1>1, <1>2, <1>3, SubSeqProperties
<1> HIDE DEF r
<1>5. s \o r \in Seq(C) /\ Len(s \o r) = Len(s) + Len(r)
  BY <1>1, <1>4, ConcatProperties
<1>6. Len(s \o r) <= BufLen
  BY <1>1, <1>2, <1>4, <1>5
<1>7. QED
  BY <1>5, <1>6 DEF r, C

LEMMA InitTypes ==
  ASSUME Init
  PROVE  Types
<1>1. Free \in Mutexes
  BY DEF Free, Mutexes
<1>2. PowerOn \in Display /\ PowerOn.first = <<>>
  <2>1. Cleared \in Cells /\ <<>> \in First /\ 0 \in 0..Nowhere /\ Sleep \in Last
    BY DEF Cleared, Cells, Blank, First, Nowhere, Last
  <2>2. QED
    BY <2>1 DEF PowerOn, Display
<1>3. Banner \in Seq(Char \cup {NUL}) /\ Len(Banner) <= BufLen
  OBVIOUS
<1>4. script \in [Task -> Seq(Items)] /\ step \in [Task -> -1..6]
  <2>1. <<>> \in Seq(Items) /\ -1 \in -1..6
    OBVIOUS
  <2>2. QED
    BY <2>1 DEF Init
<1>5. pins \in [e : {0, 1}, rs : {0, 1}, n : 0..15]
  BY DEF Init
<1>6. 0 \in 0..MaxKills /\ 0 \in 0..MaxInterrupts /\ FALSE \in BOOLEAN
  OBVIOUS
<1>7. ctrl \in Display /\ (ctrl.wide => ctrl.first = <<>>)
  BY <1>2 DEF Init
<1>8. /\ stage = "down" /\ mutex = Free /\ buf = Banner
      /\ kills = 0 /\ interrupts = 0 /\ refused = FALSE
  BY DEF Init
<1>9. QED
  BY <1>1, <1>3, <1>4, <1>5, <1>6, <1>7, <1>8 DEF Types

\* A script that starts is a sequence of items, and one that goes on too.
LEMMA ScriptTypes ==
  ASSUME Types, NEW t \in Task, NEW s \in Seq(Items), script' = [script EXCEPT ![t] = s]
  PROVE  /\ script' \in [Task -> Seq(Items)] /\ script'[t] = s
         /\ \A u \in Task : u # t => script'[u] = script[u]
BY DEF Types

LEMMA TypesStep ==
  ASSUME Types, Next
  PROVE  Types'
<1>1. CASE Wake
  <2>1. ctrl' \in Display /\ ctrl'.wide = ctrl.wide /\ ctrl'.first = ctrl.first
    BY <1>1 DEF Wake, Types, Display
  <2>2. QED
    BY <1>1, <2>1 DEF Wake, Types
<1>2. CASE Start
  <2>1. script' \in [Task -> Seq(Items)]
    BY <1>2, LcdInitIs, ScriptTypes DEF Start, Starts
  <2>2. mutex' \in Mutexes
    BY <1>2 DEF Start, Free, Mutexes
  <2>3. QED
    BY <1>2, <2>1, <2>2 DEF Start, Starts, Types
<1>3. CASE Greet
  <2>1. Banner \in Seq(Char \cup {NUL}) /\ Len(Banner) <= BufLen
    OBVIOUS
  <2>2. <<LCD_ON>> \o Clear \o LcdPrint(String(Banner)) \in Seq(Items)
    BY <2>1, Strings, Scripts
  <2>3. script' \in [Task -> Seq(Items)]
    BY <1>3, <2>2, ScriptTypes DEF Greet, Starts
  <2>4. QED
    BY <1>3, <2>1, <2>3 DEF Greet, Starts, Types
<1>4. CASE Read
  <2>1. PICK s \in Messages : /\ buf' = s \o SubSeq(buf, Len(s) + 1, Len(buf))
                              /\ Starts(LcdPrint(String(buf')), "serve")
    BY <1>4 DEF Read
  <2>2. buf' \in Seq(Char \cup {NUL}) /\ Len(buf') <= BufLen
    BY <2>1, ReadBuf
  <2>3. LcdPrint(String(buf')) \in Seq(Items)
    BY <2>2, Strings, Scripts
  <2>4. script' \in [Task -> Seq(Items)] /\ stage' = "serve"
    BY <2>1, <2>3, ScriptTypes DEF Starts
  <2>5. QED
    BY <1>4, <2>2, <2>4 DEF Read, Types
<1>5. CASE Clean
  <2>1. script' \in [Task -> Seq(Items)]
    BY <1>5, Scripts, ScriptTypes DEF Clean, Starts
  <2>2. QED
    BY <1>5, <2>1 DEF Clean, Starts, Types
<1>6. CASE Cleaned
  BY <1>6 DEF Cleaned, Types
<1>7. CASE Kill
  <2>1. <<>> \in Seq(Items) /\ -1 \in -1..6
    OBVIOUS
  <2>2. script' \in [Task -> Seq(Items)] /\ step' \in [Task -> -1..6]
    BY <1>7, <2>1 DEF Kill
  <2>3. kills' \in 0..MaxKills
    BY <1>7 DEF Kill, Types
  <2>4. QED
    BY <1>7, <2>2, <2>3 DEF Kill, Types
<1>8. ASSUME NEW t \in Task, Enter(t)
      PROVE  Types'
  <2>1. mutex' \in Mutexes
    BY <1>8 DEF Enter, Acquired, Mutexes, Types
  <2>2. step' \in [Task -> -1..6]
    BY <1>8 DEF Enter, Types
  <2>3. QED
    BY <1>8, <2>1, <2>2 DEF Enter, Types
<1>9. ASSUME NEW t \in Task, EnterInterrupted(t)
      PROVE  Types'
  <2>1. <<>> \in Seq(Items) /\ Tail(script[t]) \in Seq(Items)
    BY <1>9, ItemAt DEF EnterInterrupted
  <2>2. (IF Item(t) = LCD_ADR2 THEN Tail(script[t]) ELSE <<>>) \in Seq(Items)
    BY <2>1
  <2>3. script' = [script EXCEPT ![t] = IF Item(t) = LCD_ADR2 THEN Tail(script[t]) ELSE <<>>]
    BY <1>9 DEF EnterInterrupted
  <2>4. script' \in [Task -> Seq(Items)]
    BY <2>2, <2>3, ScriptTypes
  <2>5. interrupts' \in 0..MaxInterrupts
    BY <1>9 DEF EnterInterrupted, Types
  <2>6. refused' \in BOOLEAN
    BY <1>9 DEF EnterInterrupted, Types
  <2>7. QED
    BY <1>9, <2>4, <2>5, <2>6 DEF EnterInterrupted, Types
<1>10. ASSUME NEW t \in Task, Write(t)
       PROVE  Types'
  <2>1. /\ step[t] \in 0..5 /\ step' = [step EXCEPT ![t] = step[t] + 1]
        /\ Item(t).rs \in {0, 1}
        /\ Item(t).nibbles[IF step[t] < 3 THEN 1 ELSE 2] \in 0..15
        /\ pins' = [e |-> IF step[t] \in {1, 4} THEN 1 ELSE 0, rs |-> Item(t).rs,
                    n |-> Item(t).nibbles[IF step[t] < 3 THEN 1 ELSE 2]]
    BY <1>10, WriteIs
  <2>2. step' \in [Task -> -1..6]
    <3>1. step[t] + 1 \in -1..6
      BY <2>1
    <3>2. QED
      BY <2>1, <3>1 DEF Types
  <2>3. pins' \in [e : {0, 1}, rs : {0, 1}, n : 0..15]
    BY <2>1
  <2>4. ctrl' \in Display /\ (ctrl'.wide => ctrl'.first = <<>>)
    <3>1. CASE ctrl' = ctrl
      BY <3>1 DEF Types
    <3>2. ASSUME NEW p \in {pins, pins'}, ctrl' \in Latched(ctrl, p.rs, p.n)
          PROVE  ctrl' \in Display /\ (ctrl'.wide => ctrl'.first = <<>>)
      <4>1. p.rs \in {0, 1} /\ p.n \in 0..15
        BY <2>3 DEF Types
      <4>2. ctrl \in Display /\ (ctrl.wide => ctrl.first = <<>>)
        BY DEF Types
      <4>3. QED
        BY <3>2, <4>1, <4>2, LatchedTypes
    <3>3. QED
      BY <1>10, <3>1, <3>2 DEF Write
  <2>5. QED
    BY <1>10, <2>2, <2>3, <2>4 DEF Write, Types
<1>11. ASSUME NEW t \in Task, Leave(t)
       PROVE  Types'
  <2>1. script' \in [Task -> Seq(Items)]
    BY <1>11, ItemAt, ScriptTypes DEF Leave
  <2>2. mutex' \in Mutexes
    BY <1>11 DEF Leave, Released, Free, Mutexes, Types
  <2>3. step' \in [Task -> -1..6]
    BY <1>11 DEF Leave, Types
  <2>4. QED
    BY <1>11, <2>1, <2>2, <2>3 DEF Leave, Types
<1>12. ASSUME NEW t \in Task, SleepOver(t)
       PROVE  Types'
  <2>1. script' \in [Task -> Seq(Items)]
    BY <1>12, ItemAt, ScriptTypes DEF SleepOver
  <2>2. QED
    BY <1>12, <2>1 DEF SleepOver, Types
<1>13. ASSUME NEW t \in Task, Switch(t)
       PROVE  Types'
  <2>1. PICK b \in {LCD_ON, LCD_OFF} : script' = [script EXCEPT ![t] = <<b>>]
    BY <1>13 DEF Switch
  <2>2. <<b>> \in Seq(Items)
    BY DEF Items, Command
  <2>3. script' \in [Task -> Seq(Items)]
    BY <2>1, <2>2, ScriptTypes
  <2>4. QED
    BY <1>13, <2>3 DEF Switch, Types
<1>14. QED
  BY <1>1, <1>2, <1>3, <1>4, <1>5, <1>6, <1>7, <1>8, <1>9, <1>10, <1>11, <1>12, <1>13
     DEF Next

-----------------------------------------------------------------------------
\* A task that comes to the mutex finds it free, or another task serves.
LEMMA Entering ==
  ASSUME Types, LockInv, NEW t \in Task, Busy(t), step[t] = -1
  PROVE  /\ stage # "down"
         /\ CanAcquire(mutex, t) => mutex = Free
         /\ ~CanAcquire(mutex, t) => stage = "serve"
<1>1. stage # "down"
  BY DEF LockInv
<1>2. mutex.owner # t
  BY <1>1 DEF LockInv
<1>3. CanAcquire(mutex, t) => mutex = Free
  BY <1>1, <1>2 DEF CanAcquire, LockInv
<1>4. ASSUME ~CanAcquire(mutex, t)
      PROVE  stage = "serve"
  <2>1. mutex # Free
    BY <1>4 DEF Free, CanAcquire
  <2>2. mutex.owner \in Task
    BY <1>1, <2>1 DEF LockInv
  <2>3. Busy(mutex.owner)
    BY <1>1, <2>2 DEF LockInv
  <2>4. QED
    BY <1>1, <1>2, <2>2, <2>3 DEF LockInv, Types
<1>5. QED
  BY <1>1, <1>3, <1>4

\* What a task that owns the mutex after its last write leaves.
LEMMA Leaving ==
  ASSUME Types, LockInv, NEW t \in Task, Leave(t)
  PROVE  /\ mutex = [owner |-> t, depth |-> 1] /\ mutex' = Free /\ stage # "down"
         /\ step[t] \in {3, 6} /\ step[t] = Writes(t) /\ Busy(t) /\ Item(t).do # "sleep"
         /\ \A u \in Task : u # t => step[u] = -1
<1>1. Busy(t) /\ step[t] = Writes(t)
  BY DEF Leave
<1>2. Item(t) \in Items
  BY <1>1, ItemAt
<1>3. Len(Item(t).nibbles) \in 0..2
  BY <1>2, ItemTypes
<1>4. step[t] # -1
  BY <1>1, <1>3 DEF Writes
<1>5. mutex = [owner |-> t, depth |-> 1] /\ \A u \in Task : u # t => step[u] = -1
  BY <1>4, Owner
<1>6. Item(t).do # "sleep" /\ stage # "down"
  BY <1>4 DEF LockInv
<1>7. Len(Item(t).nibbles) \in {1, 2}
  BY <1>2, <1>6, ItemTypes
<1>8. step[t] \in {3, 6}
  <2>1. Len(Item(t).nibbles) = 1 \/ Len(Item(t).nibbles) = 2
    BY <1>7
  <2>2. step[t] = 3 * Len(Item(t).nibbles)
    BY <1>1 DEF Writes
  <2>3. 3 * 1 = 3 /\ 3 * 2 = 6
    OBVIOUS
  <2>4. QED
    BY <2>1, <2>2, <2>3
<1>9. mutex' = Free
  BY <1>5 DEF Leave, Released
<1>10. QED
  BY <1>1, <1>5, <1>6, <1>8, <1>9

\* What the steps of a task leave: the mutex to its owner, and the others at rest.
LEMMA LockFrame ==
  ASSUME Types, LockInv, stage' = stage, stage # "down", NEW t \in Task,
         \A u \in Task : u # t => script'[u] = script[u] /\ step'[u] = step[u],
         Busy(t)' => Busy(t) \/ stage = "serve",
         \/ mutex' = mutex /\ (step'[t] # -1 <=> step[t] # -1)
         \/ mutex' = Free /\ step'[t] = -1 /\ mutex.owner = t
         \/ mutex' = [owner |-> t, depth |-> 1] /\ mutex = Free /\ step'[t] # -1,
         step'[t] # -1 => Busy(t)' /\ Item(t)'.do # "sleep" /\ step'[t] <= Writes(t)'
  PROVE  LockInv'
<1>1. stage' # "down"
  OBVIOUS
<1>2. NoTask \notin Task /\ Free.owner = NoTask
  BY DEF Free
<1>3. /\ mutex' = Free \/ (mutex'.owner \in Task /\ mutex'.depth = 1)
      /\ \A u \in Task : step'[u] # -1 <=> mutex'.owner = u
  <2>1. CASE mutex' = mutex /\ (step'[t] # -1 <=> step[t] # -1)
    BY <2>1 DEF LockInv
  <2>2. CASE mutex' = Free /\ step'[t] = -1 /\ mutex.owner = t
    BY <1>2, <2>2 DEF LockInv
  <2>3. CASE mutex' = [owner |-> t, depth |-> 1] /\ mutex = Free /\ step'[t] # -1
    <3>1. \A u \in Task : step[u] = -1
      BY <1>2, <2>3 DEF LockInv
    <3>2. mutex'.owner = t /\ mutex'.depth = 1
      BY <2>3
    <3>3. QED
      BY <2>3, <3>1, <3>2
  <2>4. QED
    BY <2>1, <2>2, <2>3
<1>4. ASSUME NEW u \in Task, step'[u] # -1
      PROVE  Busy(u)' /\ Item(u)'.do # "sleep" /\ step'[u] <= Writes(u)'
  <2>1. CASE u = t
    BY <1>4, <2>1
  <2>2. CASE u # t
    BY <1>4, <2>2 DEF LockInv, Busy, Item, Writes
  <2>3. QED
    BY <2>1, <2>2
<1>5. ASSUME stage' \in {"init", "greet", "clean"}, NEW u \in Task, Busy(u)'
      PROVE  u = Daemon
  <2>1. Busy(u)
    <3>1. CASE u = t
      BY <1>5, <3>1
    <3>2. CASE u # t
      BY <1>5, <3>2 DEF Busy
    <3>3. QED
      BY <3>1, <3>2
  <2>2. QED
    BY <1>5, <2>1 DEF LockInv
<1>6. QED
  BY <1>1, <1>3, <1>4, <1>5 DEF LockInv

\* What lcd_task starts, when no other task has the display or it serves already.
LEMMA LockStarts ==
  ASSUME Types, LockInv, ~Busy(Daemon), stage' # "down", step' = step,
         NEW s \in Seq(Items), script' = [script EXCEPT ![Daemon] = s],
         stage # "down" => mutex' = mutex, stage = "down" => mutex' = Free,
         stage' # "serve" => \A t \in Task : t # Daemon => ~Busy(t)
  PROVE  LockInv'
<1>1. \A u \in Task : u # Daemon => script'[u] = script[u]
  BY ScriptTypes
<1>2. step[Daemon] = -1
  BY DEF LockInv
<1>3. /\ mutex' = Free \/ (mutex'.owner \in Task /\ mutex'.depth = 1)
      /\ \A u \in Task : step'[u] # -1 <=> mutex'.owner = u
  <2>1. Free.owner = NoTask
    BY DEF Free
  <2>2. CASE stage = "down"
    BY <2>1, <2>2 DEF LockInv
  <2>3. CASE stage # "down"
    BY <2>3 DEF LockInv
  <2>4. QED
    BY <2>2, <2>3
<1>4. ASSUME NEW u \in Task, step'[u] # -1
      PROVE  Busy(u)' /\ Item(u)'.do # "sleep" /\ step'[u] <= Writes(u)'
  <2>1. u # Daemon
    BY <1>2, <1>4
  <2>2. QED
    BY <1>1, <1>4, <2>1 DEF LockInv, Busy, Item, Writes
<1>5. ASSUME stage' \in {"init", "greet", "clean"}, NEW u \in Task, Busy(u)'
      PROVE  u = Daemon
  BY <1>1, <1>5 DEF Busy
<1>6. QED
  BY <1>3, <1>4, <1>5 DEF LockInv

LEMMA LockStep ==
  ASSUME Types, LockInv, Next
  PROVE  LockInv'
<1>1. CASE Wake
  BY <1>1 DEF Wake, LockInv, Busy, Item, Writes
<1>2. CASE Start
  <2>1. /\ stage = "down" /\ stage' = "init" /\ mutex' = Free /\ step' = step
        /\ script' = [script EXCEPT ![Daemon] = LcdInit]
    BY <1>2 DEF Start, Starts
  <2>2. \A t \in Task : ~Busy(t)
    BY <2>1 DEF LockInv
  <2>3. QED
    BY <2>1, <2>2, LcdInitIs, LockStarts
<1>3. CASE Greet
  <2> DEFINE g == <<LCD_ON>> \o Clear \o LcdPrint(String(Banner))
  <2>1. /\ stage = "init" /\ stage' = "greet" /\ mutex' = mutex /\ step' = step
        /\ script' = [script EXCEPT ![Daemon] = g] /\ ~Busy(Daemon)
    BY <1>3 DEF Greet, Starts
  <2>2. g \in Seq(Items)
    BY Strings, Scripts
  <2> HIDE DEF g
  <2>3. \A t \in Task : t # Daemon => ~Busy(t)
    BY <2>1 DEF LockInv
  <2>4. QED
    BY <2>1, <2>2, <2>3, LockStarts
<1>4. CASE Read
  <2>1. PICK s \in Messages : /\ buf' = s \o SubSeq(buf, Len(s) + 1, Len(buf))
                              /\ Starts(LcdPrint(String(buf')), "serve")
    BY <1>4 DEF Read
  <2>2. /\ stage # "down" /\ stage' = "serve" /\ mutex' = mutex /\ step' = step
        /\ script' = [script EXCEPT ![Daemon] = LcdPrint(String(buf'))] /\ ~Busy(Daemon)
    BY <1>4, <2>1 DEF Read, Starts
  <2>3. LcdPrint(String(buf')) \in Seq(Items)
    BY <2>1, ReadBuf, Strings, Scripts
  <2>4. QED
    BY <2>2, <2>3, LockStarts
<1>5. CASE Clean
  <2>1. /\ stage # "down" /\ stage' = "clean" /\ mutex' = mutex /\ step' = step
        /\ script' = [script EXCEPT ![Daemon] = Clear] /\ \A t \in Task : ~Busy(t)
    BY <1>5 DEF Clean, Starts
  <2>2. QED
    BY <2>1, Scripts, LockStarts
<1>6. CASE Cleaned
  <2>1. \A t \in Task : ~Busy(t)
    BY <1>6 DEF Cleaned, LockInv
  <2>2. QED
    BY <1>6, <2>1 DEF Cleaned, LockInv, Busy
<1>7. CASE Kill
  BY <1>7 DEF Kill, LockInv, Busy
<1>8. ASSUME NEW t \in Task, Enter(t)
      PROVE  LockInv'
  <2>1. /\ stage # "down" /\ mutex = Free /\ step' = [step EXCEPT ![t] = 0]
        /\ UNCHANGED <<stage, script>> /\ Busy(t) /\ Item(t).do # "sleep"
        /\ mutex' = Acquired(mutex, t)
    BY <1>8, Entering DEF Enter
  <2>2. mutex' = [owner |-> t, depth |-> 1]
    BY <2>1 DEF Acquired, Free
  <2>3. step'[t] = 0 /\ \A u \in Task : u # t => step'[u] = step[u]
    BY <2>1 DEF Types
  <2>4. 0 <= Writes(t)
    BY <2>1, ItemAt, ItemTypes DEF Writes
  <2>5. QED
    BY <2>1, <2>2, <2>3, <2>4, LockFrame DEF Busy, Item, Writes
<1>9. ASSUME NEW t \in Task, EnterInterrupted(t)
      PROVE  LockInv'
  <2>1. /\ stage = "serve" /\ stage' = stage /\ mutex' = mutex /\ step' = step
        /\ step[t] = -1
    BY <1>9, Entering DEF EnterInterrupted
  <2>2. \A u \in Task : u # t => script'[u] = script[u]
    BY <1>9 DEF EnterInterrupted, Types
  <2>3. QED
    BY <2>1, <2>2, LockFrame
<1>10. ASSUME NEW t \in Task, Write(t)
       PROVE  LockInv'
  <2>1. /\ Busy(t) /\ Item(t).do # "sleep" /\ step[t] \in 0..5 /\ step[t] \in 0..Writes(t) - 1
        /\ step' = [step EXCEPT ![t] = step[t] + 1]
        /\ stage' = stage /\ mutex' = mutex /\ script' = script
    BY <1>10, WriteIs DEF Write
  <2>2. step'[t] = step[t] + 1 /\ \A u \in Task : u # t => step'[u] = step[u]
    BY <2>1 DEF Types
  <2>3. step'[t] <= Writes(t)
    BY <2>1, <2>2, ItemAt, ItemTypes DEF Writes
  <2>4. stage # "down"
    BY <2>1 DEF LockInv
  <2>5. step'[t] # -1 /\ step[t] # -1
    BY <2>1, <2>2
  <2>6. Busy(t)' = Busy(t) /\ Item(t)' = Item(t) /\ Writes(t)' = Writes(t)
    BY <2>1 DEF Busy, Item, Writes
  <2>7. QED
    BY <2>1, <2>2, <2>3, <2>4, <2>5, <2>6, LockFrame
<1>11. ASSUME NEW t \in Task, Leave(t)
       PROVE  LockInv'
  <2>1. mutex = [owner |-> t, depth |-> 1] /\ mutex' = Free /\ stage # "down" /\ Busy(t)
    BY <1>11, Leaving
  <2>2. /\ step'[t] = -1
        /\ \A u \in Task : u # t => script'[u] = script[u] /\ step'[u] = step[u]
    BY <1>11 DEF Leave, Types
  <2>3. mutex.owner = t /\ stage' = stage
    BY <1>11, <2>1 DEF Leave
  <2>4. QED
    BY <2>1, <2>2, <2>3, LockFrame
<1>12. ASSUME NEW t \in Task, SleepOver(t)
       PROVE  LockInv'
  <2>1. Busy(t) /\ Item(t).do = "sleep" /\ stage' = stage /\ mutex' = mutex /\ step' = step
    BY <1>12 DEF SleepOver
  <2>2. step[t] = -1 /\ stage # "down"
    BY <2>1 DEF LockInv
  <2>3. \A u \in Task : u # t => script'[u] = script[u]
    BY <1>12 DEF SleepOver, Types
  <2>4. QED
    BY <2>1, <2>2, <2>3, LockFrame
<1>13. ASSUME NEW t \in Task, Switch(t)
       PROVE  LockInv'
  <2>1. stage = "serve" /\ ~Busy(t) /\ stage' = stage /\ mutex' = mutex /\ step' = step
    BY <1>13 DEF Switch
  <2>2. step[t] = -1
    BY <2>1 DEF LockInv
  <2>3. \A u \in Task : u # t => script'[u] = script[u]
    BY <1>13 DEF Switch, Types
  <2>4. QED
    BY <2>1, <2>2, <2>3, LockFrame
<1>14. QED
  BY <1>1, <1>2, <1>3, <1>4, <1>5, <1>6, <1>7, <1>8, <1>9, <1>10, <1>11, <1>12, <1>13
     DEF Next

-----------------------------------------------------------------------------
\* A call goes on to its next item.
LEMMA ScriptOn ==
  ASSUME Types, ScriptInv, NEW t \in Task, Busy(t), stage' = stage,
         script' = [script EXCEPT ![t] = Tail(script[t])]
  PROVE  /\ ScriptInv'
         /\ stage = "init" => Place' = IF t = Daemon THEN Place + 1 ELSE Place
<1>1. /\ script'[t] = Tail(script[t]) /\ Tail(script[t]) \in Seq(Items)
      /\ \A u \in Task : u # t => script'[u] = script[u]
  BY ItemAt, ScriptTypes
<1>2. /\ script[t] \in Seq(Items) /\ script[t] # <<>>
      /\ \A i \in DOMAIN Tail(script[t]) :
           i + 1 \in DOMAIN script[t] /\ Tail(script[t])[i] = script[t][i + 1]
  BY ItemAt DEF Busy
<1>3. ASSUME NEW S, NEW u \in Task, \A i \in DOMAIN script[u] : script[u][i] \in S
      PROVE  \A i \in DOMAIN script'[u] : script'[u][i] \in S
  BY <1>1, <1>2, <1>3
<1>4. ASSUME stage = "init"
      PROVE  /\ Place' = IF t = Daemon THEN Place + 1 ELSE Place
             /\ Place' \in 1..16
             /\ script'[Daemon] = SubSeq(LcdInit, Place', Len(LcdInit))
  <2>1. CASE t = Daemon
    <3> DEFINE r == Tail(script[Daemon])
               p == Place
    <3>1. p \in 1..16 /\ p < 16 /\ r = SubSeq(LcdInit, p + 1, Len(LcdInit)) /\ Len(r) = 16 - (p + 1)
      BY <1>4, <2>1, InitItems
    <3>2. script'[Daemon] = r
      BY <1>1, <2>1
    <3>3. Place' = 16 - Len(script'[Daemon])
      BY DEF Place
    <3> HIDE DEF r, p
    <3>4. Place' = p + 1
      BY <3>1, <3>2, <3>3
    <3>5. /\ Place' = p + 1 /\ Place' \in 1..16
          /\ script'[Daemon] = SubSeq(LcdInit, Place', Len(LcdInit))
      BY <3>1, <3>2, <3>4
    <3>6. QED
      BY <2>1, <3>5 DEF p
  <2>2. CASE t # Daemon
    <3>1. Place' = Place /\ script'[Daemon] = script[Daemon]
      BY <1>1, <2>2 DEF Place
    <3>2. QED
      BY <1>4, <2>2, <3>1 DEF ScriptInv
  <2>3. QED
    BY <2>1, <2>2
<1>5. ASSUME stage \in {"greet", "clean"}
      PROVE  Plain(script'[Daemon])
  <2>1. Plain(script[Daemon])
    BY <1>5 DEF ScriptInv
  <2>2. QED
    BY <1>1, <1>2, <2>1, PlainTail
<1>6. ASSUME stage = "serve"
      PROVE  \A i \in DOMAIN script'[Daemon] :
               script'[Daemon][i] \in {LCD_ADR, LCD_ADR2} \cup Letter
  BY <1>3, <1>6 DEF ScriptInv
<1>7. ASSUME NEW u \in Task \ {Daemon}
      PROVE  \A i \in DOMAIN script'[u] : script'[u][i] \in {LCD_ON, LCD_OFF}
  BY <1>3 DEF ScriptInv
<1>8. QED
  BY <1>4, <1>5, <1>6, <1>7 DEF ScriptInv

\* A call that ends, or one of another task that starts.
LEMMA ScriptCut ==
  ASSUME Types, ScriptInv, stage = "serve", stage' = stage,
         NEW t \in Task, NEW s \in Seq(Items), script' = [script EXCEPT ![t] = s],
         \/ s = <<>>
         \/ t # Daemon /\ \E b \in {LCD_ON, LCD_OFF} : s = <<b>>
  PROVE  ScriptInv'
<1>1. script'[t] = s /\ \A u \in Task : u # t => script'[u] = script[u]
  BY ScriptTypes
<1>2. t = Daemon => s = <<>>
  OBVIOUS
<1>3. \A i \in DOMAIN script'[Daemon] :
        script'[Daemon][i] \in {LCD_ADR, LCD_ADR2} \cup Letter
  BY <1>1, <1>2 DEF ScriptInv
<1>4. ASSUME NEW u \in Task \ {Daemon}
      PROVE  \A i \in DOMAIN script'[u] : script'[u][i] \in {LCD_ON, LCD_OFF}
  BY <1>1 DEF ScriptInv
<1>5. QED
  BY <1>3, <1>4 DEF ScriptInv

LEMMA ScriptStep ==
  ASSUME Types, LockInv, ScriptInv, Next
  PROVE  ScriptInv'
<1>1. CASE UNCHANGED <<stage, script>>
  BY <1>1 DEF ScriptInv, Place
<1>2. CASE Start
  <2>1. /\ stage' = "init" /\ script' = [script EXCEPT ![Daemon] = LcdInit]
        /\ \A t \in Task : ~Busy(t)
    BY <1>2 DEF Start, Starts, LockInv
  <2>2. script'[Daemon] = LcdInit /\ \A u \in Task : u # Daemon => script'[u] = <<>>
    BY <2>1, LcdInitIs, ScriptTypes DEF Busy
  <2>3. Place' = 1
    BY <2>2, LcdInitIs DEF Place
  <2>4. LcdInit = SubSeq(LcdInit, 1, Len(LcdInit))
    BY LcdInitIs, SubSeqFull
  <2>5. QED
    BY <2>1, <2>2, <2>3, <2>4 DEF ScriptInv
<1>3. CASE Greet
  <2> DEFINE g == <<LCD_ON>> \o Clear \o LcdPrint(String(Banner))
  <2>1. stage' = "greet" /\ script' = [script EXCEPT ![Daemon] = g]
    BY <1>3 DEF Greet, Starts
  <2>2. g \in Seq(Items) /\ Plain(g)
    BY Strings, Scripts
  <2> HIDE DEF g
  <2>3. script'[Daemon] = g /\ \A u \in Task : u # Daemon => script'[u] = script[u]
    BY <2>1, <2>2, ScriptTypes
  <2>4. QED
    BY <2>1, <2>2, <2>3 DEF ScriptInv
<1>4. CASE Read
  <2>1. PICK s \in Messages : /\ buf' = s \o SubSeq(buf, Len(s) + 1, Len(buf))
                              /\ Starts(LcdPrint(String(buf')), "serve")
    BY <1>4 DEF Read
  <2> DEFINE g == LcdPrint(String(buf'))
  <2>2. g \in Seq(Items) /\ g \in Seq({LCD_ADR, LCD_ADR2} \cup Letter)
    BY <2>1, ReadBuf, Strings, Scripts, PrintIs
  <2>3. stage' = "serve" /\ script' = [script EXCEPT ![Daemon] = g]
    BY <2>1 DEF Starts
  <2> HIDE DEF g
  <2>4. script'[Daemon] = g /\ \A u \in Task : u # Daemon => script'[u] = script[u]
    BY <2>2, <2>3, ScriptTypes
  <2>5. \A i \in DOMAIN g : g[i] \in {LCD_ADR, LCD_ADR2} \cup Letter
    BY <2>2
  <2>6. QED
    BY <2>3, <2>4, <2>5 DEF ScriptInv
<1>5. CASE Clean
  <2>1. stage' = "clean" /\ script' = [script EXCEPT ![Daemon] = Clear]
    BY <1>5 DEF Clean, Starts
  <2>2. script'[Daemon] = Clear /\ \A u \in Task : u # Daemon => script'[u] = script[u]
    BY <2>1, Scripts, ScriptTypes
  <2>3. QED
    BY <2>1, <2>2, Scripts DEF ScriptInv
<1>6. CASE Cleaned
  BY <1>6 DEF Cleaned, ScriptInv
<1>7. CASE Kill
  BY <1>7 DEF Kill, ScriptInv
<1>8. ASSUME NEW t \in Task, EnterInterrupted(t)
      PROVE  ScriptInv'
  <2>1. stage = "serve" /\ stage' = stage /\ Busy(t)
    BY <1>8, Entering DEF EnterInterrupted
  <2>2. CASE Item(t) = LCD_ADR2
    BY <1>8, <2>1, <2>2, ScriptOn DEF EnterInterrupted
  <2>3. CASE Item(t) # LCD_ADR2
    <3>1. script' = [script EXCEPT ![t] = <<>>] /\ <<>> \in Seq(Items)
      BY <1>8, <2>3 DEF EnterInterrupted
    <3>2. QED
      BY <2>1, <3>1, ScriptCut
  <2>4. QED
    BY <2>2, <2>3
<1>9. ASSUME NEW t \in Task, Leave(t)
      PROVE  ScriptInv'
  BY <1>9, ScriptOn DEF Leave
<1>10. ASSUME NEW t \in Task, SleepOver(t)
       PROVE  ScriptInv'
  BY <1>10, ScriptOn DEF SleepOver
<1>11. ASSUME NEW t \in Task, Switch(t)
       PROVE  ScriptInv'
  <2>1. PICK b \in {LCD_ON, LCD_OFF} : script' = [script EXCEPT ![t] = <<b>>]
    BY <1>11 DEF Switch
  <2>2. <<b>> \in Seq(Items)
    BY DEF Items, Command
  <2>3. QED
    BY <1>11, <2>1, <2>2, ScriptCut DEF Switch
<1>12. QED
  BY <1>1, <1>2, <1>3, <1>4, <1>5, <1>6, <1>7, <1>8, <1>9, <1>10, <1>11
     DEF Next, Wake, Enter, Write

-----------------------------------------------------------------------------
\* What is on the pins is what the task that owns the mutex last wrote.
LEMMA DrivenStep ==
  ASSUME Types, LockInv, DrivenInv, Next
  PROVE  DrivenInv'
<1>1. ASSUME pins' = pins,
             NEW v \in Task, step'[v] # -1,
             step'[v] = 0 \/ (step'[v] = step[v] /\ script'[v] = script[v])
      PROVE  Driven(v)'
  <2>1. CASE step'[v] = 0
    BY <2>1 DEF Driven
  <2>2. CASE step'[v] = step[v] /\ script'[v] = script[v]
    <3>1. Item(v)' = Item(v)
      BY <2>2 DEF Item
    <3>2. Driven(v)
      BY <1>1, <2>2 DEF DrivenInv
    <3>3. QED
      BY <1>1, <2>2, <3>1, <3>2 DEF Driven
  <2>3. QED
    BY <1>1, <2>1, <2>2
<1>2. CASE Wake \/ Cleaned
  BY <1>1, <1>2 DEF Wake, Cleaned, DrivenInv
<1>3. CASE Start \/ Greet \/ Read \/ Clean
  <2>1. pins' = pins /\ step' = step /\ ~Busy(Daemon)
    BY <1>3 DEF Start, Greet, Read, Clean, LockInv
  <2>2. ASSUME NEW v \in Task, step'[v] # -1
        PROVE  script'[v] = script[v]
    <3>1. v # Daemon
      BY <2>1, <2>2 DEF LockInv
    <3>2. \E s : script' = [script EXCEPT ![Daemon] = s]
      BY <1>3 DEF Start, Greet, Read, Clean, Starts
    <3>3. QED
      BY <3>1, <3>2 DEF Types
  <2>3. QED
    BY <1>1, <2>1, <2>2 DEF DrivenInv
<1>4. CASE Kill
  BY <1>4 DEF Kill, DrivenInv
<1>5. ASSUME NEW t \in Task, Enter(t)
      PROVE  DrivenInv'
  <2>1. /\ pins' = pins /\ script' = script
        /\ \A v \in Task : step'[v] = IF v = t THEN 0 ELSE step[v]
    BY <1>5 DEF Enter, Types
  <2>2. \A v \in Task : step'[v] = 0 \/ step'[v] = step[v]
    BY <2>1
  <2>3. QED
    BY <1>1, <2>1, <2>2 DEF DrivenInv
<1>6. ASSUME NEW t \in Task, EnterInterrupted(t) \/ SleepOver(t) \/ Switch(t)
      PROVE  DrivenInv'
  <2>1. pins' = pins /\ step' = step
    BY <1>6 DEF EnterInterrupted, SleepOver, Switch
  <2>2. step[t] = -1
    BY <1>6 DEF EnterInterrupted, SleepOver, Switch, LockInv
  <2>3. \A v \in Task : v # t => script'[v] = script[v]
    BY <1>6 DEF EnterInterrupted, SleepOver, Switch, Types
  <2>4. QED
    BY <1>1, <2>1, <2>2, <2>3 DEF DrivenInv
<1>7. ASSUME NEW t \in Task, Leave(t)
      PROVE  DrivenInv'
  <2>1. pins' = pins
    BY <1>7 DEF Leave
  <2>2. /\ step'[t] = -1
        /\ \A v \in Task : v # t => step'[v] = step[v] /\ script'[v] = script[v]
    BY <1>7 DEF Leave, Types
  <2>3. QED
    BY <1>1, <2>1, <2>2 DEF DrivenInv
<1>8. ASSUME NEW t \in Task, Write(t)
      PROVE  DrivenInv'
  <2>1. /\ step[t] \in 0..5 /\ step' = [step EXCEPT ![t] = step[t] + 1] /\ script' = script
        /\ pins' = [e |-> IF step[t] \in {1, 4} THEN 1 ELSE 0, rs |-> Item(t).rs,
                    n |-> Item(t).nibbles[IF step[t] < 3 THEN 1 ELSE 2]]
    BY <1>8, WriteIs
  <2>2. /\ step'[t] = step[t] + 1
        /\ \A v \in Task : v # t => step'[v] = -1
    <3>1. step[t] # -1
      BY <2>1
    <3>2. \A v \in Task : v # t => step[v] = -1
      BY <3>1, Owner
    <3>3. QED
      BY <2>1, <3>2 DEF Types
  <2>3. Driven(t)'
    <3>1. Item(t)' = Item(t)
      BY <2>1 DEF Item
    <3>2. /\ pins'.e = IF step[t] \in {1, 4} THEN 1 ELSE 0
          /\ pins'.rs = Item(t).rs
          /\ pins'.n = Item(t).nibbles[IF step[t] < 3 THEN 1 ELSE 2]
      BY <2>1
    <3>3. step[t] \in {1, 4} <=> step'[t] \in {2, 5}
      BY <2>1, <2>2
    <3>4. step'[t] \in 1..3 => pins'.n = Item(t).nibbles[1]
      BY <2>1, <2>2, <3>2
    <3>5. step'[t] \in 4..6 => pins'.n = Item(t).nibbles[2]
      BY <2>1, <2>2, <3>2
    <3>6. QED
      BY <3>1, <3>2, <3>3, <3>4, <3>5 DEF Driven
  <2>4. QED
    BY <2>2, <2>3 DEF DrivenInv
<1>9. QED
  BY <1>2, <1>3, <1>4, <1>5, <1>6, <1>7, <1>8 DEF Next

LEMMA ItemByte ==
  ASSUME NEW it \in Command \cup Letter
  PROVE  it = Byte(it.rs, it.nibbles[1], it.nibbles[2])
<1>1. CASE it \in Command
  BY <1>1 DEF Command, LCD_SET, LCD_ON, LCD_OFF, LCD_MD, LCD_ADR, LCD_ADR2, LCD_CLR, Byte
<1>2. CASE it \in Letter
  BY <1>2 DEF Letter, Byte
<1>3. QED
  BY <1>1, <1>2

\* Nobody sends to a tuned display that is clearing itself.
LEMMA Awake ==
  ASSUME Types, LockInv, ScriptInv, TunedInv, Tuned
  PROVE  /\ stage = "serve" => ~ctrl.sleeping
         /\ ~Busy(Daemon) => ~ctrl.sleeping
         /\ \A t \in Task : step[t] \in 0..5 => ~ctrl.sleeping
         /\ \A t \in Task : ctrl.sleeping /\ Busy(t) => t = Daemon
<1>1. SUFFICES ASSUME ctrl.sleeping
               PROVE  /\ stage # "serve" /\ Busy(Daemon)
                      /\ \A t \in Task : step[t] \notin 0..5
                      /\ \A t \in Task : Busy(t) => t = Daemon
  OBVIOUS
<1>2. /\ Busy(Daemon)
      /\ Item(Daemon) = Sleep \/ (Item(Daemon) = LCD_CLR /\ step[Daemon] = 6)
  BY <1>1 DEF TunedInv
<1>3. stage \in {"init", "greet", "clean"}
  BY <1>2, TunedItem DEF Tuned
<1>4. \A t \in Task : Busy(t) => t = Daemon
  BY <1>3 DEF LockInv
<1>5. step[Daemon] \notin 0..5
  BY <1>2 DEF LockInv, Sleep
<1>6. \A t \in Task : step[t] # -1 => t = Daemon
  BY <1>4, Owner
<1>7. ASSUME NEW t \in Task PROVE step[t] \notin 0..5
  <2>1. step[t] \in 0..5 => step[t] # -1
    OBVIOUS
  <2>2. QED
    BY <1>5, <1>6, <2>1
<1>8. QED
  BY <1>2, <1>3, <1>4, <1>7

\* What the writes of a byte do to a tuned display.
LEMMA TunedWrite ==
  ASSUME Types, LockInv, ScriptInv, DrivenInv, TunedInv, Tuned, NEW t \in Task, Write(t)
  PROVE  /\ ~ctrl.sleeping /\ Item(t) \in Command \cup Letter /\ step[t] \in 0..5
         /\ step[t] \in {0, 1, 3, 4} => ctrl' = ctrl
         /\ step[t] = 2 =>
              ctrl' = [ctrl EXCEPT !.first = <<Item(t).rs, Item(t).nibbles[1]>>]
         /\ step[t] = 5 => ctrl' = Told(ctrl, Item(t))
<1>1. /\ step[t] \in 0..5 /\ Busy(t) /\ Item(t).do # "sleep"
      /\ pins' = [e |-> IF step[t] \in {1, 4} THEN 1 ELSE 0, rs |-> Item(t).rs,
                  n |-> Item(t).nibbles[IF step[t] < 3 THEN 1 ELSE 2]]
      /\ \/ ~(pins.e = 1 /\ pins'.e = 0) /\ ctrl' = ctrl
         \/ /\ pins.e = 1 /\ pins'.e = 0
            /\ \E p \in {pins, pins'} : ctrl' \in Latched(ctrl, p.rs, p.n)
  BY WriteIs
<1>2. ~ctrl.sleeping
  BY <1>1, Awake
<1>3. Item(t) \in Command \cup Letter
  BY <1>1, TunedItem DEF Sleep
<1>4. ~ctrl.wide /\ Sending(t) /\ Driven(t)
  BY <1>1 DEF TunedInv, DrivenInv
<1>5. step[t] \in {0, 1, 3, 4} => ctrl' = ctrl
  <2>1. step[t] \in {0, 1, 3, 4} => pins.e = 0
    BY <1>4 DEF Sending, Driven
  <2>2. QED
    BY <1>1, <2>1
<1>6. ASSUME step[t] \in {2, 5}
      PROVE  /\ \E p \in {pins, pins'} : ctrl' \in Latched(ctrl, p.rs, p.n)
             /\ \A p \in {pins, pins'} :
                  p.rs = Item(t).rs /\ p.n = Item(t).nibbles[IF step[t] = 2 THEN 1 ELSE 2]
  <2>1. pins.e = 1 /\ pins'.e = 0
    BY <1>1, <1>4, <1>6 DEF Driven
  <2>2. /\ pins.rs = Item(t).rs
        /\ pins.n = Item(t).nibbles[IF step[t] = 2 THEN 1 ELSE 2]
    BY <1>4, <1>6 DEF Driven
  <2>3. /\ pins'.rs = Item(t).rs
        /\ pins'.n = Item(t).nibbles[IF step[t] = 2 THEN 1 ELSE 2]
    BY <1>1, <1>6
  <2>4. QED
    BY <1>1, <2>1, <2>2, <2>3
<1>7. ASSUME step[t] = 2
      PROVE  ctrl' = [ctrl EXCEPT !.first = <<Item(t).rs, Item(t).nibbles[1]>>]
  <2>1. PICK p \in {pins, pins'} : ctrl' \in Latched(ctrl, p.rs, p.n)
    BY <1>6, <1>7
  <2>2. p.rs = Item(t).rs /\ p.n = Item(t).nibbles[1]
    BY <1>6, <1>7
  <2>3. ctrl.first = <<>>
    BY <1>4, <1>7 DEF Sending
  <2>4. ctrl \in Display
    BY DEF Types
  <2>5. QED
    BY <1>2, <1>4, <2>1, <2>2, <2>3, <2>4, LatchedIs
<1>8. ASSUME step[t] = 5
      PROVE  ctrl' = Told(ctrl, Item(t))
  <2>1. PICK p \in {pins, pins'} : ctrl' \in Latched(ctrl, p.rs, p.n)
    BY <1>6, <1>8
  <2>2. p.rs = Item(t).rs /\ p.n = Item(t).nibbles[2]
    BY <1>6, <1>8
  <2>3. ctrl.first = <<Item(t).rs, Item(t).nibbles[1]>>
    BY <1>4, <1>8 DEF Sending
  <2>4. ctrl \in Display
    BY DEF Types
  <2>5. PICK q \in {ctrl.first[1], p.rs} : ctrl' = Told(ctrl, Byte(q, ctrl.first[2], p.n))
    <3>1. ctrl.first # <<>>
      BY <2>3
    <3>2. QED
      BY <1>2, <1>4, <2>1, <2>4, <3>1, LatchedIs
  <2>6. q = Item(t).rs /\ ctrl.first[2] = Item(t).nibbles[1]
    BY <2>2, <2>3
  <2>7. QED
    BY <1>3, <2>2, <2>5, <2>6, ItemByte
<1>9. QED
  BY <1>1, <1>2, <1>3, <1>5, <1>7, <1>8

-----------------------------------------------------------------------------
\* The nibbles of the workaround, and the first of them while the display is asleep.
LEMMA NibbleWrite ==
  ASSUME Types, LockInv, ScriptInv, DrivenInv, TuningInv, stage = "init", Place <= 8,
         NEW t \in Task, Write(t)
  PROVE  /\ t = Daemon /\ Place \in {1, 3, 5, 7} /\ step[t] \in 0..2
         /\ Place' = Place /\ step'[t] = step[t] + 1 /\ stage' = "init"
         /\ pins'.rs = 0 /\ pins'.n = IF Place = 7 THEN 2 ELSE 3
         /\ step[t] < 2 /\ Place > 2 => ctrl' = ctrl
         /\ step[t] = 2 => ctrl' \in Latched(ctrl, 0, IF Place = 7 THEN 2 ELSE 3)
<1>1. /\ step[t] \in 0..5 /\ Busy(t) /\ Item(t).do # "sleep"
      /\ step' = [step EXCEPT ![t] = step[t] + 1]
      /\ pins' = [e |-> IF step[t] \in {1, 4} THEN 1 ELSE 0, rs |-> Item(t).rs,
                  n |-> Item(t).nibbles[IF step[t] < 3 THEN 1 ELSE 2]]
      /\ Len(Item(t).nibbles) = 2 \/ (Len(Item(t).nibbles) = 1 /\ step[t] \in 0..2)
      /\ \/ ~(pins.e = 1 /\ pins'.e = 0) /\ ctrl' = ctrl
         \/ /\ pins.e = 1 /\ pins'.e = 0
            /\ \E p \in {pins, pins'} : ctrl' \in Latched(ctrl, p.rs, p.n)
      /\ UNCHANGED <<stage, script>>
  BY WriteIs
<1>2. t = Daemon
  BY <1>1 DEF LockInv
<1>3. Place \in {1, 3, 5, 7} /\ Item(t) = Nibble(IF Place = 7 THEN 2 ELSE 3)
  <2>1. Sleep.do = "sleep"
    BY DEF Sleep
  <2>2. QED
    BY <1>1, <1>2, <2>1, TuningItem DEF SetEight, SetFour
<1>4. /\ Item(t).rs = 0 /\ Len(Item(t).nibbles) = 1
      /\ Item(t).nibbles[1] = IF Place = 7 THEN 2 ELSE 3
  BY <1>3 DEF Nibble
<1>5. step[t] \in 0..2 /\ step'[t] = step[t] + 1
  BY <1>1, <1>4 DEF Types
<1>6. /\ pins'.rs = 0 /\ pins'.n = IF Place = 7 THEN 2 ELSE 3
      /\ pins'.e = IF step[t] = 1 THEN 1 ELSE 0
  BY <1>1, <1>4, <1>5
<1>7. Place' = Place
  BY <1>1 DEF Place
<1>8. Driven(t)
  BY <1>5 DEF DrivenInv
<1>9. ASSUME step[t] < 2, Place > 2
      PROVE  ctrl' = ctrl
  <2>1. pins.e = 0
    <3>1. CASE step[t] = 0
      <4>1. Latches >= 1
        BY <1>2, <1>3, <1>9, <3>1 DEF Latches
      <4>2. QED
        BY <1>2, <3>1, <4>1 DEF TuningInv
    <3>2. CASE step[t] = 1
      BY <1>8, <3>2 DEF Driven
    <3>3. QED
      BY <1>5, <1>9, <3>1, <3>2
  <2>2. QED
    BY <1>1, <2>1
<1>10. ASSUME step[t] = 2
       PROVE  ctrl' \in Latched(ctrl, 0, IF Place = 7 THEN 2 ELSE 3)
  <2>1. pins.e = 1 /\ pins.rs = 0 /\ pins.n = IF Place = 7 THEN 2 ELSE 3
    BY <1>4, <1>8, <1>10 DEF Driven
  <2>2. QED
    BY <1>1, <1>6, <1>10, <2>1
<1>11. QED
  BY <1>1, <1>2, <1>3, <1>5, <1>6, <1>7, <1>9, <1>10

LEMMA SleepStep ==
  ASSUME Types, LockInv, ScriptInv, AlignInv, Next
  PROVE  SleepInv'
<1> USE DEF AlignInv
<1>1. CASE UNCHANGED <<pins, ctrl>>
  BY <1>1 DEF SleepInv
<1>2. CASE Wake
  <2>1. ~ctrl'.sleeping
    BY <1>2 DEF Wake, Types, Display
  <2>2. QED
    BY <2>1 DEF SleepInv
<1>3. ASSUME NEW t \in Task, Write(t)
      PROVE  SleepInv'
  <2>1. SUFFICES ASSUME ctrl'.sleeping PROVE SleepInv'
    BY DEF SleepInv
  <2>2. stage # "down" /\ stage \in {"down", "init", "greet", "serve", "clean"}
    BY <1>3 DEF Write, LockInv, Types
  <2>3. CASE ctrl' = ctrl
    <3>1. ~Tuned
      BY <1>3, <2>1, <2>3, TunedWrite
    <3>2. stage = "init" /\ Place <= 8
      <4>1. stage = "init" /\ ~(Place > 8)
        BY <2>2, <3>1 DEF Tuned
      <4>2. Place \in 1..16
        BY <4>1, InitItems
      <4>3. QED
        BY <4>1, <4>2
    <3>3. Place <= 2
      BY <2>1, <2>3, <3>2, TuningItem DEF TuningInv
    <3>4. pins'.rs = 0 /\ pins'.n = 3
      BY <1>3, <3>2, <3>3, NibbleWrite
    <3>5. QED
      BY <2>1, <2>3, <3>4 DEF SleepInv
  <2>4. CASE /\ pins.e = 1 /\ pins'.e = 0
            /\ \E p \in {pins, pins'} : ctrl' \in Latched(ctrl, p.rs, p.n)
    <3>1. PICK p \in {pins, pins'} : ctrl' \in Latched(ctrl, p.rs, p.n)
      BY <2>4
    <3>2. pins' \in [e : {0, 1}, rs : {0, 1}, n : 0..15]
      BY <1>3, TypesStep DEF Types
    <3>3. p.rs \in {0, 1} /\ p.n \in 0..15
      BY <3>2 DEF Types
    <3>4. ctrl \in Display /\ (ctrl.wide => ctrl.first = <<>>)
      BY DEF Types
    <3>5. ctrl'.first = <<>> \/ (ctrl.sleeping /\ ctrl'.first \in {<<>>, ctrl.first, <<p.rs, p.n>>})
      BY <2>1, <3>1, <3>3, <3>4, LatchedTypes
    <3>6. CASE ctrl.sleeping
      <4>1. ~Tuned
        BY <1>3, <3>6, TunedWrite
      <4>2. stage = "init" /\ Place <= 8
        <5>1. stage = "init" /\ ~(Place > 8)
          BY <2>2, <4>1 DEF Tuned
        <5>2. Place \in 1..16
          BY <5>1, InitItems
        <5>3. QED
          BY <5>1, <5>2
      <4>3. Place <= 2
        BY <3>6, <4>2, TuningItem DEF TuningInv
      <4>4. pins'.rs = 0 /\ pins'.n = 3
        BY <1>3, <4>2, <4>3, NibbleWrite
      <4>5. pins.e = 1 => pins.rs = 0 /\ pins.n = 3
        BY <3>6 DEF SleepInv
      <4>6. p.rs = 0 /\ p.n = 3
        BY <2>4, <4>4, <4>5
      <4>7. <<p.rs, p.n>> = <<0, 3>>
        BY <4>6
      <4>8. ctrl.first \in {<<>>, <<0, 3>>}
        BY <3>6 DEF SleepInv
      <4>9. ctrl'.first \in {<<>>, <<0, 3>>} /\ pins'.e # 1
        BY <2>4, <3>5, <4>7, <4>8
      <4>10. QED
        BY <4>9 DEF SleepInv
    <3>7. CASE ~ctrl.sleeping
      BY <2>4, <3>5, <3>7 DEF SleepInv
    <3>8. QED
      BY <3>6, <3>7
  <2>5. QED
    BY <1>3, <2>3, <2>4 DEF Write
<1>4. QED
  BY <1>1, <1>2, <1>3 DEF Next, Start, Greet, Read, Clean, Cleaned, Kill, Enter,
     EnterInterrupted, Leave, SleepOver, Switch

LEMMA LatchesIs ==
  /\ Place \in {1, 2} => Latches = IF Place = 1 /\ step[Daemon] # 3 THEN 0 ELSE 1
  /\ Place \in {3, 4} => Latches = IF Place = 3 /\ step[Daemon] # 3 THEN 1 ELSE 2
  /\ Place \in {5, 6} => Latches = IF Place = 5 /\ step[Daemon] # 3 THEN 2 ELSE 3
  /\ Place \in {7, 8} => Latches = IF Place = 7 /\ step[Daemon] # 3 THEN 3 ELSE 4
<1>1. /\ 1 \div 2 = 0 /\ 2 \div 2 = 1 /\ 3 \div 2 = 1 /\ 4 \div 2 = 2 /\ 5 \div 2 = 2
      /\ 6 \div 2 = 3 /\ 7 \div 2 = 3 /\ 8 \div 2 = 4 /\ 9 \div 2 = 4
  OBVIOUS
<1>2. QED
  BY <1>1 DEF Latches

\* A nibble of the workaround as a byte sets the width of the display.
LEMMA NibbleTold ==
  ASSUME NEW c \in Display, NEW n \in {2, 3}, NEW lo \in {3, 15}
  PROVE  LET d == Told(c, Byte(0, n, lo)) IN
         d.wide = (n = 3) /\ d.sleeping = c.sleeping /\ d.first = <<>>
<1> DEFINE b == Byte(0, n, lo)
           e == [c EXCEPT !.first = <<>>, !.last = b]
           d == Told(c, b)
           w == n = 3
<1>1. b.rs = 0 /\ b.nibbles[1] = n /\ b.nibbles[2] = lo
  BY DEF Byte
<1>2. ~(n >= 4) /\ ~(n >= 8) /\ n >= 2
  OBVIOUS
<1>3. d = [e EXCEPT !.wide = b.nibbles[1] = 3]
  BY <1>1, <1>2 DEF Told
<1>4. d = [e EXCEPT !.wide = w]
  BY <1>1, <1>3
<1> HIDE DEF b
<1>5. /\ e.sleeping = c.sleeping /\ e.first = <<>>
      /\ e \in [wide : BOOLEAN, first : {<<>>}, sleeping : BOOLEAN, on : BOOLEAN,
                at : 0..Nowhere, cells : Cells, last : {b}]
  BY DEF Display
<1> HIDE DEF e, d, w
<1>6. d.wide = w /\ d.sleeping = e.sleeping /\ d.first = e.first
  BY <1>4, <1>5
<1>7. QED
  BY <1>5, <1>6 DEF b, d, w

\* The first of them leaves at most itself for the first nibble of a byte.
LEMMA FirstNibble ==
  ASSUME Types, SleepInv, NEW d \in Latched(ctrl, 0, 3)
  PROVE  d.first \in {<<>>, <<0, 3>>}
<1>1. ctrl \in Display /\ (ctrl.wide => ctrl.first = <<>>)
  BY DEF Types
<1>2. CASE ctrl.sleeping /\ d = ctrl
  BY <1>2 DEF SleepInv
<1>3. CASE d = Told(ctrl, Byte(0, 3, 15))
  <2>1. 15 \in 0..15 /\ 3 \in 0..15 /\ 0 \in {0, 1}
    OBVIOUS
  <2>2. d.first = <<>>
    BY <1>1, <1>3, <2>1, ToldTypes
  <2>3. QED
    BY <2>2
<1>4. CASE d = [ctrl EXCEPT !.first = <<0, 3>>]
  BY <1>1, <1>4 DEF Display
<1>5. ASSUME ctrl.first # <<>>, NEW q \in {ctrl.first[1], 0},
             d = Told(ctrl, Byte(q, ctrl.first[2], 3))
      PROVE  d.first = <<>>
  <2>1. 3 \in 0..15 /\ 0 \in {0, 1}
    OBVIOUS
  <2>2. Told(ctrl, Byte(q, ctrl.first[2], 3)).first = <<>>
    BY <1>1, <1>5, <2>1, SecondTold
  <2>3. QED
    BY <1>5, <2>2
<1>6. QED
  BY <1>1, <1>2, <1>3, <1>4, <1>5, LatchedIs

\* The second makes it eight wires wide, unless it is the second of those two.
LEMMA SecondNibble ==
  ASSUME Types, ~ctrl.sleeping, ctrl.first \in {<<>>, <<0, 3>>}, NEW d \in Latched(ctrl, 0, 3)
  PROVE  ~d.sleeping /\ (d.wide \/ d.first = <<0, 3>>)
<1>1. ctrl \in Display
  BY DEF Types
<1>2. ASSUME NEW lo \in {3, 15}, d = Told(ctrl, Byte(0, 3, lo))
      PROVE  ~d.sleeping /\ d.wide
  <2>1. d.wide = (3 = 3) /\ d.sleeping = ctrl.sleeping
    BY <1>1, <1>2, NibbleTold
  <2>2. QED
    BY <2>1
<1>3. CASE d = [ctrl EXCEPT !.first = <<0, 3>>]
  <2>1. d.first = <<0, 3>> /\ d.sleeping = ctrl.sleeping
    BY <1>1, <1>3 DEF Display
  <2>2. QED
    BY <2>1
<1>4. ASSUME ctrl.first # <<>>, NEW q \in {ctrl.first[1], 0},
             d = Told(ctrl, Byte(q, ctrl.first[2], 3))
      PROVE  d = Told(ctrl, Byte(0, 3, 3))
  <2>1. ctrl.first[1] = 0 /\ ctrl.first[2] = 3
    BY <1>4
  <2>2. q = 0
    BY <1>4, <2>1
  <2>3. QED
    BY <1>4, <2>1, <2>2
<1>5. \/ d = Told(ctrl, Byte(0, 3, 15))
      \/ d = [ctrl EXCEPT !.first = <<0, 3>>]
      \/ d = Told(ctrl, Byte(0, 3, 3))
  BY <1>1, <1>4, LatchedIs
<1>6. QED
  BY <1>2, <1>3, <1>5

\* The third makes it so in any case.
LEMMA ThirdNibble ==
  ASSUME Types, ~ctrl.sleeping, ctrl.wide \/ ctrl.first = <<0, 3>>,
         NEW d \in Latched(ctrl, 0, 3)
  PROVE  ~d.sleeping /\ d.wide
<1>1. ctrl \in Display
  BY DEF Types
<1>2. ASSUME NEW lo \in {3, 15}, d = Told(ctrl, Byte(0, 3, lo))
      PROVE  ~d.sleeping /\ d.wide
  <2>1. d.wide = (3 = 3) /\ d.sleeping = ctrl.sleeping
    BY <1>1, <1>2, NibbleTold
  <2>2. QED
    BY <2>1
<1>3. CASE ctrl.wide
  <2>1. d = Told(ctrl, Byte(0, 3, 15))
    BY <1>1, <1>3, LatchedIs
  <2>2. QED
    BY <1>2, <2>1
<1>4. CASE ~ctrl.wide
  <2>1. ctrl.first = <<0, 3>>
    BY <1>4
  <2>2. ctrl.first # <<>> /\ ctrl.first[1] = 0 /\ ctrl.first[2] = 3
    BY <2>1
  <2>3. \E q \in {ctrl.first[1], 0} : d = Told(ctrl, Byte(q, ctrl.first[2], 3))
    BY <1>1, <1>4, <2>2, LatchedIs
  <2>4. d = Told(ctrl, Byte(0, 3, 3))
    BY <2>2, <2>3
  <2>5. QED
    BY <1>2, <2>4
<1>5. QED
  BY <1>3, <1>4

\* And the last makes it four wires wide, waiting for the first nibble of a byte.
LEMMA LastNibble ==
  ASSUME Types, ~ctrl.sleeping, ctrl.wide, NEW d \in Latched(ctrl, 0, 2)
  PROVE  ~d.sleeping /\ ~d.wide /\ d.first = <<>>
<1>1. ctrl \in Display
  BY DEF Types
<1>2. d = Told(ctrl, Byte(0, 2, 15))
  BY <1>1, LatchedIs
<1>3. 2 \in {2, 3} /\ 15 \in {3, 15}
  OBVIOUS
<1>4. d.wide = (2 = 3) /\ d.sleeping = ctrl.sleeping /\ d.first = <<>>
  BY <1>1, <1>2, <1>3, NibbleTold
<1>5. 2 # 3
  OBVIOUS
<1>6. ~d.wide
  BY <1>4, <1>5
<1>7. QED
  BY <1>4, <1>6

\* What each nibble of the workaround makes of the display.
LEMMA NibbleLatched ==
  ASSUME Types, SleepInv, TuningInv, ScriptInv, stage = "init",
         Place \in {1, 3, 5, 7}, step[Daemon] = 2,
         NEW d \in Latched(ctrl, 0, IF Place = 7 THEN 2 ELSE 3)
  PROVE  /\ Place > 2 => ~d.sleeping
         /\ Place = 1 => d.first \in {<<>>, <<0, 3>>}
         /\ Place = 3 => d.wide \/ d.first = <<0, 3>>
         /\ Place = 5 => d.wide
         /\ Place = 7 => ~d.wide /\ d.first = <<>>
<1>1. CASE Place = 1
  BY <1>1, FirstNibble
<1>2. CASE Place = 3
  <2>1. ~ctrl.sleeping /\ ctrl.first \in {<<>>, <<0, 3>>}
    BY <1>2, LatchesIs DEF TuningInv
  <2>2. ~d.sleeping /\ (d.wide \/ d.first = <<0, 3>>)
    BY <1>2, <2>1, SecondNibble
  <2>3. QED
    BY <1>2, <2>2
<1>3. CASE Place = 5
  <2>1. ~ctrl.sleeping /\ (ctrl.wide \/ ctrl.first = <<0, 3>>)
    BY <1>3, LatchesIs DEF TuningInv
  <2>2. ~d.sleeping /\ d.wide
    BY <1>3, <2>1, ThirdNibble
  <2>3. QED
    BY <1>3, <2>2
<1>4. CASE Place = 7
  <2>1. ~ctrl.sleeping /\ ctrl.wide
    BY <1>4, LatchesIs DEF TuningInv
  <2>2. ~d.sleeping /\ ~d.wide /\ d.first = <<>>
    BY <1>4, <2>1, LastNibble
  <2>3. QED
    BY <1>4, <2>2
<1>5. QED
  BY <1>1, <1>2, <1>3, <1>4

LEMMA TuningStep ==
  ASSUME Types, LockInv, ScriptInv, AlignInv, Next
  PROVE  TuningInv'
<1> USE DEF AlignInv
<1>1. SUFFICES ASSUME stage' = "init", Place' <= 8
               PROVE  TuningInv'
  BY DEF TuningInv
<1>2. CASE Wake
  <2>1. /\ UNCHANGED <<stage, script, step, pins>> /\ ~ctrl'.sleeping
        /\ ctrl'.wide = ctrl.wide /\ ctrl'.first = ctrl.first
    BY <1>2 DEF Wake, Types, Display
  <2>2. Place' = Place /\ Latches' = Latches
    BY <2>1 DEF Place, Latches
  <2>3. QED
    BY <1>1, <2>1, <2>2 DEF TuningInv
<1>3. CASE Start
  <2>1. /\ step'[Daemon] = -1
        /\ script' = [script EXCEPT ![Daemon] = LcdInit]
    BY <1>3 DEF Start, Starts, LockInv
  <2>2. script'[Daemon] = LcdInit
    BY <2>1, LcdInitIs, ScriptTypes
  <2>3. Place' = 1
    BY <2>2, LcdInitIs DEF Place
  <2>4. Latches' = 0
    <3>1. 1 \div 2 = 0
      OBVIOUS
    <3>2. QED
      BY <2>1, <2>3, <3>1 DEF Latches
  <2>5. QED
    BY <2>3, <2>4 DEF TuningInv
<1>4. ASSUME NEW t \in Task, Enter(t)
      PROVE  TuningInv'
  <2>1. /\ stage = "init" /\ t = Daemon /\ UNCHANGED <<stage, script, pins, ctrl>>
        /\ step[t] = -1 /\ step'[t] = 0
    BY <1>1, <1>4 DEF Enter, LockInv, Types
  <2>2. Place' = Place
    BY <2>1 DEF Place
  <2>3. Latches' = Latches
    BY <2>1, <2>2 DEF Latches
  <2>4. QED
    BY <1>1, <2>1, <2>2, <2>3 DEF TuningInv
<1>5. ASSUME NEW t \in Task, EnterInterrupted(t)
      PROVE  FALSE
  <2>1. stage = "serve" /\ stage' = stage
    BY <1>5, Entering DEF EnterInterrupted
  <2>2. QED
    BY <1>1, <2>1
<1>6. ASSUME NEW t \in Task, Write(t)
      PROVE  TuningInv'
  <2>1. stage = "init" /\ Place <= 8 /\ Place' = Place
    BY <1>1, <1>6 DEF Write, Place
  <2>2. /\ t = Daemon /\ Place \in {1, 3, 5, 7} /\ step[t] \in 0..2
        /\ step'[t] = step[t] + 1
        /\ step[t] < 2 /\ Place > 2 => ctrl' = ctrl
        /\ step[t] = 2 => ctrl' \in Latched(ctrl, 0, IF Place = 7 THEN 2 ELSE 3)
    BY <1>6, <2>1, NibbleWrite
  <2>3. CASE step[t] < 2
    <3>1. step'[Daemon] \in 1..2 /\ step[Daemon] \in 0..1
      BY <2>2, <2>3
    <3>2. Latches' = Latches
      BY <2>1, <3>1 DEF Latches
    <3>3. CASE Place > 2
      BY <2>1, <2>2, <2>3, <3>1, <3>2, <3>3 DEF TuningInv
    <3>4. CASE Place = 1
      <4>1. Latches' = 0
        BY <3>1, <3>2, <3>4, LatchesIs
      <4>2. QED
        BY <2>1, <3>4, <4>1 DEF TuningInv
    <3>5. QED
      BY <2>2, <3>3, <3>4
  <2>4. CASE step[t] = 2
    <3>1. step'[Daemon] = 3 /\ step[Daemon] = 2
      BY <2>2, <2>4
    <3>2. Latches' = (Place + 1) \div 2
      BY <2>1, <3>1 DEF Latches
    <3>3. /\ Place = 1 => Latches' = 1
          /\ Place = 3 => Latches' = 2
          /\ Place = 5 => Latches' = 3
          /\ Place = 7 => Latches' = 4
      BY <3>2
    <3>4. ctrl' \in Latched(ctrl, 0, IF Place = 7 THEN 2 ELSE 3)
      BY <2>2, <2>4
    <3>5. /\ Place > 2 => ~ctrl'.sleeping
          /\ Place = 1 => ctrl'.first \in {<<>>, <<0, 3>>}
          /\ Place = 3 => ctrl'.wide \/ ctrl'.first = <<0, 3>>
          /\ Place = 5 => ctrl'.wide
          /\ Place = 7 => ~ctrl'.wide /\ ctrl'.first = <<>>
      BY <2>1, <2>2, <3>1, <3>4, NibbleLatched
    <3>6. QED
      BY <2>1, <2>2, <3>1, <3>3, <3>5 DEF TuningInv
  <2>5. QED
    BY <2>2, <2>3, <2>4
<1>7. ASSUME NEW t \in Task, Leave(t) \/ SleepOver(t)
      PROVE  TuningInv'
  <2>1. /\ stage = "init" /\ UNCHANGED <<pins, ctrl>> /\ Busy(t)
        /\ script' = [script EXCEPT ![t] = Tail(script[t])]
    BY <1>1, <1>7 DEF Leave, SleepOver
  <2>2. t = Daemon
    BY <2>1 DEF LockInv
  <2>3. Place' = Place + 1 /\ Place \in 1..7
    <3>1. Place' = Place + 1
      BY <1>1, <2>1, <2>2, ScriptOn
    <3>2. Place \in 1..16
      BY <2>1, InitItems
    <3>3. QED
      BY <1>1, <3>1, <3>2
  <2>4. /\ Place \in {1, 3, 5} => Item(t) = SetEight
        /\ Place = 7 => Item(t) = SetFour
        /\ Place \in {2, 4, 6} => Item(t) = Sleep
    BY <2>1, <2>2, <2>3, TuningItem
  <2>5. SetEight.do = "nibble" /\ SetFour.do = "nibble" /\ Sleep.do = "sleep"
    BY DEF SetEight, SetFour, Nibble, Sleep
  <2>6. CASE Leave(t)
    <3>1. /\ Item(t).do # "sleep" /\ step[t] = Writes(t) /\ step'[t] = -1
          /\ step[t] \in {3, 6}
      BY <2>6, Leaving DEF Leave, Types
    <3>2. Place \in {1, 3, 5, 7}
      BY <2>3, <2>4, <2>5, <3>1
    <3>3. step[Daemon] = 3
      <4>1. Len(Item(t).nibbles) = 1
        BY <2>4, <3>2 DEF SetEight, SetFour, Nibble
      <4>2. QED
        BY <2>2, <3>1, <4>1 DEF Writes
    <3>4. Latches' = Latches
      BY <2>2, <2>3, <3>1, <3>3 DEF Latches
    <3>5. pins.e = 0
      <4>1. Driven(t) /\ step[t] = 3
        BY <2>2, <3>3 DEF DrivenInv
      <4>2. QED
        BY <4>1 DEF Driven
    <3>6. Place' > 2 => Place > 2
      <4>1. CASE Place = 1
        BY <2>3, <4>1
      <4>2. CASE Place \in {3, 5, 7}
        BY <4>2
      <4>3. QED
        BY <3>2, <4>1, <4>2
    <3>7. QED
      BY <1>1, <2>1, <2>3, <3>4, <3>5, <3>6 DEF TuningInv
  <2>7. CASE SleepOver(t)
    <3>1. Item(t).do = "sleep" /\ ~ctrl.sleeping /\ step' = step
      BY <2>7 DEF SleepOver
    <3>2. Place \in {2, 4, 6}
      BY <2>3, <2>4, <2>5, <3>1
    <3>3. step[Daemon] = -1
      BY <2>2, <3>1 DEF LockInv
    <3>4. Latches' = (Place + 1) \div 2 /\ Latches = Place \div 2
      BY <2>3, <3>1, <3>3 DEF Latches
    <3>5. Latches' = Latches
      BY <3>2, <3>4
    <3>6. QED
      BY <1>1, <2>1, <2>3, <3>1, <3>3, <3>5 DEF TuningInv
  <2>8. QED
    BY <1>7, <2>6, <2>7
<1>8. QED
  BY <1>1, <1>2, <1>3, <1>4, <1>5, <1>6, <1>7 DEF Next, Greet, Read, Clean, Cleaned, Kill,
     Starts, Switch

-----------------------------------------------------------------------------
\* What changes only the scripts of tasks that own no mutex leaves the display tuned.
LEMMA TunedFrame ==
  ASSUME Types, Tuned, TunedInv, ~ctrl.sleeping, UNCHANGED <<mutex, step, pins, ctrl>>,
         \A u \in Task : step[u] # -1 => script'[u] = script[u]
  PROVE  TunedInv'
<1>1. ASSUME NEW u \in Task, step'[u] # -1
      PROVE  Sending(u)'
  <2>1. Sending(u) /\ Item(u)' = Item(u)
    BY <1>1 DEF TunedInv, Item
  <2>2. QED
    BY <2>1 DEF Sending
<1>2. QED
  BY <1>1 DEF TunedInv

LEMMA TunedOrNot ==
  ASSUME Types, ScriptInv, stage = "init", ~Tuned
  PROVE  Place \in 1..8
<1>1. Place \in 1..16 /\ ~(Place > 8)
  BY InitItems DEF Tuned
<1>2. QED
  BY <1>1

LEMMA TunedEnter ==
  ASSUME Types, LockInv, ScriptInv, AlignInv, NEW t \in Task, Enter(t)
  PROVE  TunedInv'
<1> USE DEF AlignInv
<1>1. /\ mutex = Free /\ stage # "down" /\ UNCHANGED <<stage, script, pins, ctrl>>
      /\ step[t] = -1 /\ step' = [step EXCEPT ![t] = 0] /\ Item(t).do # "sleep"
  BY Entering DEF Enter
<1>2. \A u \in Task : step[u] = -1
  BY <1>1, Owner
<1>3. step'[t] = 0 /\ \A u \in Task : u # t => step'[u] = -1
  BY <1>1, <1>2 DEF Types
<1>4. SUFFICES ASSUME Tuned PROVE TunedInv'
  BY <1>1 DEF TunedInv, Tuned, Place
<1>5. ~ctrl.wide /\ ctrl.first = <<>> /\ pins.e = 0
  BY <1>1, <1>4 DEF TunedInv
<1>6. Sending(t)'
  BY <1>1, <1>3, <1>5 DEF Sending
<1>7. mutex'.owner = t /\ mutex' # Free
  <2>1. mutex' = [owner |-> t, depth |-> Free.depth + 1]
    BY <1>1 DEF Enter, Acquired
  <2>2. Free.owner # t
    BY DEF Free
  <2>3. QED
    BY <2>1, <2>2
<1>8. ASSUME ctrl.sleeping
      PROVE  Busy(Daemon)' /\ Item(Daemon)' = Sleep
  <2>1. Busy(Daemon) /\ Item(Daemon) = Sleep
    <3>1. step[Daemon] # 6
      BY <1>2
    <3>2. QED
      BY <1>4, <1>8, <3>1 DEF TunedInv
  <2>2. QED
    BY <1>1, <2>1 DEF Busy, Item
<1>9. QED
  BY <1>1, <1>3, <1>5, <1>6, <1>7, <1>8 DEF TunedInv

LEMMA TunedWriteStep ==
  ASSUME Types, LockInv, ScriptInv, AlignInv, NEW t \in Task, Write(t)
  PROVE  TunedInv'
<1> USE DEF AlignInv
<1>1. /\ step[t] \in 0..5 /\ step' = [step EXCEPT ![t] = step[t] + 1] /\ Busy(t)
      /\ UNCHANGED <<stage, mutex, script>>
  BY WriteIs
<1>2. SUFFICES ASSUME Tuned PROVE TunedInv'
  BY <1>1 DEF TunedInv, Tuned, Place
<1>3. /\ ~ctrl.sleeping /\ Item(t) \in Command \cup Letter
      /\ step[t] \in {0, 1, 3, 4} => ctrl' = ctrl
      /\ step[t] = 2 =>
           ctrl' = [ctrl EXCEPT !.first = <<Item(t).rs, Item(t).nibbles[1]>>]
      /\ step[t] = 5 => ctrl' = Told(ctrl, Item(t))
  BY <1>2, TunedWrite
<1>4. step[t] # -1 /\ ~ctrl.wide /\ Sending(t) /\ ctrl \in Display
  BY <1>1, <1>2 DEF TunedInv, Types
<1>5. mutex # Free /\ \A u \in Task : u # t => step[u] = -1
  BY <1>4, Owner
<1>6. /\ step'[t] = step[t] + 1 /\ step'[t] \in 1..6
      /\ \A u \in Task : u # t => step'[u] = -1
  BY <1>1, <1>5 DEF Types
<1>7. Item(t)' = Item(t)
  BY <1>1 DEF Item
<1>8. CASE step[t] \in {0, 1, 3, 4}
  <2>1. ctrl' = ctrl
    BY <1>3, <1>8
  <2>2. ctrl.first = IF step'[t] \in 3..5 THEN <<Item(t).rs, Item(t).nibbles[1]>> ELSE <<>>
    <3>1. step[t] \in 3..5 <=> step'[t] \in 3..5
      BY <1>6, <1>8
    <3>2. QED
      BY <1>4, <3>1 DEF Sending
  <2>3. Sending(t)'
    <3>1. step'[t] # 0 /\ step'[t] # 6
      BY <1>6, <1>8
    <3>2. QED
      BY <1>7, <2>1, <2>2, <3>1 DEF Sending
  <2>4. QED
    BY <1>1, <1>3, <1>4, <1>5, <1>6, <2>1, <2>3 DEF TunedInv
<1>9. CASE step[t] = 2
  <2>1. ctrl' = [ctrl EXCEPT !.first = <<Item(t).rs, Item(t).nibbles[1]>>]
    BY <1>3, <1>9
  <2>2. /\ ctrl'.first = <<Item(t).rs, Item(t).nibbles[1]>>
        /\ ctrl'.wide = ctrl.wide /\ ctrl'.sleeping = ctrl.sleeping
    BY <1>4, <2>1 DEF Display
  <2>3. step'[t] = 3
    BY <1>6, <1>9
  <2>4. Sending(t)'
    BY <1>7, <2>2, <2>3 DEF Sending
  <2>5. QED
    BY <1>1, <1>3, <1>4, <1>5, <1>6, <2>2, <2>4 DEF TunedInv
<1>10. CASE step[t] = 5
  <2>1. ctrl' = Told(ctrl, Item(t)) /\ step'[t] = 6
    BY <1>3, <1>6, <1>10
  <2>2. ~ctrl'.wide /\ (Item(t) # LCD_CLR => ~ctrl'.sleeping)
    BY <1>3, <1>4, <2>1, ToldItem
  <2>3. ctrl'.first = <<>> /\ ctrl'.last = Item(t)
    <3>1. Item(t) = Byte(Item(t).rs, Item(t).nibbles[1], Item(t).nibbles[2])
      BY <1>3, ItemByte
    <3>2. /\ Item(t).rs \in {0, 1} /\ Item(t).nibbles[1] \in 0..15
          /\ Item(t).nibbles[2] \in 0..15
      <4>1. Item(t) \in Items /\ Item(t).do = "byte"
        BY <1>3, ItemTypes DEF Items
      <4>2. Len(Item(t).nibbles) = 2
        BY <4>1, ItemTypes
      <4>3. 1 \in 1..2 /\ 2 \in 1..2
        OBVIOUS
      <4>4. QED
        BY <4>1, <4>2, <4>3, ItemTypes
    <3>3. PICK r \in {0, 1}, hi \in 0..15, lo \in 0..15 : Item(t) = Byte(r, hi, lo)
      BY <3>1, <3>2
    <3>4. ctrl \in Display
      BY <1>4
    <3>5. Told(ctrl, Byte(r, hi, lo)).first = <<>> /\ Told(ctrl, Byte(r, hi, lo)).last = Byte(r, hi, lo)
      BY <3>4, ToldTypes
    <3>6. QED
      BY <2>1, <3>3, <3>5
  <2>4. Sending(t)'
    BY <1>7, <2>1, <2>3 DEF Sending
  <2>5. ASSUME ctrl'.sleeping
        PROVE  Busy(Daemon)' /\ Item(Daemon)' = LCD_CLR /\ step'[Daemon] = 6
    <3>1. Item(t) = LCD_CLR
      BY <2>2, <2>5
    <3>2. t = Daemon
      BY <1>1, <1>2, <3>1, TunedItem
    <3>3. QED
      BY <1>1, <1>7, <2>1, <3>1, <3>2 DEF Busy
  <2>6. QED
    BY <1>1, <1>5, <1>6, <2>2, <2>4, <2>5 DEF TunedInv
<1>11. QED
  BY <1>1, <1>8, <1>9, <1>10

LEMMA TunedLeave ==
  ASSUME Types, LockInv, ScriptInv, AlignInv, NEW t \in Task, Leave(t)
  PROVE  TunedInv'
<1> USE DEF AlignInv
<1>1. /\ mutex' = Free /\ Busy(t) /\ step[t] \in {3, 6} /\ step[t] = Writes(t)
      /\ Item(t).do # "sleep" /\ \A u \in Task : u # t => step[u] = -1
  BY Leaving
<1>2. /\ UNCHANGED <<stage, pins, ctrl>> /\ step' = [step EXCEPT ![t] = -1]
      /\ script' = [script EXCEPT ![t] = Tail(script[t])]
  BY DEF Leave
<1>3. \A u \in Task : step'[u] = -1
  BY <1>1, <1>2 DEF Types
<1>4. SUFFICES ASSUME Tuned' PROVE TunedInv'
  BY DEF TunedInv
<1>5. Tuned
  <2>1. SUFFICES ASSUME stage = "init" PROVE Tuned
    BY <1>2, <1>4 DEF Tuned
  <2>2. t = Daemon
    BY <1>1, <2>1 DEF LockInv
  <2>3. Place' = Place + 1
    BY <1>1, <1>2, <2>1, <2>2, ScriptOn
  <2>4. SUFFICES ASSUME ~Tuned PROVE FALSE
    OBVIOUS
  <2>5. Place \in 1..8
    BY <2>1, <2>4, TunedOrNot
  <2>6. Place = 8
    BY <1>2, <1>4, <2>1, <2>3, <2>5 DEF Tuned
  <2>7. Item(t) = Sleep
    BY <2>1, <2>2, <2>6, TuningItem
  <2>8. QED
    BY <1>1, <2>7 DEF Sleep
<1>6. Item(t) \in Command \cup Letter
  BY <1>1, <1>5, TunedItem DEF Sleep
<1>7. step[t] = 6
  <2>1. Item(t) \in Items
    BY <1>1, ItemAt
  <2>2. Len(Item(t).nibbles) = 2
    BY <1>6, <2>1, ItemTypes
  <2>3. QED
    BY <1>1, <2>2 DEF Writes
<1>8. ~ctrl.wide /\ ctrl.first = <<>> /\ pins.e = 0
  <2>1. Sending(t) /\ Driven(t) /\ ~ctrl.wide
    BY <1>5, <1>7 DEF TunedInv, DrivenInv
  <2>2. QED
    BY <1>7, <2>1 DEF Sending, Driven
<1>9. ASSUME ctrl.sleeping
      PROVE  Busy(Daemon)' /\ Item(Daemon)' = Sleep
  <2>1. t = Daemon
    BY <1>1, <1>5, <1>9, Awake
  <2>2. Item(t) = LCD_CLR
    BY <1>1, <1>5, <1>9, <2>1 DEF TunedInv, Sleep
  <2>3. Tail(script[t]) # <<>> /\ Tail(script[t])[1] = Sleep
    BY <1>1, <1>5, <2>2, TunedItem
  <2>4. script'[t] = Tail(script[t])
    BY <1>2 DEF Types
  <2>5. QED
    BY <2>1, <2>3, <2>4 DEF Busy, Item
<1>10. QED
  BY <1>2, <1>3, <1>8, <1>9 DEF TunedInv

LEMMA TunedSleepOver ==
  ASSUME Types, LockInv, ScriptInv, AlignInv, NEW t \in Task, SleepOver(t)
  PROVE  TunedInv'
<1> USE DEF AlignInv
<1>1. /\ UNCHANGED <<stage, mutex, step, pins, ctrl>> /\ ~ctrl.sleeping
      /\ Busy(t) /\ Item(t).do = "sleep"
      /\ script' = [script EXCEPT ![t] = Tail(script[t])]
  BY DEF SleepOver
<1>2. step[t] = -1
  BY <1>1 DEF LockInv
<1>3. \A u \in Task : u # t => script'[u] = script[u]
  BY <1>1 DEF Types
<1>4. CASE Tuned
  BY <1>1, <1>2, <1>3, <1>4, TunedFrame
<1>5. CASE ~Tuned /\ Tuned'
  <2>1. stage = "init"
    BY <1>1, <1>5 DEF Tuned
  <2>2. t = Daemon
    BY <1>1, <2>1 DEF LockInv
  <2>3. Place' = Place + 1
    BY <1>1, <2>1, <2>2, ScriptOn
  <2>4. Place \in 1..8
    BY <1>5, <2>1, TunedOrNot
  <2>5. Place = 8
    BY <1>1, <1>5, <2>1, <2>3, <2>4 DEF Tuned
  <2>6. Latches = 4
    BY <2>5, LatchesIs
  <2>7. ~ctrl.wide /\ ctrl.first = <<>> /\ pins.e = 0
    BY <1>2, <2>1, <2>2, <2>5, <2>6 DEF TuningInv
  <2>8. ASSUME NEW u \in Task PROVE step[u] = -1
    <3>1. u # t => ~Busy(u)
      BY <2>1, <2>2 DEF LockInv
    <3>2. QED
      BY <1>2, <3>1 DEF LockInv
  <2>9. QED
    BY <1>1, <2>7, <2>8 DEF TunedInv
<1>6. QED
  BY <1>4, <1>5 DEF TunedInv

LEMMA TunedStep ==
  ASSUME Types, LockInv, ScriptInv, AlignInv, Next
  PROVE  TunedInv'
<1> USE DEF AlignInv
<1>1. CASE Wake
  <2>1. /\ UNCHANGED <<stage, mutex, script, step, pins>> /\ ~ctrl'.sleeping
        /\ ctrl'.wide = ctrl.wide /\ ctrl'.first = ctrl.first /\ ctrl'.last = ctrl.last
    BY <1>1 DEF Wake, Types, Display
  <2>2. SUFFICES ASSUME Tuned PROVE TunedInv'
    BY <2>1 DEF TunedInv, Tuned, Place
  <2>3. ASSUME NEW u \in Task, step'[u] # -1
        PROVE  Sending(u)'
    <3>1. Sending(u) /\ Item(u)' = Item(u)
      BY <2>1, <2>2, <2>3 DEF TunedInv, Item
    <3>2. QED
      BY <2>1, <3>1 DEF Sending
  <2>4. QED
    BY <2>1, <2>2, <2>3 DEF TunedInv
<1>2. CASE Start
  <2>1. script' = [script EXCEPT ![Daemon] = LcdInit] /\ stage' = "init"
    BY <1>2 DEF Start, Starts
  <2>2. script'[Daemon] = LcdInit
    BY <2>1, LcdInitIs, ScriptTypes
  <2>3. Place' = 1
    BY <2>2, LcdInitIs DEF Place
  <2>4. QED
    BY <2>1, <2>3 DEF TunedInv, Tuned
<1>3. CASE Greet \/ Read \/ Clean
  <2>1. ~Busy(Daemon) /\ UNCHANGED <<mutex, step, pins, ctrl>>
    BY <1>3 DEF Greet, Read, Clean
  <2>2. PICK s : script' = [script EXCEPT ![Daemon] = s]
    BY <1>3 DEF Greet, Read, Clean, Starts
  <2>3. Tuned
    <3>1. CASE Greet
      <4>1. stage = "init" /\ Place \in 1..16 /\ ~(Place < 16)
        BY <2>1, <3>1, InitItems DEF Greet
      <4>2. QED
        BY <4>1 DEF Tuned
    <3>2. QED
      BY <1>3, <3>1 DEF Read, Clean, Tuned
  <2>4. ~ctrl.sleeping
    BY <2>1, <2>3, Awake
  <2>5. ASSUME NEW u \in Task, step[u] # -1 PROVE script'[u] = script[u]
    <3>1. u # Daemon
      BY <2>1, <2>5 DEF LockInv
    <3>2. QED
      BY <2>2, <3>1 DEF Types
  <2>6. QED
    BY <2>1, <2>3, <2>4, <2>5, TunedFrame
<1>4. CASE Cleaned \/ Kill
  BY <1>4 DEF Cleaned, Kill, TunedInv, Tuned
<1>5. ASSUME NEW t \in Task, EnterInterrupted(t) \/ Switch(t)
      PROVE  TunedInv'
  <2>1. /\ stage = "serve" /\ UNCHANGED <<mutex, step, pins, ctrl>> /\ step[t] = -1
    <3>1. CASE EnterInterrupted(t)
      BY <3>1, Entering DEF EnterInterrupted
    <3>2. CASE Switch(t)
      BY <3>2 DEF Switch, LockInv
    <3>3. QED
      BY <1>5, <3>1, <3>2
  <2>2. Tuned
    BY <2>1 DEF Tuned
  <2>3. ~ctrl.sleeping
    BY <2>1, <2>2, Awake
  <2>4. \A u \in Task : u # t => script'[u] = script[u]
    BY <1>5 DEF EnterInterrupted, Switch, Types
  <2>5. QED
    BY <2>1, <2>2, <2>3, <2>4, TunedFrame
<1>6. QED
  BY <1>1, <1>2, <1>3, <1>4, <1>5, TunedEnter, TunedWriteStep, TunedLeave, TunedSleepOver
     DEF Next

-----------------------------------------------------------------------------
\* The display being told the next item of a message.
LEMMA PrintTold ==
  ASSUME NEW s \in Seq(Char), NEW c \in Display, NEW k \in 1..Line1(s) + Rest(s) + 2,
         k >= 2 => c.at = Address(s, k), ShowsUpTo(s, c, k)
  PROVE  LET d == Told(c, LcdPrint(s)[k])
         IN  d.at = Address(s, k + 1) /\ ShowsUpTo(s, d, k + 1)
<1> DEFINE d == Told(c, LcdPrint(s)[k])
<1>1. /\ Line1(s) \in 0..Width /\ Rest(s) \in 0..Width /\ Width \in 1..16
      /\ Rest(s) > 0 => Line1(s) = Width
      /\ LcdPrint(s)[1] = LCD_ADR /\ LcdPrint(s)[Line1(s) + 2] = LCD_ADR2
  BY PrintIs
<1>2. Line1(s) <= Len(s) /\ (Rest(s) > 0 => Width + Rest(s) <= Len(s)) /\ Len(s) \in Nat
  BY <1>1 DEF Line1, Rest
<1>3. \A i \in Nat : i <= Len(s) /\ i <= Width => i <= Line1(s)
  BY <1>2 DEF Line1
<1>4. k \in Nat /\ Line1(s) \in Nat /\ Rest(s) \in Nat /\ Width \in Nat
  BY <1>1
<1>5. CASE k = 1
  <2>1. d.at = 0 /\ d.cells = c.cells
    BY <1>1, <1>5, ToldItem DEF Command
  <2>2. Address(s, 2) = 0
    BY <1>4 DEF Address
  <2>3. ShowsUpTo(s, d, 2)
    BY <1>4 DEF ShowsUpTo
  <2>4. QED
    BY <1>5, <2>1, <2>2, <2>3
<1>6. CASE k = Line1(s) + 2
  <2>1. d.at = Line2 /\ d.cells = c.cells
    BY <1>1, <1>6, ToldItem DEF Command
  <2>2. Address(s, k + 1) = Line2
    BY <1>4, <1>6 DEF Address, Line2
  <2>3. ASSUME NEW i \in 1..2 * Width, i <= Len(s),
               IF i <= Width THEN i <= k + 1 - 2 ELSE i <= k + 1 - 3
        PROVE  d.cells[i] = s[i]
    <3>1. i <= Width /\ i <= k - 2
      BY <1>1, <1>3, <1>4, <1>6, <2>3
    <3>2. c.cells[i] = s[i]
      BY <2>3, <3>1 DEF ShowsUpTo
    <3>3. QED
      BY <2>1, <3>2
  <2>4. QED
    BY <2>1, <2>2, <2>3 DEF ShowsUpTo
<1>7. ASSUME NEW j \in 1..Len(s), j \in 1..2 * Width,
             LcdPrint(s)[k] = Byte(1, s[j][1], s[j][2]),
             Cell(c.at) = {j}, Next7(c.at) = Address(s, k + 1),
             \A i \in 1..2 * Width :
               (IF i <= Width THEN i <= k + 1 - 2 ELSE i <= k + 1 - 3) /\ i # j /\ i <= Len(s) =>
                 (IF i <= Width THEN i <= k - 2 ELSE i <= k - 3)
      PROVE  d.at = Address(s, k + 1) /\ ShowsUpTo(s, d, k + 1)
  <2>1. s[j] \in Char
    OBVIOUS
  <2> DEFINE p == s[j]
  <2>2. p \in Char /\ d = Told(c, Byte(1, p[1], p[2]))
    BY <1>7, <2>1
  <2> HIDE DEF p, d
  <2>3. /\ d.at = Next7(c.at)
        /\ \A i \in 1..2 * Width : d.cells[i] = IF i \in Cell(c.at) THEN p ELSE c.cells[i]
    BY <2>2, ToldLetter
  <2>4. ASSUME NEW i \in 1..2 * Width, i <= Len(s),
               IF i <= Width THEN i <= k + 1 - 2 ELSE i <= k + 1 - 3
        PROVE  d.cells[i] = s[i]
    <3>1. CASE i = j
      BY <1>7, <2>3, <3>1 DEF p
    <3>2. CASE i # j
      <4>1. c.cells[i] = s[i]
        BY <1>7, <2>4, <3>2 DEF ShowsUpTo
      <4>2. QED
        BY <1>7, <2>3, <3>2, <4>1
    <3>3. QED
      BY <3>1, <3>2
  <2>5. QED
    BY <1>7, <2>3, <2>4 DEF ShowsUpTo
<1>8. CASE k \in 2..Line1(s) + 1
  <2>1. k - 1 \in 1..Len(s) /\ k - 1 \in 1..2 * Width /\ k - 1 \in 1..Width
    BY <1>1, <1>2, <1>4, <1>8
  <2>2. LcdPrint(s)[k] = Byte(1, s[k - 1][1], s[k - 1][2])
    BY <1>8, PrintIs
  <2>3. c.at = k - 2 /\ Address(s, k + 1) = k - 1
    BY <1>4, <1>8 DEF Address
  <2>4. Cell(c.at) = {k - 1}
    BY <1>1, <1>4, <2>1, <2>3 DEF Cell
  <2>5. Next7(c.at) = k - 1
    <3>1. (k - 2) + 1 \in 0..127 /\ k - 2 # 128 /\ (k - 2) + 1 = k - 1
      BY <1>1, <2>1
    <3>2. \A x \in 0..127 : x % 128 = x
      OBVIOUS
    <3>3. QED
      BY <2>3, <3>1, <3>2 DEF Next7, Nowhere
  <2>6. ASSUME NEW i \in 1..2 * Width,
               IF i <= Width THEN i <= k + 1 - 2 ELSE i <= k + 1 - 3, i # k - 1, i <= Len(s)
        PROVE  IF i <= Width THEN i <= k - 2 ELSE i <= k - 3
    BY <1>1, <1>4, <2>1, <2>6
  <2>7. QED
    BY <1>7, <2>1, <2>2, <2>3, <2>4, <2>5, <2>6
<1>9. CASE k \in Line1(s) + 3..Line1(s) + Rest(s) + 2
  <2>1. /\ Line1(s) = Width /\ k - 2 \in 1..Len(s) /\ k - 2 \in 1..2 * Width
        /\ k - 2 \in Width + 1..2 * Width
    BY <1>1, <1>2, <1>4, <1>9
  <2>2. LcdPrint(s)[k] = Byte(1, s[k - 2][1], s[k - 2][2])
    BY <1>9, PrintIs
  <2>3. c.at = 40 + k - Width - 3 /\ Address(s, k + 1) = 40 + k - Width - 2
    BY <1>4, <1>9, <2>1 DEF Address, Line2
  <2>4. Cell(c.at) = {k - 2}
    <3>1. /\ c.at \in Int /\ ~(c.at < Width) /\ c.at \in 40..40 + Width - 1
          /\ Width + c.at - 40 + 1 = k - 2
      BY <1>1, <1>4, <2>1, <2>3
    <3>2. QED
      BY <3>1 DEF Cell, Line2
  <2>5. Next7(c.at) = 40 + k - Width - 2
    <3>1. c.at + 1 \in 0..127 /\ c.at # 128 /\ c.at + 1 = 40 + k - Width - 2
      BY <1>1, <1>4, <2>1, <2>3
    <3>2. \A x \in 0..127 : x % 128 = x
      OBVIOUS
    <3>3. QED
      BY <3>1, <3>2 DEF Next7, Nowhere
  <2>6. ASSUME NEW i \in 1..2 * Width,
               IF i <= Width THEN i <= k + 1 - 2 ELSE i <= k + 1 - 3, i # k - 2, i <= Len(s)
        PROVE  IF i <= Width THEN i <= k - 2 ELSE i <= k - 3
    BY <1>1, <1>4, <2>1, <2>6
  <2>7. QED
    BY <1>7, <2>1, <2>2, <2>3, <2>4, <2>5, <2>6
<1>10. QED
  BY <1>4, <1>5, <1>6, <1>8, <1>9

\* What leaves the message and the place in it alone.
LEMMA PrintFrame ==
  ASSUME PrintInv, UNCHANGED <<stage, buf, refused>>, script'[Daemon] = script[Daemon],
         step'[Daemon] = 6 <=> step[Daemon] = 6,
         ctrl'.at = ctrl.at, ctrl'.cells = ctrl.cells
  PROVE  PrintInv'
<1>1. Shown' = Shown
  BY DEF Shown, String
<1>2. Ahead' = Ahead
  BY <1>1 DEF Ahead, Line1, Rest
<1>3. Told1' = Told1
  BY <1>2 DEF Told1
<1>4. Address(Shown, Told1)' = Address(Shown, Told1) /\ LcdPrint(Shown)' = LcdPrint(Shown)
  BY <1>1, <1>3
<1>5. ShowsUpTo(Shown, ctrl, Told1)' <=> ShowsUpTo(Shown, ctrl, Told1)
  BY <1>1, <1>3 DEF ShowsUpTo
<1>6. QED
  BY <1>1, <1>2, <1>3, <1>4, <1>5 DEF PrintInv

\* A message that starts.
LEMMA PrintRead ==
  ASSUME Types, LockInv, Read
  PROVE  PrintInv'
<1>1. PICK s \in Messages : /\ buf' = s \o SubSeq(buf, Len(s) + 1, Len(buf))
                            /\ Starts(LcdPrint(String(buf')), "serve")
  BY DEF Read
<1> DEFINE S == String(buf')
           q == LcdPrint(S)
<1>2. S \in Seq(Char) /\ q \in Seq(Items)
  BY <1>1, ReadBuf, Strings, Scripts
<1>3. script' = [script EXCEPT ![Daemon] = q] /\ step' = step /\ Shown' = S
  BY <1>1 DEF Starts, Read, Shown, String
<1>4. script'[Daemon] = q /\ step'[Daemon] = -1
  BY <1>2, <1>3, ScriptTypes DEF Read, LockInv
<1>5. /\ Len(q) = Line1(S) + Rest(S) + 2
      /\ Line1(S) \in Nat /\ Rest(S) \in Nat
  BY <1>2, PrintIs
<1>6. Ahead' = Line1(S) + Rest(S) + 3 - Len(q)
  BY <1>3, <1>4 DEF Ahead, Line1, Rest
<1>7. LcdPrint(Shown)' = q
  BY <1>3
<1> HIDE DEF q
<1>8. Ahead' = 1
  BY <1>5, <1>6
<1>9. Told1' = 1
  BY <1>4, <1>8 DEF Told1
<1>10. ShowsUpTo(Shown, ctrl, Told1)'
  BY <1>9 DEF ShowsUpTo
<1>11. q = SubSeq(q, 1, Len(q))
  BY <1>2, SubSeqFull
<1>12. /\ Ahead' \in 1..Len(LcdPrint(Shown)') + 1
       /\ script'[Daemon] = SubSeq(LcdPrint(Shown)', Ahead', Len(LcdPrint(Shown)'))
  BY <1>4, <1>5, <1>7, <1>8, <1>11
<1>13. QED
  BY <1>9, <1>10, <1>12 DEF PrintInv

\* What is left of a message, and the item it is at.
LEMMA PrintItems ==
  ASSUME Types, PrintInv, stage = "serve", ~refused
  PROVE  LET S == Shown
             k == Ahead
         IN  /\ S \in Seq(Char) /\ k \in 1..Line1(S) + Rest(S) + 3
             /\ Line1(S) \in Nat /\ Rest(S) \in Nat
             /\ Len(script[Daemon]) = Line1(S) + Rest(S) + 3 - k
             /\ ~Busy(Daemon) => k = Line1(S) + Rest(S) + 3
             /\ Busy(Daemon) =>
                  /\ k <= Line1(S) + Rest(S) + 2
                  /\ Item(Daemon) = LcdPrint(S)[k]
                  /\ Tail(script[Daemon]) = SubSeq(LcdPrint(S), k + 1, Len(LcdPrint(S)))
                  /\ Len(Tail(script[Daemon])) = Line1(S) + Rest(S) + 3 - (k + 1)
<1> DEFINE S == Shown
           k == Ahead
           q == LcdPrint(S)
           r == script[Daemon]
<1>1. S \in Seq(Char)
  BY Strings DEF Shown, Types
<1>2. /\ q \in Seq(Items) /\ Len(q) = Line1(S) + Rest(S) + 2
      /\ Line1(S) \in Nat /\ Rest(S) \in Nat
  BY <1>1, Scripts, PrintIs
<1>3. k \in 1..Len(q) + 1 /\ r = SubSeq(q, k, Len(q)) /\ r \in Seq(Items)
  BY DEF PrintInv, Types
<1>4. Busy(Daemon) <=> r # <<>>
  BY DEF Busy
<1>5. Item(Daemon) = r[1]
  BY DEF Item
<1>6. r # <<>> => Len(Tail(r)) = Len(r) - 1
  BY <1>3
<1> HIDE DEF S, k, q, r
<1>7. /\ Len(r) = Len(q) + 1 - k
      /\ r # <<>> => k <= Len(q) /\ r[1] = q[k] /\ Tail(r) = SubSeq(q, k + 1, Len(q))
  BY <1>2, <1>3, Onwards
<1>8. r = <<>> => Len(r) = 0
  OBVIOUS
<1>9. k \in Nat /\ k \in 1..Line1(S) + Rest(S) + 3
  BY <1>2, <1>3
<1>10. Len(r) = Line1(S) + Rest(S) + 3 - k
  BY <1>2, <1>7, <1>9
<1>11. r = <<>> => k = Line1(S) + Rest(S) + 3
  BY <1>2, <1>8, <1>9, <1>10
<1>12. r # <<>> => Len(Tail(r)) = Line1(S) + Rest(S) + 3 - (k + 1)
  BY <1>2, <1>6, <1>9, <1>10
<1>13. QED
  BY <1>1, <1>2, <1>4, <1>5, <1>7, <1>9, <1>10, <1>11, <1>12 DEF S, k, q, r

LEMMA PrintWrite ==
  ASSUME Types, LockInv, ScriptInv, AlignInv, PrintInv, NEW t \in Task, Write(t)
  PROVE  PrintInv'
<1> USE DEF AlignInv
<1>1. /\ step[t] \in 0..5 /\ step' = [step EXCEPT ![t] = step[t] + 1] /\ Busy(t)
      /\ UNCHANGED <<stage, buf, script, refused>>
  BY WriteIs
<1>2. SUFFICES ASSUME stage = "serve", ~refused PROVE PrintInv'
  BY <1>1 DEF PrintInv
<1>3. Tuned /\ ctrl \in Display
  BY <1>2 DEF Tuned, Types
<1>4. /\ Item(t) \in Command \cup Letter
      /\ step[t] \in {0, 1, 3, 4} => ctrl' = ctrl
      /\ step[t] = 2 =>
           ctrl' = [ctrl EXCEPT !.first = <<Item(t).rs, Item(t).nibbles[1]>>]
      /\ step[t] = 5 => ctrl' = Told(ctrl, Item(t))
  BY <1>3, TunedWrite
<1>5. step'[t] = step[t] + 1 /\ \A u \in Task : u # t => step'[u] = step[u]
  BY <1>1 DEF Types
<1>6. CASE step[t] # 5
  <2>1. ctrl'.at = ctrl.at /\ ctrl'.cells = ctrl.cells
    <3>1. step[t] \in {0, 1, 2, 3, 4}
      BY <1>1, <1>6
    <3>2. CASE step[t] = 2
      BY <1>3, <1>4, <3>2 DEF Display
    <3>3. QED
      BY <1>4, <3>1, <3>2
  <2>2. step'[Daemon] = 6 <=> step[Daemon] = 6
    <3>1. step[t] # 6 /\ step'[t] # 6
      BY <1>1, <1>5, <1>6
    <3>2. QED
      BY <1>5, <3>1
  <2>3. QED
    BY <1>1, <2>1, <2>2, PrintFrame
<1>7. CASE step[t] = 5 /\ t # Daemon
  <2>1. Item(t) \in {LCD_ON, LCD_OFF}
    BY <1>1, <1>3, <1>7, TunedItem
  <2>2. ctrl'.at = ctrl.at /\ ctrl'.cells = ctrl.cells
    BY <1>3, <1>4, <1>7, <2>1, ToldItem
  <2>3. step'[Daemon] = step[Daemon]
    BY <1>5, <1>7
  <2>4. QED
    BY <1>1, <2>2, <2>3, PrintFrame
<1>8. CASE step[t] = 5 /\ t = Daemon
  <2> DEFINE S == Shown
             k == Ahead
  <2>1. /\ S \in Seq(Char) /\ k \in 1..Line1(S) + Rest(S) + 3
        /\ Line1(S) \in Nat /\ Rest(S) \in Nat
        /\ k <= Line1(S) + Rest(S) + 2 /\ Item(Daemon) = LcdPrint(S)[k]
    BY <1>1, <1>2, <1>8, PrintItems
  <2>2. step[Daemon] # 6 /\ step'[Daemon] = 6
    BY <1>5, <1>8
  <2>3. Told1 = k /\ Ahead' = k /\ S' = S
    <3>1. Shown' = Shown
      BY <1>1 DEF Shown, String
    <3>2. Ahead' = Ahead
      BY <1>1, <3>1 DEF Ahead, Line1, Rest
    <3>3. Told1 = Ahead
      BY <2>2 DEF Told1
    <3>4. QED
      BY <3>1, <3>2, <3>3
  <2>4. Told1' = k + 1
    BY <2>2, <2>3 DEF Told1
  <2>5. /\ k >= 2 => ctrl.at = Address(S, k)
        /\ ShowsUpTo(S, ctrl, k)
        /\ k \in 1..Len(LcdPrint(S)) + 1
        /\ script[Daemon] = SubSeq(LcdPrint(S), k, Len(LcdPrint(S)))
    BY <1>2, <2>3 DEF PrintInv
  <2>6. ctrl' = Told(ctrl, LcdPrint(S)[k])
    BY <1>4, <1>8, <2>1
  <2>7. script' = script
    BY <1>1
  <2>8. Shown' = S
    BY <2>3
  <2> HIDE DEF S, k
  <2>9. k \in 1..Line1(S) + Rest(S) + 2
    BY <2>1
  <2>10. ctrl'.at = Address(S, k + 1) /\ ShowsUpTo(S, ctrl', k + 1)
    BY <1>3, <2>1, <2>5, <2>6, <2>9, PrintTold
  <2>11. /\ Ahead' \in 1..Len(LcdPrint(Shown)') + 1
         /\ script'[Daemon] = SubSeq(LcdPrint(Shown)', Ahead', Len(LcdPrint(Shown)'))
    BY <2>3, <2>5, <2>7, <2>8
  <2>12. ctrl'.at = Address(Shown', Told1') /\ ShowsUpTo(Shown', ctrl', Told1')
    BY <2>4, <2>8, <2>10
  <2>13. ShowsUpTo(Shown, ctrl, Told1)'
    BY <2>12 DEF ShowsUpTo
  <2>14. QED
    BY <2>11, <2>12, <2>13 DEF PrintInv
<1>9. QED
  BY <1>6, <1>7, <1>8

LEMMA PrintLeave ==
  ASSUME Types, LockInv, ScriptInv, AlignInv, PrintInv, NEW t \in Task, Leave(t)
  PROVE  PrintInv'
<1>1. /\ Busy(t) /\ step[t] = Writes(t) /\ Item(t).do # "sleep"
      /\ step' = [step EXCEPT ![t] = -1]
      /\ script' = [script EXCEPT ![t] = Tail(script[t])]
      /\ UNCHANGED <<stage, buf, ctrl, refused>>
  BY Leaving DEF Leave
<1>2. SUFFICES ASSUME stage = "serve", ~refused PROVE PrintInv'
  BY <1>1 DEF PrintInv
<1>3. CASE t # Daemon
  <2>1. script'[Daemon] = script[Daemon] /\ step'[Daemon] = step[Daemon]
    BY <1>1, <1>3 DEF Types
  <2>2. QED
    BY <1>1, <2>1, PrintFrame
<1>4. CASE t = Daemon
  <2>1. step[Daemon] = 6
    <3>1. Item(t) \in Command \cup Letter /\ Item(t) \in Items
      BY <1>1, <1>2, TunedItem, ItemAt DEF Tuned, Sleep, AlignInv
    <3>2. Len(Item(t).nibbles) = 2
      BY <3>1, ItemTypes
    <3>3. QED
      BY <1>1, <1>4, <3>2 DEF Writes
  <2> DEFINE S == Shown
             k == Ahead
  <2>2. /\ S \in Seq(Char) /\ k \in 1..Line1(S) + Rest(S) + 3
        /\ Line1(S) \in Nat /\ Rest(S) \in Nat
        /\ k <= Line1(S) + Rest(S) + 2
        /\ Tail(script[Daemon]) = SubSeq(LcdPrint(S), k + 1, Len(LcdPrint(S)))
        /\ Len(Tail(script[Daemon])) = Line1(S) + Rest(S) + 3 - (k + 1)
    BY <1>1, <1>2, <1>4, PrintItems
  <2>3. script'[Daemon] = Tail(script[Daemon]) /\ step'[Daemon] = -1
    BY <1>1, <1>4 DEF Types
  <2>4. Shown' = S
    BY <1>1 DEF Shown, String
  <2>5. Ahead' = Line1(S) + Rest(S) + 3 - Len(script'[Daemon])
    BY <2>4 DEF Ahead, Line1, Rest
  <2>6. Told1 = k + 1
    BY <2>1 DEF Told1
  <2>7. /\ k + 1 >= 2 => ctrl.at = Address(S, k + 1)
        /\ ShowsUpTo(S, ctrl, k + 1)
    BY <1>2, <2>6 DEF PrintInv
  <2>8. Len(LcdPrint(S)) = Line1(S) + Rest(S) + 2
    BY <2>2, PrintIs
  <2> HIDE DEF S, k
  <2>9. Ahead' = k + 1
    <3>1. Ahead' = Line1(S) + Rest(S) + 3 - Len(Tail(script[Daemon]))
      BY <2>3, <2>5
    <3>2. Ahead' = Line1(S) + Rest(S) + 3 - (Line1(S) + Rest(S) + 3 - (k + 1))
      BY <2>2, <3>1
    <3>3. Line1(S) \in Nat /\ Rest(S) \in Nat /\ k \in Nat
      BY <2>2
    <3>4. QED
      BY <3>2, <3>3
  <2>10. Told1' = k + 1
    BY <2>3, <2>9 DEF Told1
  <2>11. /\ Ahead' \in 1..Len(LcdPrint(Shown)') + 1
         /\ script'[Daemon] = SubSeq(LcdPrint(Shown)', Ahead', Len(LcdPrint(Shown)'))
    <3>1. k + 1 \in 1..Len(LcdPrint(S)) + 1
      BY <2>2, <2>8
    <3>2. LcdPrint(Shown)' = LcdPrint(S)
      BY <2>4
    <3>3. script'[Daemon] = SubSeq(LcdPrint(S), k + 1, Len(LcdPrint(S)))
      BY <2>2, <2>3
    <3>4. QED
      BY <2>9, <3>1, <3>2, <3>3
  <2>12. ctrl' = ctrl
    BY <1>1
  <2>13. ShowsUpTo(Shown, ctrl, Told1)'
    BY <2>4, <2>7, <2>10, <2>12 DEF ShowsUpTo
  <2>14. Told1' >= 2 => ctrl'.at = Address(Shown', Told1')
    BY <2>4, <2>7, <2>10, <2>12
  <2>15. QED
    BY <2>11, <2>13, <2>14 DEF PrintInv
<1>5. QED
  BY <1>3, <1>4

LEMMA PrintStep ==
  ASSUME Types, LockInv, ScriptInv, AlignInv, PrintInv, Next
  PROVE  PrintInv'
<1>1. CASE Wake
  <2>1. ctrl'.at = ctrl.at /\ ctrl'.cells = ctrl.cells
    BY <1>1 DEF Wake, Types, Display
  <2>2. QED
    BY <1>1, <2>1, PrintFrame DEF Wake
<1>2. CASE Start \/ Greet \/ Clean \/ Cleaned \/ Kill
  BY <1>2 DEF Start, Greet, Clean, Cleaned, Kill, Starts, PrintInv
<1>3. ASSUME NEW t \in Task, Enter(t)
      PROVE  PrintInv'
  <2>1. UNCHANGED <<stage, buf, refused, script, ctrl>> /\ step' = [step EXCEPT ![t] = 0]
    BY <1>3 DEF Enter
  <2>2. step[t] # 6 /\ step'[t] = 0 /\ \A u \in Task : u # t => step'[u] = step[u]
    BY <1>3, <2>1 DEF Enter, Types
  <2>3. step'[Daemon] = 6 <=> step[Daemon] = 6
    BY <2>2
  <2>4. QED
    BY <2>1, <2>3, PrintFrame
<1>4. ASSUME NEW t \in Task, EnterInterrupted(t) \/ Switch(t)
      PROVE  PrintInv'
  <2>1. /\ UNCHANGED <<stage, buf, step, ctrl>>
        /\ \A u \in Task : u # t => script'[u] = script[u]
    BY <1>4 DEF EnterInterrupted, Switch, Types
  <2>2. CASE t = Daemon
    BY <1>4, <2>2 DEF EnterInterrupted, Switch, PrintInv
  <2>3. CASE t # Daemon
    <3>1. refused' = refused
      BY <1>4, <2>3 DEF EnterInterrupted, Switch
    <3>2. QED
      BY <2>1, <2>3, <3>1, PrintFrame
  <2>4. QED
    BY <2>2, <2>3
<1>5. ASSUME NEW t \in Task, SleepOver(t)
      PROVE  PrintInv'
  <2>1. Busy(t) /\ Item(t).do = "sleep" /\ stage' = stage
    BY <1>5 DEF SleepOver
  <2>2. stage # "serve"
    <3>1. SUFFICES ASSUME stage = "serve" PROVE FALSE
      OBVIOUS
    <3>2. Item(t) \in Items
      BY <2>1, ItemAt
    <3>3. Item(t) = Sleep
      BY <2>1, <3>2, ItemTypes
    <3>4. QED
      BY <2>1, <3>1, <3>3, TunedItem DEF Tuned, AlignInv
  <2>3. QED
    BY <2>1, <2>2 DEF PrintInv
<1>6. QED
  BY <1>1, <1>2, <1>3, <1>4, <1>5, PrintRead, PrintWrite, PrintLeave DEF Next

-----------------------------------------------------------------------------
LEMMA InitInv ==
  ASSUME Init
  PROVE  IInv
<1>1. Types
  BY InitTypes
<1>2. \A t \in Task : ~Busy(t) /\ step[t] = -1
  BY DEF Init, Busy
<1>3. stage = "down" /\ ctrl.sleeping = FALSE
  BY DEF Init, PowerOn
<1>4. LockInv
  BY <1>2, <1>3 DEF LockInv
<1>5. ScriptInv
  BY <1>3 DEF ScriptInv, Init
<1>6. AlignInv
  BY <1>2, <1>3 DEF AlignInv, DrivenInv, TunedInv, Tuned, SleepInv, TuningInv
<1>7. PrintInv
  BY <1>3 DEF PrintInv
<1>8. QED
  BY <1>1, <1>4, <1>5, <1>6, <1>7 DEF IInv

LEMMA Stutter ==
  ASSUME IInv, UNCHANGED vars
  PROVE  IInv'
<1> USE DEF vars
<1>1. Types'
  BY DEF IInv, Types
<1>2. LockInv'
  BY DEF IInv, LockInv, Busy, Item, Writes
<1>3. ScriptInv'
  BY DEF IInv, ScriptInv, Place
<1>4. DrivenInv'
  BY DEF IInv, AlignInv, DrivenInv, Driven, Item
<1>5. SleepInv'
  BY DEF IInv, AlignInv, SleepInv
<1>6. TuningInv'
  <2>1. Place' = Place /\ Latches' = Latches
    BY DEF Place, Latches
  <2>2. QED
    BY <2>1 DEF IInv, AlignInv, TuningInv
<1>7. TunedInv'
  <2>1. Tuned' <=> Tuned
    BY DEF Tuned, Place
  <2>2. \A t \in Task : Sending(t)' <=> Sending(t)
    BY DEF Sending, Item
  <2>3. QED
    BY <2>1, <2>2 DEF IInv, AlignInv, TunedInv, Busy, Item
<1>8. PrintInv'
  BY PrintFrame DEF IInv
<1>9. QED
  BY <1>1, <1>2, <1>3, <1>4, <1>5, <1>6, <1>7, <1>8 DEF IInv, AlignInv

LEMMA Invariance == Spec => []IInv
<1>1. IInv /\ [Next]_vars => IInv'
  <2>1. ASSUME IInv, Next PROVE IInv'
    <3>1. Types /\ LockInv /\ ScriptInv /\ AlignInv /\ PrintInv /\ DrivenInv
      BY <2>1 DEF IInv, AlignInv
    <3>2. DrivenInv' /\ TunedInv' /\ SleepInv' /\ TuningInv'
      BY <2>1, <3>1, DrivenStep, TunedStep, SleepStep, TuningStep
    <3>3. Types' /\ LockInv' /\ ScriptInv' /\ PrintInv'
      BY <2>1, <3>1, TypesStep, LockStep, ScriptStep, PrintStep
    <3>4. QED
      BY <3>2, <3>3 DEF IInv, AlignInv
  <2>2. QED
    BY <2>1, Stutter
<1>2. QED
  BY <1>1, InitInv, PTL DEF Spec

\* Every variable keeps its type, and no task makes more writes than its item has
\* nibbles for, through any sequence of calls, kills and interrupted acquires.
THEOREM Typing == Spec => []TypeOK
<1>1. IInv => TypeOK
  <2>1. SUFFICES ASSUME IInv PROVE TypeOK
    OBVIOUS
  <2>2. ASSUME NEW t \in Task
        PROVE  step[t] \in -1..6 /\ (Busy(t) => step[t] <= Writes(t))
    <3>1. step[t] \in -1..6
      BY <2>1 DEF IInv, Types
    <3>2. step[t] # -1 => step[t] <= Writes(t)
      BY <2>1 DEF IInv, LockInv
    <3>3. ASSUME Busy(t), step[t] = -1 PROVE step[t] <= Writes(t)
      <4>1. Len(Item(t).nibbles) \in 0..2
        BY <2>1, <3>3, ItemAt, ItemTypes DEF IInv
      <4>2. QED
        BY <3>3, <4>1 DEF Writes
    <3>4. QED
      BY <3>1, <3>2, <3>3
  <2>3. ctrl.at \in 0..Nowhere /\ ctrl.cells \in [1..2 * Width -> (0..15) \X (0..15)]
    BY <2>1 DEF IInv, Types, Display, Cells
  <2>4. QED
    BY <2>1, <2>2, <2>3 DEF IInv, Types, TypeOK
<1>2. QED
  BY <1>1, Invariance, PTL

\* lcd_init puts the display in step with the driver whatever an earlier process left
\* half sent, and nothing after it puts it out of step: between bytes it waits for a
\* first nibble with enable low.
THEOREM DisplayAligned == Spec => []Aligned
<1>1. IInv => Aligned
  BY DEF IInv, AlignInv, TunedInv, Tuned, Aligned
<1>2. QED
  BY <1>1, Invariance, PTL

\* However many tasks send, the mutex keeps the nibbles of a byte together: the display
\* is told the byte that was sent.
THEOREM BytesWhole == Spec => []WholeBytes
<1>1. IInv => WholeBytes
  <2>1. SUFFICES ASSUME IInv, NEW t \in Task, stage \in {"greet", "serve"}, step[t] = 6
                 PROVE  ctrl.last = Item(t)
    BY DEF WholeBytes
  <2>2. Tuned /\ step[t] # -1
    BY <2>1 DEF Tuned
  <2>3. Sending(t)
    BY <2>1, <2>2 DEF IInv, AlignInv, TunedInv
  <2>4. QED
    BY <2>1, <2>3 DEF Sending
<1>2. QED
  BY <1>1, Invariance, PTL

\* A message lcd_print sent with no byte refused is what both lines show, while other
\* tasks switch the display on and off.
THEOREM MessagesDisplayed == Spec => []Displayed
<1>1. IInv => Displayed
  <2>1. SUFFICES ASSUME IInv, stage = "serve", ~Busy(Daemon), ~refused,
                        NEW i \in 1..2 * Width, i <= Len(String(buf))
                 PROVE  ctrl.cells[i] = String(buf)[i]
    BY DEF Displayed
  <2> DEFINE S == Shown
             k == Ahead
  <2>2. /\ S \in Seq(Char) /\ k = Line1(S) + Rest(S) + 3
        /\ Line1(S) \in Nat /\ Rest(S) \in Nat
    BY <2>1, PrintItems DEF IInv
  <2>3. Told1 = k
    BY <2>1 DEF Told1, IInv, LockInv
  <2>4. ShowsUpTo(S, ctrl, k)
    BY <2>1, <2>3 DEF IInv, PrintInv
  <2>5. S = String(buf)
    BY DEF Shown
  <2> HIDE DEF S, k
  <2>6. IF i <= Width THEN i <= k - 2 ELSE i <= k - 3
    <3>1. i \in Nat /\ Width \in Nat /\ Len(S) \in Nat /\ i <= Len(S) /\ i <= 2 * Width
      BY <2>1, <2>2, <2>5
    <3>2. i <= Width => i <= Line1(S)
      BY <3>1 DEF Line1
    <3>3. i > Width => i <= Line1(S) + Rest(S)
      <4>1. ASSUME i > Width
            PROVE  /\ Line1(S) = Width
                   /\ Rest(S) = IF Len(S) < 2 * Width THEN Len(S) - Width ELSE Width
        <5>1. ~(Len(S) < Width) /\ ~(Len(S) <= Width)
          BY <3>1, <4>1
        <5>2. QED
          BY <5>1 DEF Line1, Rest
      <4>2. QED
        BY <3>1, <4>1
    <3>4. QED
      BY <2>2, <3>1, <3>2, <3>3
  <2>7. QED
    BY <2>1, <2>4, <2>5, <2>6 DEF ShowsUpTo
<1>2. QED
  BY <1>1, Invariance, PTL
=============================================================================
