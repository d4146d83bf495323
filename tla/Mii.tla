--------------------------------- MODULE Mii ---------------------------------
(***************************************************************************)
(* The program of etherlite_fix: main.c configures a Marvell PHY through   *)
(* marvell_88e1111.c, one register at a time, and mii-bitbang.c clocks     *)
(* each access bit by bit over two GPIO pins, the clock MDC and the data   *)
(* line MDIO.                                                              *)
(*                                                                         *)
(* A step of the program sets MDIO, the next one pulses MDC and samples    *)
(* MDIO after it.  The PHY (external, IEEE 802.3 clause 22) looks at MDIO  *)
(* on the rising edge and drives it from there; a line nobody drives is    *)
(* pulled up.  Resets of the PHY come at any moment.  A register and a     *)
(* register number are the sets of their bits that are 1.                  *)
(***************************************************************************)
EXTENDS Naturals, Sequences

CONSTANTS Preamble,    \* MII_PREABLE_BITS
          AddrBits,    \* MII_5ADDRESS_BITS
          DataBits,    \* MII_16REGISTER_BITS
          Oui,         \* MPHY_ID0_MARVELL_OUI
          Link,        \* MPHY_SPCFC_STAT_LINK_RT
          Gigabit,     \* MPHY_1000BT_CONTROL_ADV_1000BT_FD and _HD
          Restart,     \* MPHY_CONTROL_RSTRT_AUTONEG
          MaxResets    \* bound on the resets of the PHY

BitNo == 0..DataBits - 1

ASSUME MiiAssumption ==
  /\ Preamble \in Nat \ {0} /\ AddrBits \in Nat \ 0..4 /\ DataBits \in Nat \ {0}
  /\ {Oui, Link, Gigabit, Restart} \subseteq SUBSET BitNo
  /\ MaxResets \in Nat

VARIABLES
  at,      \* the access of Program it is at; 0 once main_task has called exit
  turn,    \* the clock of the access; 0 when the access is about to start
  phase,   \* what comes next: the "pin", the "clock", or the access has "returned"
  value,   \* what is written, or has been read so far
  pin,     \* what the program drives MDIO with
  awake,   \* the PHY is out of reset
  ones,    \* ones in a row the PHY has seen
  got,     \* the bits of the frame it has taken
  giving,  \* the bits it still has to drive, the first of them on the line
  regs,    \* its registers
  resets,  \* how many resets there have been
  steady,  \* history: the PHY has been awake since the access began
  taken    \* history: what the PHY has done for the access, or nothing yet

program == <<at, turn, phase, value, pin>>
phy     == <<awake, ones, got, giving, regs, resets>>
miiVars == <<program, phy, steady, taken>>

\* Register numbers, the address of the PHY, and MII_DATA_INVALID.
CONTROL_REG == {}
ID0_REG == {1}
ID1_REG == {0, 1}
GIGABIT_REG == {0, 3}
STATUS_REG == {0, 4}
Register == {CONTROL_REG, ID0_REG, ID1_REG, GIGABIT_REG, STATUS_REG}

PHY_ADDR == {}
Invalid == BitNo

\* The accesses main_task makes.  "detect" ends the program when the value is not
\* the one of a Marvell PHY, "wait" repeats the access until the link is up, and
\* the value a write sends is that of the read before it with some bits set.
Program ==
  LET Read(r, then) == [op |-> "read", reg |-> r, then |-> then, set |-> {}]
      Write(r, bits) == [op |-> "write", reg |-> r, then |-> "go", set |-> bits]
  IN << Read(ID0_REG, "go"), Read(ID1_REG, "go"), Read(ID0_REG, "detect"),
        Read(STATUS_REG, "wait"), Read(STATUS_REG, "go"),
        Read(GIGABIT_REG, "go"), Write(GIGABIT_REG, Gigabit),
        Read(CONTROL_REG, "go"), Write(CONTROL_REG, Restart),
        Read(STATUS_REG, "wait"), Read(STATUS_REG, "go") >>

Access == Program[at]

Bits(v, n) == [i \in 1..n |-> IF n - i \in v THEN 1 ELSE 0]

\* MDIO as an input.
Z == 2

Times(n, b) == [i \in 1..n |-> b]

\* Mutant of SendAddress: one bit of the preamble is missing.
SendAddressShort(a) ==
  Times(Preamble - 1, 1) \o <<0, 1>>
  \o (IF a.op = "read" THEN <<1, 0>> ELSE <<0, 1>>)
  \o Bits(PHY_ADDR, AddrBits) \o Bits(a.reg, AddrBits)

\* mii_send_address: preamble, start, opcode, PHY and register.
SendAddress(a) ==
  Times(Preamble, 1) \o <<0, 1>>
  \o (IF a.op = "read" THEN <<1, 0>> ELSE <<0, 1>>)
  \o Bits(PHY_ADDR, AddrBits) \o Bits(a.reg, AddrBits)

\* Mutant of Pins: a read ends without the clock that lets the PHY go.
PinsShort(a) ==
  SendAddress(a) \o (IF a.op = "read" THEN Times(DataBits + 1, Z)
              ELSE <<1, 0>> \o Bits(value, DataBits) \o <<Z>>)

\* What the program drives at each clock of an access.
Pins(a) ==
  SendAddress(a) \o (IF a.op = "read" THEN Times(DataBits + 2, Z)
              ELSE <<1, 0>> \o Bits(value, DataBits) \o <<Z>>)

Nothing == [op |-> "none", reg |-> {}, value |-> {}]

Fresh == [r \in Register |-> IF r = ID0_REG THEN Oui ELSE {}]

MiiInit ==
  /\ at = 1 /\ turn = 0 /\ phase = "pin" /\ value = {} /\ pin = Z
  /\ awake \in BOOLEAN
  /\ ones = 0 /\ got = <<>> /\ giving = <<>> /\ regs = Fresh /\ resets = 0
  /\ steady = FALSE /\ taken = Nothing

-----------------------------------------------------------------------------
\* The PHY.

\* What is on the line when the program drives p and the PHY g.
Level(p, g) == IF p # Z THEN p ELSE IF g # <<>> THEN g[1] ELSE 1

HeadLen == 4 + 2 * AddrBits

\* No frame holds as many ones in a row as a preamble.
ASSUME PreambleAssumption == Preamble > HeadLen + DataBits

Named(g) == CHOOSE r \in Register : Bits(r, AddrBits) = SubSeq(g, 5 + AddrBits, HeadLen)

\* The frame in g is for this PHY and one of its registers.
ForMe(g) ==
  /\ SubSeq(g, 5, 4 + AddrBits) = Bits(PHY_ADDR, AddrBits)
  /\ \E r \in Register : Bits(r, AddrBits) = SubSeq(g, 5 + AddrBits, HeadLen)

IsRead(g) == SubSeq(g, 3, 4) = <<1, 0>>
IsWrite(g) == SubSeq(g, 3, 4) = <<0, 1>>

\* It drives a zero after the first bit of the turnaround, then its register.
Answer(g) ==
  /\ giving' = <<0>> \o Bits(regs[Named(g)], DataBits)
  /\ taken' = [op |-> "read", reg |-> Named(g), value |-> regs[Named(g)]]
  /\ got' = <<>> /\ UNCHANGED regs

\* A restart of the negotiation takes the link down.
Execute(g) ==
  LET v == {b \in BitNo : g[HeadLen + 2 + DataBits - b] = 1} IN
  /\ regs' = IF Named(g) = CONTROL_REG /\ v \cap Restart # {}
               THEN [regs EXCEPT ![CONTROL_REG] = v \ Restart,
                                 ![STATUS_REG] = @ \ Link]
               ELSE [regs EXCEPT ![Named(g)] = v]
  /\ taken' = [op |-> "write", reg |-> Named(g), value |-> v]
  /\ got' = <<>> /\ UNCHANGED giving

\* A bit of a frame: its start must be 01.
Collect(g) ==
  IF Len(g) = 2 /\ g[2] # 1
    THEN got' = <<>> /\ UNCHANGED <<giving, regs, taken>>
  ELSE IF Len(g) = HeadLen + 1 /\ IsRead(g) /\ ForMe(g) THEN Answer(g)
  ELSE IF Len(g) = HeadLen + 2 + DataBits
    THEN IF IsWrite(g) /\ ForMe(g) THEN Execute(g)
         ELSE got' = <<>> /\ UNCHANGED <<giving, regs, taken>>
  ELSE got' = g /\ UNCHANGED <<giving, regs, taken>>

\* The rising edge.
Edge(bit) ==
  /\ IF ~awake THEN UNCHANGED <<ones, got, giving, regs, taken>>
     ELSE IF giving # <<>>
       THEN giving' = Tail(giving) /\ ones' = 0 /\ UNCHANGED <<got, regs, taken>>
     ELSE IF got # <<>> THEN Collect(Append(got, bit)) /\ ones' = 0
     ELSE /\ ones' = IF bit = 0 THEN 0 ELSE IF ones < Preamble THEN ones + 1 ELSE ones
          /\ got' = IF bit = 0 /\ ones = Preamble THEN <<0>> ELSE <<>>
          /\ UNCHANGED <<giving, regs, taken>>
  /\ UNCHANGED <<awake, resets>>

Reset ==
  /\ resets < MaxResets /\ resets' = resets + 1
  /\ awake' = FALSE
  /\ ones' = 0 /\ got' = <<>> /\ giving' = <<>> /\ regs' = Fresh
  /\ steady' = FALSE
  /\ UNCHANGED <<program, taken>>

WakeUp ==
  /\ ~awake /\ awake' = TRUE
  /\ UNCHANGED <<program, ones, got, giving, regs, resets, steady, taken>>

\* The link comes and goes.
LinkChanges ==
  /\ awake
  /\ regs' = [regs EXCEPT ![STATUS_REG] = IF Link \subseteq @ THEN @ \ Link ELSE @ \cup Link]
  /\ UNCHANGED <<program, awake, ones, got, giving, resets, steady, taken>>

-----------------------------------------------------------------------------
\* The program.

Going == at \in 1..Len(Program)

\* The access starts: the value of a read is empty, that of a write the one read
\* before with bits set.
Begin ==
  /\ Going /\ phase = "pin" /\ turn = 0
  /\ turn' = 1
  /\ value' = IF Access.op = "read" THEN {} ELSE value \cup Access.set
  /\ steady' = awake
  /\ UNCHANGED <<at, phase, pin, phy, taken>>

\* mdio_mode_output and mdio_drive_bit, or mdio_mode_input.
SetPin ==
  /\ Going /\ phase = "pin" /\ turn > 0
  /\ pin' = Pins(Access)[turn]
  /\ phase' = "clock"
  /\ UNCHANGED <<at, turn, value, phy, steady, taken>>

\* The turn in which MiiGpio_PhyRead checks the turnaround.
CheckTurn == Len(SendAddress(Access)) + 1

\* mdc_clk_1_0 and, in a read, mdio_read: first the turnaround bit, then the
\* register, the most significant bit first.
Clock ==
  /\ Going /\ phase = "clock"
  /\ Edge(Level(pin, giving))
  /\ LET bit == Level(pin, giving')
         checks == Access.op = "read" /\ turn = CheckTurn
         reads == Access.op = "read" /\ turn \in CheckTurn + 1 .. CheckTurn + DataBits
         over == turn = Len(Pins(Access)) \/ (checks /\ bit # 0)
     IN /\ value' = IF checks /\ bit # 0 THEN Invalid
                    ELSE IF reads THEN {b + 1 : b \in value} \cup (IF bit = 1 THEN {0} ELSE {})
                    ELSE value
        /\ turn' = IF over THEN 0 ELSE turn + 1
        /\ phase' = IF over THEN "returned" ELSE "pin"
  /\ UNCHANGED <<at, pin, steady>>

Return ==
  /\ Going /\ phase = "returned"
  /\ phase' = "pin"
  /\ at' = IF Access.then = "detect" /\ value # Oui THEN 0
           ELSE IF Access.then = "wait" /\ value \cap Link = {} THEN at
           ELSE at + 1
  /\ taken' = Nothing
  /\ UNCHANGED <<turn, value, pin, phy, steady>>

MiiNext ==
  \/ Begin \/ SetPin \/ Clock \/ Return
  \/ Reset \/ WakeUp \/ LinkChanges

MiiSpec == MiiInit /\ [][MiiNext]_miiVars

-----------------------------------------------------------------------------
MiiTypeOK ==
  /\ at \in 0..Len(Program) + 1
  /\ turn \in 0..Preamble + HeadLen + DataBits + 3
  /\ phase \in {"pin", "clock", "returned"}
  /\ value \subseteq BitNo /\ pin \in {0, 1, Z}
  /\ awake \in BOOLEAN /\ ones \in 0..Preamble
  /\ got \in Seq({0, 1}) /\ Len(got) <= HeadLen + DataBits + 1
  /\ giving \in Seq({0, 1}) /\ Len(giving) <= DataBits + 1
  /\ regs \in [Register -> SUBSET BitNo] /\ resets \in 0..MaxResets
  /\ steady \in BOOLEAN
  /\ taken \in [op : {"none", "read", "write"}, reg : Register, value : SUBSET BitNo]

\* The program and the PHY never drive MDIO at once: MiiGpio_PhyRead turns the
\* line round before the PHY answers, and clocks the PHY off it before it ends.
NoContention == pin = Z \/ giving = <<>>

\* The PHY does what it is asked and nothing else, though it may wake up in the
\* middle of any frame: what it does is the access the program is making, and an
\* access during which it stays awake is done, a read with the value it gave and a
\* write with the value that was sent.
DoesWhatIsAsked ==
  Going =>
    /\ taken # Nothing => taken.op = Access.op /\ taken.reg = Access.reg
    /\ phase = "returned" /\ steady =>
         taken = [op |-> Access.op, reg |-> Access.reg, value |-> value]
=============================================================================
