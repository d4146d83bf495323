------------------------------ MODULE I2CCalls -------------------------------
(***************************************************************************)
(* The calls of src/i2ctools.h, the bytes they move and the checks they    *)
(* make before touching the bus: the vocabulary AtomicBus and I2CBus       *)
(* share.  A byte is abstracted to the task that wrote it, which is what   *)
(* tells one caller's data from another's.                                 *)
(***************************************************************************)
EXTENDS RtMutex

CONSTANTS Address,   \* the uint8_t slave addresses callers pass
          Size       \* the csize characters callers pass

ASSUME AddressAssumption == Address \subseteq 0..255 /\ 0 \in Address

Op == {"get", "set", "get_3com", "set_1com"}

Calls == [op : Op, addr : Address, size : Size]

NoCall == [op |-> "none", addr |-> 0, size |-> "none"]

Tag == Task \cup {NoTask}

\* What one SMBus transfer gave: success, who wrote the byte, which slave.
Replies == [ok : BOOLEAN, by : Tag, at : Address]

NoReply == [ok |-> FALSE, by |-> NoTask, at |-> 0]

\* The address checks that return -EADDRNOTAVAIL before the mutex is taken.
\* i2c_get_3com has none of its own: it relies on the i2c_set it calls.
Rejected(c) ==
  \/ c.op = "get" /\ c.addr \notin 3..119
  \/ c.op \in {"set", "set_1com"} /\ c.addr > 127

\* ioctl(I2C_SLAVE, a) on a file whose slave is s: the kernel refuses an
\* address that is not 7 bits, and one that another driver holds (EBUSY); a
\* refused ioctl leaves the slave selected before.
Selectable(s, a) == IF a <= 127 THEN {s, a} ELSE {s}

\* A transfer answers for the slave selected on the file, not for the one asked.
Reply(ok, by, at) == [ok |-> ok, by |-> by, at |-> at]

\* i2c_get with a csize it does not know makes no transfer at all and fails.
Transfers(c) == c.op = "get" => c.size \in {"b", "w", "c"}

\* A write by t to slave s that landed, or did not.  One that succeeds landed;
\* one that fails may have.
Written(cell, s, t, landed) == IF landed THEN [cell EXCEPT ![s] = t] ELSE cell
=============================================================================
