------------------------------ MODULE AtomicBus ------------------------------
(***************************************************************************)
(* What "This function is thread-safe" promises of the calls of            *)
(* src/i2ctools.c: every call is one indivisible transaction on the bus,   *)
(* whatever the other tasks do, even when it takes several transfers.  It  *)
(* does not promise that the slave addressed is the one asked for: the     *)
(* code drops the error of set_slave_addr.                                 *)
(***************************************************************************)
EXTENDS I2CCalls

VARIABLES slave,   \* the slave the bus file addresses
          cell,    \* per slave, who wrote its register last
          phase,   \* per task: "idle", "busy" or "done"
          req,     \* per task, the call it makes
          reply    \* per task, what its transaction gave

vars == <<slave, cell, phase, req, reply>>

Init ==
  /\ slave = 0
  /\ cell = [a \in Address |-> NoTask]
  /\ phase = [t \in Task |-> "idle"]
  /\ req = [t \in Task |-> NoCall]
  /\ reply = [t \in Task |-> NoReply]

Call(t, c) ==
  /\ phase[t] = "idle"
  /\ phase' = [phase EXCEPT ![t] = "busy"]
  /\ req' = [req EXCEPT ![t] = c]
  /\ UNCHANGED <<slave, cell, reply>>

\* The call returns: after its transaction, or without touching the bus.
Return(t) ==
  /\ phase[t] \in {"busy", "done"}
  /\ phase' = [phase EXCEPT ![t] = "idle"]
  /\ req' = [req EXCEPT ![t] = NoCall]
  /\ reply' = [reply EXCEPT ![t] = NoReply]
  /\ UNCHANGED <<slave, cell>>

Read(t, s, c) ==
  \E ok \in BOOLEAN :
    /\ ok => Transfers(req[t])
    /\ reply' = [reply EXCEPT ![t] = Reply(ok, c[s], s)]

Write(t, s) ==
  \E ok, landed \in BOOLEAN :
    /\ ok => landed
    /\ cell' = Written(cell, s, t, landed)
    /\ reply' = [reply EXCEPT ![t] = Reply(ok, t, s)]

Transact(t) ==
  /\ phase[t] = "busy"
  /\ phase' = [phase EXCEPT ![t] = "done"]
  /\ \/ /\ req[t].op = "get"
        /\ slave' \in Selectable(slave, req[t].addr)
        /\ Read(t, slave', cell)
        /\ cell' = cell
     \/ /\ req[t].op \in {"set", "set_1com"}
        /\ slave' \in Selectable(slave, req[t].addr)
        /\ Write(t, slave')
     \* the command goes out, unless its address is refused; then the read
     \/ /\ req[t].op = "get_3com"
        /\ \E s \in Selectable(slave, req[t].addr), landed \in BOOLEAN :
             /\ landed => req[t].addr <= 127
             /\ cell' = Written(cell, s, t, landed)
             /\ slave' \in Selectable(s, req[t].addr)
        /\ Read(t, slave', cell')
  /\ UNCHANGED req

\* i2c_init opens the bus afresh: no slave has been selected on the new file.
Reopen ==
  /\ slave' = 0
  /\ UNCHANGED <<cell, phase, req, reply>>

Next ==
  \/ Reopen
  \/ \E t \in Task :
       \/ \E c \in Calls : ~Rejected(c) /\ Call(t, c)
       \/ Transact(t)
       \/ Return(t)

Spec == Init /\ [][Next]_vars
=============================================================================
