----------------------------- MODULE MotorsProofs ------------------------------
(***************************************************************************)
(* Proofs about Motors and MotorsLife, for any tasks, any number of motors *)
(* and encoders, any settings, limits and count.                           *)
(***************************************************************************)
EXTENDS Motors, TLAPS

USE NumAssumption

-----------------------------------------------------------------------------
(***************************************************************************)
(* What motors_init_motor and motors_clean_motor hold at each label: the   *)
(* parts m mapped, the parts h allocated, and the mutexes p of the motors  *)
(* and q of the encoders.                                                  *)
(***************************************************************************)
MutexesOf(p, q) == ({"pwm"} \X p) \cup ({"qenc"} \X q)

Holds(m, h, p, q) == mapped = m /\ heap = h /\ live = MutexesOf(p, q)

Below(n) == 0..(n - 1)

\* A count is set before its array is used, and a mutex is in an array and for
\* registers that are there.
KeptInv ==
  /\ heap \subseteq sized
  /\ \A m \in live : m[1] \in heap \cap mapped

\* On the way up the loop index counts the mutexes created.
UpInv ==
  /\ at = "start" => Holds({}, {}, {}, {}) /\ im = 0 /\ iq = 0 /\ sized = {}
  /\ at = "alloc_pwm" => Holds({"pwm"}, {}, {}, {}) /\ im = 0 /\ iq = 0
  /\ at = "create_pwm" => Holds({"pwm"}, {"pwm"}, Below(im), {}) /\ iq = 0
  /\ at = "map_qenc" =>
       Holds({"pwm"}, {"pwm"}, Below(NumMotors), {}) /\ im = NumMotors /\ iq = 0
  /\ at = "alloc_qenc" =>
       Holds(Part, {"pwm"}, Below(NumMotors), {}) /\ im = NumMotors /\ iq = 0
  /\ at = "create_qenc" =>
       Holds(Part, Part, Below(NumMotors), Below(iq)) /\ im = NumMotors
  /\ at = "up" => Holds(Part, Part, Below(NumMotors), Below(NumEncs))

\* On the way back it counts those still to be deleted; the encoders' registers
\* stay mapped only if unmapping them failed, and a mutex only if 0 is not returned.
UndoInv ==
  /\ at \in {"start", "alloc_pwm", "create_pwm", "map_qenc", "alloc_qenc",
             "create_qenc", "delete_qenc", "unmap_qenc"} => ~stuck
  /\ at = "delete_qenc" => Holds(Part, Part, Below(im), Below(iq))
  /\ at = "unmap_qenc" => Holds(Part, {"pwm"}, Below(im), {})
  /\ at = "delete_pwm" =>
       /\ heap = {"pwm"} /\ live = MutexesOf(Below(im), {})
       /\ "pwm" \in mapped /\ (~stuck => mapped = {"pwm"})
  /\ at = "unmap_pwm" =>
       /\ heap = {} /\ live = {}
       /\ "pwm" \in mapped /\ (~stuck => mapped = {"pwm"})
  /\ at = "returned" => (~stuck => Held) /\ (err = "ok" => live = {})

\* No mutex of the first n entries of a part is among these.
Passed(mutexes, p, n) == \A i \in Below(n) : <<p, i>> \notin mutexes

\* The clean counts upwards the mutexes it has deleted.
CleanInv ==
  /\ at = "clean_qenc" =>
       /\ iq > 0 => "qenc" \in heap
       /\ Passed(live, "qenc", iq)
  /\ at \in {"clean_unmap_qenc", "clean_pwm", "clean_unmap_pwm"} => "qenc" \notin heap
  /\ at \in {"clean_pwm", "clean_unmap_pwm"} => "qenc" \notin mapped
  /\ at = "clean_pwm" =>
       /\ im > 0 => "pwm" \in heap
       /\ Passed(live, "pwm", im)
  /\ at = "clean_unmap_pwm" => heap = {}
  /\ at = "cleaned" => (err = "ok" => Held)

LifeInv == LifeTypeOK /\ KeptInv /\ UpInv /\ UndoInv /\ CleanInv

-----------------------------------------------------------------------------
\* Counting up or down by one creates or deletes one mutex.
LEMMA Ranges == Below(0) = {}
BY DEF Below

LEMMA Created ==
  /\ \A q : \A i \in Nat : MutexesOf(Below(i), q) \cup {<<"pwm", i>>} = MutexesOf(Below(i + 1), q)
  /\ \A p : \A i \in Nat : MutexesOf(p, Below(i)) \cup {<<"qenc", i>>} = MutexesOf(p, Below(i + 1))
BY DEF MutexesOf, Below

LEMMA Deleted ==
  /\ \A q : \A i \in Int : MutexesOf(Below(i), q) \ {<<"pwm", i - 1>>} = MutexesOf(Below(i - 1), q)
  /\ \A p : \A i \in Int : MutexesOf(p, Below(i)) \ {<<"qenc", i - 1>>} = MutexesOf(p, Below(i - 1))
BY DEF MutexesOf, Below

\* Every mutex is in the array of its part.
LEMMA Parts ==
  /\ MutexesOf({}, {}) = {}
  /\ \A p, q : \A m \in MutexesOf(p, q) : m[1] \in Part
  /\ \A p : \A m \in MutexesOf(p, {}) : m[1] = "pwm"
BY DEF MutexesOf, Part

\* Once the clean's loop has passed every entry, no mutex of the part is left.
LEMMA PassedAll ==
  ASSUME LifeTypeOK, KeptInv, NEW p \in Part, Passed(live, p, Size(p))
  PROVE  \A m \in live : m[1] # p
<1> SUFFICES ASSUME NEW m \in live, m[1] = p PROVE FALSE
  OBVIOUS
<1>1. p \in sized
  BY DEF KeptInv
<1>2. m \in Mutex
  BY DEF LifeTypeOK
<1>3. m[2] \in Below(Size(p)) /\ m = <<p, m[2]>>
  BY <1>1, <1>2 DEF Mutex, Size, Below, Part
<1>4. QED
  BY <1>3 DEF Passed

\* Deleting the next mutex passes one more entry.
LEMMA PassedNext ==
  ASSUME NEW l, NEW p, NEW n \in Nat, Passed(l, p, n)
  PROVE  Passed(l \ {<<p, n>>}, p, n + 1)
<1>1. \A i \in Below(n + 1) : i = n \/ i \in Below(n)
  BY DEF Below
<1>2. QED
  BY <1>1 DEF Passed

\* No entry is before the first.
LEMMA PassedNone == \A l, p : Passed(l, p, 0)
BY DEF Passed, Below

\* The loops count entries that exist.
LEMMA SizeType ==
  /\ Size("pwm") \in 0..NumMotors /\ Size("qenc") \in 0..NumEncs
  /\ "pwm" \in sized => Size("pwm") > 0
  /\ "qenc" \in sized => Size("qenc") > 0
BY DEF Size

\* The steps of motors_init_motor on the way up, those of its goto chain, and those
\* of motors_clean_motor.
UpSteps ==
  \/ MapPwm \/ AllocPwm \/ CreatePwm \/ PwmDone \/ MapQenc \/ AllocQenc
  \/ CreateQenc \/ Up \/ CleanStart \/ StopNext

UndoSteps ==
  \/ DeleteQenc \/ FreeQenc \/ UnmapQenc \/ DeletePwm \/ FreePwm \/ UnmapPwm
  \/ Restart

CleanSteps ==
  \/ Stopped \/ CleanQenc \/ CleanFreeQenc \/ CleanUnmapQenc \/ CleanPwm
  \/ CleanFreePwm \/ CleanUnmapPwm

\* The steps keep the types.
LEMMA LifeTyping ==
  ASSUME LifeTypeOK, UpSteps \/ UndoSteps \/ CleanSteps
  PROVE  LifeTypeOK'
<1>typ. /\ at \in LifeLabels /\ err \in {"ok", "error"} /\ stuck \in BOOLEAN
        /\ sized \subseteq Part /\ mapped \subseteq Part /\ heap \subseteq Part /\ live \subseteq Mutex
        /\ im \in 0..NumMotors /\ iq \in 0..NumEncs
  BY DEF LifeTypeOK
<1> USE DEF GoOn, Goto, resources
<1>1. ASSUME UpSteps PROVE LifeTypeOK'
  <2>1. at' \in LifeLabels /\ err' \in {"ok", "error"}
    BY <1>1, <1>typ DEF UpSteps, MapPwm, AllocPwm, CreatePwm, PwmDone, MapQenc,
       AllocQenc, CreateQenc, Up, CleanStart, StopNext, LifeLabels
  <2>2. stuck' \in BOOLEAN /\ sized' \subseteq Part
    BY <1>1, <1>typ DEF UpSteps, MapPwm, AllocPwm, CreatePwm, PwmDone, MapQenc,
       AllocQenc, CreateQenc, Up, CleanStart, StopNext, Part
  <2>3. mapped' \subseteq Part /\ heap' \subseteq Part
    BY <1>1, <1>typ DEF UpSteps, MapPwm, AllocPwm, CreatePwm, PwmDone, MapQenc,
       AllocQenc, CreateQenc, Up, CleanStart, StopNext, Part
  <2>4. live' \subseteq Mutex
    BY <1>1, <1>typ DEF UpSteps, MapPwm, AllocPwm, CreatePwm, PwmDone, MapQenc,
       AllocQenc, CreateQenc, Up, CleanStart, StopNext, Mutex
  <2>5. im' \in 0..NumMotors /\ iq' \in 0..NumEncs
    BY <1>1, <1>typ, SizeType DEF UpSteps, MapPwm, AllocPwm, CreatePwm, PwmDone, MapQenc,
       AllocQenc, CreateQenc, Up, CleanStart, StopNext
  <2>6. QED
    BY <2>1, <2>2, <2>3, <2>4, <2>5 DEF LifeTypeOK
<1>2. ASSUME UndoSteps PROVE LifeTypeOK'
  <2>1. at' \in LifeLabels /\ err' \in {"ok", "error"}
    BY <1>2, <1>typ DEF UndoSteps, DeleteQenc, FreeQenc, UnmapQenc, DeletePwm,
       FreePwm, UnmapPwm, Restart, Undo, LifeLabels
  <2>2. stuck' \in BOOLEAN /\ sized' \subseteq Part
    BY <1>2, <1>typ DEF UndoSteps, DeleteQenc, FreeQenc, UnmapQenc, DeletePwm,
       FreePwm, UnmapPwm, Restart, Undo
  <2>3. mapped' \subseteq Part /\ heap' \subseteq Part
    BY <1>2, <1>typ DEF UndoSteps, DeleteQenc, FreeQenc, UnmapQenc, DeletePwm,
       FreePwm, UnmapPwm, Restart, Undo, Part
  <2>4. live' \subseteq Mutex
    BY <1>2, <1>typ DEF UndoSteps, DeleteQenc, FreeQenc, UnmapQenc, DeletePwm,
       FreePwm, UnmapPwm, Restart, Undo, Mutex
  <2>5. im' \in 0..NumMotors /\ iq' \in 0..NumEncs
    BY <1>2, <1>typ DEF UndoSteps, DeleteQenc, FreeQenc, UnmapQenc, DeletePwm,
       FreePwm, UnmapPwm, Restart, Undo
  <2>6. QED
    BY <2>1, <2>2, <2>3, <2>4, <2>5 DEF LifeTypeOK
<1>3. ASSUME CleanSteps PROVE LifeTypeOK'
  <2>1. at' \in LifeLabels /\ err' \in {"ok", "error"}
    BY <1>3, <1>typ DEF CleanSteps, Stopped, CleanQenc, CleanFreeQenc,
       CleanUnmapQenc, CleanPwm, CleanFreePwm, CleanUnmapPwm, Delete, CleanUnmap, LifeLabels
  <2>2. stuck' \in BOOLEAN /\ sized' \subseteq Part
    BY <1>3, <1>typ DEF CleanSteps, Stopped, CleanQenc, CleanFreeQenc,
       CleanUnmapQenc, CleanPwm, CleanFreePwm, CleanUnmapPwm, Delete, CleanUnmap
  <2>3. mapped' \subseteq Part /\ heap' \subseteq Part
    BY <1>3, <1>typ DEF CleanSteps, Stopped, CleanQenc, CleanFreeQenc,
       CleanUnmapQenc, CleanPwm, CleanFreePwm, CleanUnmapPwm, Delete, CleanUnmap, Part
  <2>4. live' \subseteq Mutex
    BY <1>3, <1>typ DEF CleanSteps, Stopped, CleanQenc, CleanFreeQenc,
       CleanUnmapQenc, CleanPwm, CleanFreePwm, CleanUnmapPwm, Delete, CleanUnmap, Mutex
  <2>5. im' \in 0..NumMotors /\ iq' \in 0..NumEncs
    BY <1>3, <1>typ, SizeType DEF CleanSteps, Stopped, CleanQenc, CleanFreeQenc,
       CleanUnmapQenc, CleanPwm, CleanFreePwm, CleanUnmapPwm, Delete, CleanUnmap
  <2>6. QED
    BY <2>1, <2>2, <2>3, <2>4, <2>5 DEF LifeTypeOK
<1>4. QED
  BY <1>1, <1>2, <1>3

\* The steps leave no mutex without its array and its registers.
LEMMA KeptStep ==
  ASSUME LifeInv, UpSteps \/ UndoSteps \/ CleanSteps
  PROVE  KeptInv'
<1>typ. LifeTypeOK /\ heap \subseteq Part /\ live \subseteq Mutex
  BY DEF LifeInv, LifeTypeOK
<1>tab. UpInv /\ UndoInv /\ CleanInv
  BY DEF LifeInv
<1>kept. /\ heap \subseteq sized
         /\ \A m \in live : m[1] \in heap \cap mapped
  BY DEF LifeInv, KeptInv
<1>inv. KeptInv
  BY DEF LifeInv
<1> USE DEF KeptInv, GoOn, Goto
<1>1. CASE MapPwm \/ MapQenc
  BY <1>1, <1>kept DEF MapPwm, MapQenc
<1>2. CASE AllocPwm \/ AllocQenc
  BY <1>2, <1>kept DEF AllocPwm, AllocQenc
<1>3. CASE CreatePwm
  <2>1. mapped = {"pwm"} /\ heap = {"pwm"}
    BY <1>3, <1>tab DEF CreatePwm, UpInv, Holds
  <2>2. QED
    BY <1>3, <1>kept, <2>1 DEF CreatePwm
<1>4. CASE CreateQenc
  <2>1. mapped = Part /\ heap = Part
    BY <1>4, <1>tab DEF CreateQenc, UpInv, Holds
  <2>2. QED
    BY <1>4, <1>kept, <2>1 DEF CreateQenc, Part
<1>5. CASE PwmDone \/ Up \/ CleanStart \/ StopNext \/ Stopped
  BY <1>5, <1>kept DEF PwmDone, Up, CleanStart, StopNext, Stopped, resources
<1>6. CASE DeleteQenc \/ DeletePwm
  BY <1>6, <1>kept DEF DeleteQenc, DeletePwm, Undo
<1>7. CASE FreeQenc \/ UnmapQenc
  <2>1. \A m \in live : m[1] = "pwm"
    BY <1>7, <1>tab, Ranges, Parts DEF FreeQenc, UnmapQenc, UndoInv, Holds
  <2>2. QED
    BY <1>7, <1>kept, <2>1 DEF FreeQenc, UnmapQenc
<1>8. CASE FreePwm \/ UnmapPwm
  <2>1. live = {}
    BY <1>8, <1>tab, Ranges, Parts DEF FreePwm, UnmapPwm, UndoInv
  <2>2. QED
    BY <1>8, <1>kept, <2>1 DEF FreePwm, UnmapPwm
<1>9. CASE CleanQenc \/ CleanPwm
  BY <1>9, <1>kept DEF CleanQenc, CleanPwm, Delete
<1>10. CASE CleanFreeQenc
  <2>1. Passed(live, "qenc", Size("qenc"))
    BY <1>10, <1>tab DEF CleanFreeQenc, CleanInv
  <2>2. \A m \in live : m[1] # "qenc"
    <3>1. "qenc" \in Part
      BY DEF Part
    <3>2. QED
      BY <1>typ, <1>inv, <2>1, <3>1, PassedAll
  <2>3. QED
    BY <1>10, <1>kept, <2>2 DEF CleanFreeQenc
<1>11. CASE CleanFreePwm
  <2>1. Passed(live, "pwm", Size("pwm"))
    BY <1>11, <1>tab DEF CleanFreePwm, CleanInv
  <2>2. \A m \in live : m[1] # "pwm"
    <3>1. "pwm" \in Part
      BY DEF Part
    <3>2. QED
      BY <1>typ, <1>inv, <2>1, <3>1, PassedAll
  <2>3. QED
    BY <1>11, <1>kept, <2>2 DEF CleanFreePwm
<1>12. CASE CleanUnmapQenc
  <2>1. \A m \in live : m[1] # "qenc"
    BY <1>12, <1>tab, <1>kept DEF CleanUnmapQenc, CleanInv
  <2>2. QED
    BY <1>12, <1>kept, <2>1 DEF CleanUnmapQenc, CleanUnmap
<1>13. CASE CleanUnmapPwm
  <2>1. live = {}
    BY <1>13, <1>tab, <1>kept DEF CleanUnmapPwm, CleanInv
  <2>2. QED
    BY <1>13, <1>kept, <2>1 DEF CleanUnmapPwm, CleanUnmap
<1>14. CASE Restart
  BY <1>14 DEF Restart, Held, resources
<1>15. QED
  BY <1>1, <1>2, <1>3, <1>4, <1>5, <1>6, <1>7, <1>8, <1>9, <1>10, <1>11, <1>12, <1>13,
     <1>14 DEF UpSteps, UndoSteps, CleanSteps

\* The steps keep the table: those on the way up ...
LEMMA UpStep ==
  ASSUME LifeInv, UpSteps
  PROVE  LifeInv'
<1>num. im \in Nat /\ iq \in Nat
  BY DEF LifeInv, LifeTypeOK
<1>none. MutexesOf(Below(0), {}) = {} /\ MutexesOf({}, {}) = {} /\ Below(0) = {}
  BY Parts, Ranges
<1>typ. LifeTypeOK' /\ KeptInv'
  BY LifeTyping, KeptStep DEF LifeInv
<1>tab. UpInv /\ UndoInv /\ CleanInv
  BY DEF LifeInv
<1> USE DEF UpInv, UndoInv, CleanInv, Holds, GoOn, Goto
<1>1. CASE MapPwm
  BY <1>1, <1>none, <1>typ, <1>tab DEF MapPwm, Held, LifeInv
<1>2. CASE AllocPwm
  <2>1. /\ live' = {} /\ mapped' = {"pwm"} /\ im' = 0 /\ iq' = 0 /\ ~stuck'
        /\ \/ at' = "create_pwm" /\ heap' = {"pwm"}
           \/ at' = "unmap_pwm" /\ heap' = {}
    BY <1>2, <1>none, <1>tab DEF AllocPwm
  <2>2. UpInv' /\ UndoInv' /\ CleanInv'
    BY <1>none, <2>1
  <2>3. QED
    BY <1>typ, <2>2 DEF LifeInv
<1>3. CASE CreatePwm
  <2>1. MutexesOf(Below(im), {}) \cup {<<"pwm", im>>} = MutexesOf(Below(im + 1), {})
    BY <1>num, Created
  <2>2. UpInv' /\ UndoInv' /\ CleanInv'
    BY <1>3, <1>none, <1>tab, <2>1 DEF CreatePwm
  <2>3. QED
    BY <1>typ, <2>2 DEF LifeInv
<1>4. CASE PwmDone
  BY <1>4, <1>typ, <1>tab DEF PwmDone, resources, LifeInv
<1>5. CASE MapQenc
  BY <1>5, <1>typ, <1>tab DEF MapQenc, Part, LifeInv
<1>6. CASE AllocQenc
  BY <1>6, <1>none, <1>typ, <1>tab DEF AllocQenc, Part, LifeInv
<1>7. CASE CreateQenc
  <2>1. MutexesOf(Below(NumMotors), Below(iq)) \cup {<<"qenc", iq>>}
        = MutexesOf(Below(NumMotors), Below(iq + 1))
    BY <1>num, Created
  <2>2. /\ at = "create_qenc" /\ ~stuck /\ ~stuck' /\ im = NumMotors
        /\ Holds(Part, Part, Below(NumMotors), Below(iq))
    BY <1>7, <1>tab DEF CreateQenc
  <2>3. CASE at' = "create_qenc"
    <3>1. Holds(Part, Part, Below(NumMotors), Below(iq))' /\ im' = NumMotors
      BY <1>7, <2>1, <2>2, <2>3 DEF CreateQenc
    <3>2. QED
      BY <1>typ, <2>2, <2>3, <3>1 DEF LifeInv
  <2>4. CASE at' = "delete_qenc"
    <3>1. Holds(Part, Part, Below(im), Below(iq))'
      BY <1>7, <2>2, <2>4 DEF CreateQenc
    <3>2. QED
      BY <1>typ, <2>2, <2>4, <3>1 DEF LifeInv
  <2>5. QED
    BY <1>7, <2>3, <2>4 DEF CreateQenc
<1>8. CASE Up
  BY <1>8, <1>typ, <1>tab DEF Up, resources, LifeInv
<1>9. CASE CleanStart \/ StopNext
  <2>1. at' = "stopping"
    BY <1>9 DEF CleanStart, StopNext
  <2>2. QED
    BY <1>typ, <2>1 DEF LifeInv
<1>10. QED
  BY <1>1, <1>2, <1>3, <1>4, <1>5, <1>6, <1>7, <1>8, <1>9 DEF UpSteps

\* ... those of the goto chain, and a start after it ...
LEMMA UndoStep ==
  ASSUME LifeInv, UndoSteps
  PROVE  LifeInv'
<1>num. im \in Int /\ iq \in Int
  BY DEF LifeInv, LifeTypeOK
<1>none. MutexesOf(Below(0), {}) = {} /\ MutexesOf({}, {}) = {} /\ Below(0) = {}
  BY Parts, Ranges
<1>typ. LifeTypeOK' /\ KeptInv'
  BY LifeTyping, KeptStep DEF LifeInv
<1>tab. UpInv /\ UndoInv /\ CleanInv
  BY DEF LifeInv
<1> USE DEF UpInv, UndoInv, CleanInv, Holds, GoOn, Goto
<1>1. CASE DeleteQenc
  <2>1. MutexesOf(Below(im), Below(iq)) \ {<<"qenc", iq - 1>>}
        = MutexesOf(Below(im), Below(iq - 1))
    BY <1>num, Deleted
  <2>2. \/ /\ at' = "delete_qenc" /\ ~stuck'
           /\ Holds(Part, Part, Below(im), Below(iq))'
        \/ at' = "returned" /\ stuck' /\ err' = "error"
    BY <1>1, <1>tab, <2>1 DEF DeleteQenc, Undo
  <2>3. UpInv' /\ UndoInv' /\ CleanInv'
    BY <2>2
  <2>4. QED
    BY <1>typ, <2>3 DEF LifeInv
<1>2. CASE FreeQenc
  BY <1>2, <1>none, <1>typ, <1>tab DEF FreeQenc, Part, LifeInv
<1>3. CASE UnmapQenc
  BY <1>3, <1>typ, <1>tab DEF UnmapQenc, Part, LifeInv
<1>4. CASE DeletePwm
  <2>1. MutexesOf(Below(im), {}) \ {<<"pwm", im - 1>>} = MutexesOf(Below(im - 1), {})
    BY <1>num, Deleted
  <2>2. UpInv' /\ UndoInv' /\ CleanInv'
    BY <1>4, <1>tab, <2>1 DEF DeletePwm, Undo
  <2>3. QED
    BY <1>typ, <2>2 DEF LifeInv
<1>5. CASE FreePwm
  BY <1>5, <1>none, <1>typ, <1>tab DEF FreePwm, LifeInv
<1>6. CASE UnmapPwm
  BY <1>6, <1>typ, <1>tab DEF UnmapPwm, Held, LifeInv
<1>7. CASE Restart
  BY <1>7, <1>none, <1>typ DEF Restart, Held, resources, LifeInv
<1>8. QED
  BY <1>1, <1>2, <1>3, <1>4, <1>5, <1>6, <1>7 DEF UndoSteps

\* ... and those of the clean.
LEMMA CleanStep ==
  ASSUME LifeInv, CleanSteps
  PROVE  LifeInv'
<1>num. im \in Nat /\ iq \in Nat /\ heap \subseteq Part /\ mapped \subseteq Part
  BY DEF LifeInv, LifeTypeOK
<1>typ. LifeTypeOK' /\ KeptInv'
  BY LifeTyping, KeptStep DEF LifeInv
<1>tab. CleanInv /\ \A m \in live : m[1] \in heap
  BY DEF LifeInv, KeptInv
<1>fst. \A p : \A i : <<p, i>>[1] = p
  OBVIOUS
<1> SUFFICES CleanInv' /\ UpInv' /\ UndoInv'
  BY <1>typ DEF LifeInv
<1> USE DEF GoOn, Goto
<1>at. at' \in {"clean_qenc", "clean_unmap_qenc", "clean_pwm", "clean_unmap_pwm", "cleaned"}
  BY DEF CleanSteps, Stopped, CleanQenc, CleanFreeQenc, CleanUnmapQenc, CleanPwm,
     CleanFreePwm, CleanUnmapPwm, Delete, CleanUnmap
<1>0. UpInv' /\ UndoInv'
  BY <1>at DEF UpInv, UndoInv
<1>1. CASE Stopped
  <2>1. at' = "clean_qenc" /\ iq' = 0
    BY <1>1 DEF Stopped
  <2>2. QED
    BY <1>0, <2>1, PassedNone DEF CleanInv
<1>2. CASE CleanQenc
  <2>1. CASE at' = "cleaned" /\ err' = "error"
    BY <1>0, <2>1 DEF CleanInv
  <2>2. CASE ~(at' = "cleaned" /\ err' = "error")
    <3>1. /\ <<"qenc", iq>> \in live /\ live' = live \ {<<"qenc", iq>>}
          /\ at = "clean_qenc" /\ at' = "clean_qenc" /\ iq' = iq + 1 /\ heap' = heap
      BY <1>2, <2>2 DEF CleanQenc, Delete
    <3>2. "qenc" \in heap
      BY <3>1, <1>tab, <1>fst
    <3>3. Passed(live', "qenc", iq')
      BY <3>1, <1>tab, <1>num, PassedNext DEF CleanInv
    <3>4. QED
      BY <1>0, <3>1, <3>2, <3>3 DEF CleanInv
  <2>3. QED
    BY <2>1, <2>2
<1>3. CASE CleanFreeQenc
  BY <1>0, <1>3 DEF CleanFreeQenc, CleanInv
<1>4. CASE CleanUnmapQenc
  BY <1>0, <1>4, <1>tab, PassedNone DEF CleanUnmapQenc, CleanUnmap, CleanInv
<1>5. CASE CleanPwm
  <2>1. CASE at' = "cleaned" /\ err' = "error"
    BY <1>0, <2>1 DEF CleanInv
  <2>2. CASE ~(at' = "cleaned" /\ err' = "error")
    <3>1. /\ <<"pwm", im>> \in live /\ live' = live \ {<<"pwm", im>>}
          /\ at = "clean_pwm" /\ at' = "clean_pwm" /\ im' = im + 1
          /\ UNCHANGED <<heap, mapped>>
      BY <1>5, <2>2 DEF CleanPwm, Delete
    <3>2. "pwm" \in heap
      BY <3>1, <1>tab, <1>fst
    <3>3. Passed(live', "pwm", im')
      BY <3>1, <1>tab, <1>num, PassedNext DEF CleanInv
    <3>4. QED
      BY <1>0, <1>tab, <3>1, <3>2, <3>3 DEF CleanInv
  <2>3. QED
    BY <2>1, <2>2
<1>6. CASE CleanFreePwm
  <2>1. heap' = {}
    BY <1>6, <1>tab, <1>num DEF CleanFreePwm, CleanInv, Part
  <2>2. QED
    BY <1>0, <1>6, <1>tab, <2>1 DEF CleanFreePwm, CleanInv
<1>7. CASE CleanUnmapPwm
  <2>1. heap = {} /\ live = {} /\ "qenc" \notin mapped
    BY <1>7, <1>tab DEF CleanUnmapPwm, CleanInv
  <2>2. \/ err' = "error" /\ at' = "cleaned"
        \/ at' = "cleaned" /\ mapped' = {} /\ heap' = {} /\ live' = {}
    BY <1>7, <1>num, <2>1 DEF CleanUnmapPwm, CleanUnmap, Part
  <2>3. QED
    BY <1>0, <2>2 DEF CleanInv, Held
<1>8. QED
  BY <1>1, <1>2, <1>3, <1>4, <1>5, <1>6, <1>7 DEF CleanSteps
-----------------------------------------------------------------------------
(***************************************************************************)
(* The calls of the tasks.  Who owns the mutex of a motor or an encoder is *)
(* the one task inside a call on it.                                       *)
(***************************************************************************)
Inside(t) == pc[t] \in InsideLabels

LockInv ==
  /\ \A d \in Device :
       \/ mutex[d] = Free
       \/ /\ mutex[d].owner \in Task
          /\ Inside(mutex[d].owner) /\ op[mutex[d].owner].dev = d
  /\ \A t \in Task : Inside(t) => mutex[op[t].dev] = [owner |-> t, depth |-> 1]

\* A task is in a call only while the driver is up, past its acquire, and where its
\* call takes it; before its acquire the init may also have failed and returned 0.
CallInv ==
  \A t \in Task :
    pc[t] # "idle" =>
      /\ at = "up" \/ (at = "returned" /\ err = "ok" /\ pc[t] = "enter")
      /\ op[t] \in Calls
      /\ pc[t] = "write" => op[t].kind \in {"set", "setzero"}
      /\ pc[t] = "copy" => op[t].kind = "set"
      /\ pc[t] \in {"lower", "clear"} => op[t].kind = "setzero"
      /\ pc[t] \in {"shift", "sample"} => op[t].kind = "read_enc"
      /\ pc[t] = "give" => op[t].kind \in {"read", "read_enc"}

\* A register and its copy agree, but for a divider nobody has set.
Applied(r) == copy[r] = pwm[r] \/ (r[2] = "freq_div" /\ copy[r] = Junk)

\* They may differ only between the two assignments of a call on that register.
PwmInv ==
  /\ at \in {"create_pwm", "map_qenc", "alloc_qenc", "create_qenc"} =>
       \A m \in Motor : copy[<<m, "freq_div">>] = Junk
  /\ \A t \in Task :
       pc[t] = "copy" => pwm[Register(op[t])] = Clamped(op[t].param, op[t].value)
  /\ at = "up" =>
       \A r \in Motor \X Param :
         Applied(r) \/ \E t \in Task : pc[t] = "copy" /\ Register(op[t]) = r

\* A task that is about to give out a sample of encoder e.
Giving(t, e) == pc[t] = "give" /\ op[t].kind = "read_enc" /\ op[t].dev = e

\* The value kept is the one given out last, but for a sample still to be given
\* out; the previous one is that from the shift to the call's end.
EncInv ==
  /\ at = "up" =>
       \A e \in Enc :
         /\ value[e] \in Counts
         /\ value[e] = reported[e] \/ \E t \in Task : Giving(t, e)
  /\ \A t \in Task :
       pc[t] = "sample" \/ Giving(t, op[t].dev) => prev[op[t].dev] = reported[op[t].dev]

\* A motor turns only while the driver is up or stopping it.
StopInv ==
  /\ at \notin {"up", "stopping"} => \A m \in Motor : pwm[<<m, "speed">>] = 0
  /\ at = "stopping" =>
       \A m \in Motor : m[2] < im \/ m \notin live => pwm[<<m, "speed">>] = 0

IInv ==
  TypeOK /\ LifeInv /\ LockInv /\ CallInv /\ PwmInv /\ EncInv /\ StopInv

USE TaskAssumption, MotorsAssumption

\* The labels of the calls, listed.
LEMMA Labelling ==
  /\ Labels = {"write", "copy", "lower", "clear", "shift", "sample", "give", "leave",
               "idle", "enter"}
  /\ InsideLabels = {"write", "copy", "lower", "clear", "shift", "sample", "give",
                     "leave"}
BY DEF Labels, InsideLabels

\* A call names a device, of the part its kind is for.
LEMMA CallType ==
  ASSUME NEW c \in Calls
  PROVE  /\ c.kind \in {"set", "read", "setzero", "read_enc"}
         /\ c.dev \in Device
         /\ c.kind \in {"set", "read"} => c.dev \in Motor /\ c.param \in Param
         /\ c.kind = "set" => c.value \in Int
         /\ c.kind \in {"setzero", "read_enc"} => c.dev \in Enc
BY DEF Calls, Device

\* A motor is not an encoder.
LEMMA TwoParts ==
  /\ \A m \in Motor : m[1] = "pwm" /\ m[2] \in 0..(NumMotors - 1) /\ m = <<"pwm", m[2]>>
  /\ Motor \cap Enc = {}
BY DEF Mutex

\* What is written to a register is an integer.
LEMMA ClampedType == \A p \in Param, v \in Int : Clamped(p, v) \in Int
BY DEF Clamped, Limit

LEMMA CountsType == 0 \in Counts /\ Counts \subseteq Int
BY DEF Counts

\* Acquiring and releasing give mutexes; the mutex held once is freed.
LEMMA MutexType ==
  ASSUME NEW m \in Mutexes, NEW t \in Task
  PROVE  /\ Acquired(m, t) \in Mutexes /\ Released(m, t) \in Mutexes
         /\ m = [owner |-> t, depth |-> 1] => m # Free /\ Released(m, t) = Free
         /\ m = Free => Acquired(m, t) = [owner |-> t, depth |-> 1]
BY DEF Mutexes, Acquired, Released, Free

\* A step of a task leaves the others and the life of the driver alone.
LEMMA Frame ==
  ASSUME TypeOK, NEW t \in Task, Step(t)
  PROVE  /\ \A u \in Task : u # t => UNCHANGED <<pc[u], op[u]>>
         /\ UNCHANGED life
BY DEF TypeOK, Step, Call, Enter, Refused, Leave, WritePwm, CopyPwm, GivePwm, RaiseReset,
   LowerReset, ClearCopies, ShiftValue, Sample, GiveCounts, GotoLabel

\* motors_init_motor and motors_clean_motor run while nobody is in a call.
LEMMA LifecycleIdle ==
  ASSUME CallInv, Lifecycle
  PROVE  UNCHANGED calling /\ \A t \in Task : pc[t] = "idle"
<1>1. UNCHANGED calling
  BY DEF Lifecycle, InitAllocPwm, InitAllocQenc, InitDefaults, Clean, StopMotor
<1>2. CASE Clean \/ (Restart /\ Quiet)
  BY <1>1, <1>2 DEF Clean, Quiet
<1>3. CASE LifeStep
  <2>1. at \notin {"up", "returned"}
    BY <1>3 DEF LifeStep, MapPwm, CreatePwm, PwmDone, MapQenc, CreateQenc, DeleteQenc,
       FreeQenc, UnmapQenc, DeletePwm, FreePwm, UnmapPwm, Stopped, CleanQenc,
       CleanFreeQenc, CleanUnmapQenc, CleanPwm, CleanFreePwm, CleanUnmapPwm,
       GoOn, Goto
  <2>2. QED
    BY <1>1, <2>1 DEF CallInv
<1>4. CASE InitAllocPwm \/ InitAllocQenc \/ InitDefaults \/ StopMotor
  <2>1. at \notin {"up", "returned"}
    BY <1>4 DEF InitAllocPwm, InitAllocQenc, InitDefaults, StopMotor, AllocPwm,
       AllocQenc, Up, StopNext, GoOn, Goto
  <2>2. QED
    BY <1>1, <2>1 DEF CallInv
<1>5. QED
  BY <1>2, <1>3, <1>4 DEF Lifecycle

\* Every step keeps what init and clean hold.
LEMMA LifeKept ==
  ASSUME IInv, [Next]_vars
  PROVE  LifeInv'
<1>0. LifeInv
  BY DEF IInv
<1>1. CASE UNCHANGED life
  BY <1>0, <1>1 DEF life, resources, LifeInv, LifeTypeOK, KeptInv, UpInv, UndoInv,
     CleanInv, Holds, Held, Passed
<1>2. CASE Lifecycle
  <2>1. UpSteps \/ UndoSteps \/ CleanSteps
    BY <1>2 DEF Lifecycle, LifeStep, InitAllocPwm, InitAllocQenc, InitDefaults, Clean,
       StopMotor, UpSteps, UndoSteps, CleanSteps
  <2>2. QED
    BY <1>0, <2>1, UpStep, UndoStep, CleanStep
<1>3. QED
  BY <1>1, <1>2, Frame DEF IInv, Next, vars, Turn

\* Every step keeps the types.
LEMMA TypeStep ==
  ASSUME IInv, [Next]_vars
  PROVE  TypeOK'
<1>typ. /\ pwm \in [Motor \X Param -> Int] /\ copy \in [Motor \X Param -> Int]
        /\ counter \in [Enc -> Counts]
        /\ value \in [Enc -> Counts \cup {Junk}] /\ prev \in [Enc -> Counts \cup {Junk}]
        /\ mutex \in [Device -> Mutexes]
        /\ pc \in [Task -> Labels]
        /\ op \in [Task -> Calls \cup {NoCall}]
        /\ out \in [Task -> [value : Int, prev : Int]]
        /\ reported \in [Enc -> Counts]
  BY DEF IInv, TypeOK
<1>life. LifeTypeOK'
  BY LifeKept DEF LifeInv
<1> USE DEF TypeOK
<1>1. CASE UNCHANGED vars
  BY <1>1, <1>typ, <1>life DEF vars, hardware, copies, calling
<1>2. CASE Lifecycle
  <2>1. UNCHANGED <<mutex, pc, op, out>>
    BY <1>2, LifecycleIdle DEF IInv, calling
  <2>2. CASE LifeStep /\ UNCHANGED <<hardware, copies, calling, reported>>
    BY <2>1, <2>2, <1>typ, <1>life DEF hardware, copies
  <2>3. CASE InitAllocPwm
    BY <2>1, <2>3, <1>typ, <1>life DEF InitAllocPwm, hardware
  <2>4. CASE InitAllocQenc
    BY <2>1, <2>4, <1>typ, <1>life DEF InitAllocQenc, hardware
  <2>5. CASE InitDefaults
    BY <2>1, <2>5, <1>typ, <1>life, CountsType DEF InitDefaults
  <2>6. CASE Clean
    BY <2>1, <2>6, <1>typ, <1>life DEF Clean, hardware, copies
  <2>7. CASE StopMotor
    BY <2>1, <2>7, <1>typ, <1>life DEF StopMotor
  <2>8. CASE Restart /\ UNCHANGED <<hardware, copies, calling, reported>>
    BY <2>1, <2>8, <1>typ, <1>life DEF hardware, copies
  <2>9. QED
    BY <1>2, <2>2, <2>3, <2>4, <2>5, <2>6, <2>7, <2>8 DEF Lifecycle
<1>3. ASSUME NEW e \in Enc, Turn(e) PROVE TypeOK'
  BY <1>3, <1>typ, <1>life DEF Turn, copies, Counts
<1>4. ASSUME NEW t \in Task, Step(t) PROVE TypeOK'
  <2>call. pc[t] # "idle" => op[t] \in Calls
    BY DEF IInv, CallInv
  <2>1. CASE \E c \in Calls : Call(t, c)
    BY <2>1, <1>typ, <1>life, Labelling DEF Call, GotoLabel, hardware, copies
  <2>2. CASE Enter(t)
    <3>1. FirstLabel(op[t].kind) \in Labels
      BY <2>2, <2>call, CallType, Labelling DEF Enter, FirstLabel
    <3>2. mutex' \in [Device -> Mutexes]
      BY <2>2, <2>call, <1>typ, CallType, MutexType DEF Enter
    <3>3. pc' \in [Task -> Labels]
      BY <2>2, <3>1, <1>typ DEF Enter, GotoLabel
    <3>4. QED
      BY <2>2, <3>2, <3>3, <1>typ, <1>life DEF Enter, hardware, copies
  <2>3. CASE Leave(t)
    <3>1. mutex' \in [Device -> Mutexes]
      BY <2>3, <2>call, <1>typ, CallType, MutexType DEF Leave
    <3>2. out' \in [Task -> [value : Int, prev : Int]]
      BY <2>3, <1>typ DEF Leave, NoOut
    <3>3. QED
      BY <2>3, <3>1, <3>2, <1>typ, <1>life, Labelling
         DEF Leave, GotoLabel, hardware, copies
  <2>4. CASE WritePwm(t)
    <3>1. Clamped(op[t].param, op[t].value) \in Int
      BY <2>4, <2>call, CallType, ClampedType DEF WritePwm
    <3>2. QED
      BY <2>4, <3>1, <1>typ, <1>life, Labelling DEF WritePwm, GotoLabel, copies
  <2>5. CASE CopyPwm(t)
    <3>1. Clamped(op[t].param, op[t].value) \in Int
      BY <2>5, <2>call, CallType, ClampedType DEF CopyPwm, IInv, CallInv
    <3>2. QED
      BY <2>5, <3>1, <1>typ, <1>life, Labelling DEF CopyPwm, GotoLabel, hardware
  <2>6. CASE GivePwm(t)
    <3>1. copy[Register(op[t])] \in Int
      BY <2>6, <2>call, <1>typ, CallType DEF GivePwm, Register
    <3>2. out' \in [Task -> [value : Int, prev : Int]]
      BY <2>6, <3>1, <1>typ DEF GivePwm
    <3>3. QED
      BY <2>6, <3>2, <1>typ, <1>life, Labelling DEF GivePwm, GotoLabel, hardware, copies
  <2>7. CASE RaiseReset(t)
    BY <2>7, <1>typ, <1>life, Labelling, CountsType DEF RaiseReset, GotoLabel, copies
  <2>8. CASE LowerReset(t)
    BY <2>8, <1>typ, <1>life, Labelling DEF LowerReset, GotoLabel, hardware, copies
  <2>9. CASE ClearCopies(t)
    BY <2>9, <1>typ, <1>life, Labelling, CountsType DEF ClearCopies, GotoLabel, hardware
  <2>10. CASE ShiftValue(t)
    <3>1. value[op[t].dev] \in Counts \cup {Junk}
      BY <2>10, <2>call, <1>typ, CallType DEF ShiftValue, IInv, CallInv
    <3>2. QED
      BY <2>10, <3>1, <1>typ, <1>life, Labelling DEF ShiftValue, GotoLabel, hardware
  <2>11. CASE Sample(t)
    <3>1. counter[op[t].dev] \in Counts
      BY <2>11, <2>call, <1>typ, CallType DEF Sample, IInv, CallInv
    <3>2. QED
      BY <2>11, <3>1, <1>typ, <1>life, Labelling DEF Sample, GotoLabel, hardware
  <2>12. CASE GiveCounts(t)
    <3>1. value[op[t].dev] \in Counts /\ prev[op[t].dev] \in Counts
      BY <2>12, <2>call, <1>typ, CallType DEF GiveCounts, IInv, CallInv, EncInv, Giving
    <3>2. out' \in [Task -> [value : Int, prev : Int]]
      BY <2>12, <3>1, <1>typ, CountsType DEF GiveCounts
    <3>3. QED
      BY <2>12, <3>1, <3>2, <1>typ, <1>life, Labelling
         DEF GiveCounts, GotoLabel, hardware, copies
  <2>14. CASE Refused(t)
    BY <2>14, <1>typ, <1>life, Labelling DEF Refused, GotoLabel, hardware, copies
  <2>15. QED
    BY <1>4, <2>1, <2>2, <2>3, <2>4, <2>5, <2>6, <2>7, <2>8, <2>9, <2>10, <2>11,
       <2>12, <2>14 DEF Step
<1>5. QED
  BY <1>1, <1>2, <1>3, <1>4 DEF Next

\* Every step keeps the mutexes with the tasks that are inside.
LEMMA LockStep ==
  ASSUME IInv, [Next]_vars
  PROVE  LockInv'
<1>inv. TypeOK /\ LockInv /\ CallInv
  BY DEF IInv
<1>1. ASSUME UNCHANGED calling PROVE LockInv'
  BY <1>1, <1>inv DEF calling, LockInv, Inside
<1>2. ASSUME Lifecycle PROVE LockInv'
  BY <1>1, <1>2, LifecycleIdle, <1>inv
<1>3. ASSUME NEW t \in Task, Step(t) PROVE LockInv'
  <2>typ. /\ pc \in [Task -> Labels] /\ mutex \in [Device -> Mutexes]
          /\ op \in [Task -> Calls \cup {NoCall}]
    BY <1>inv DEF TypeOK
  <2>dev. \A u \in Task : pc[u] # "idle" => op[u].dev \in Device
    BY <1>inv, CallType DEF CallInv
  <2>1. CASE \E c \in Calls : Call(t, c)
    BY <2>1, <2>typ, <1>inv, Labelling DEF Call, GotoLabel, LockInv, Inside
  <2>2. CASE Enter(t)
    <3>1. FirstLabel(op[t].kind) \in InsideLabels
      BY <2>2, <1>inv, CallType, Labelling DEF Enter, FirstLabel, CallInv
    <3>2. mutex[op[t].dev] = Free
      BY <2>2, <2>dev, <1>inv, Labelling DEF Enter, CanAcquire, LockInv, Inside
    <3>3. mutex' = [mutex EXCEPT ![op[t].dev] = [owner |-> t, depth |-> 1]]
      BY <2>2, <3>2, <2>dev, <2>typ DEF Enter, Acquired, Free
    <3>4. \A u \in Task : Inside(u)' <=> u = t \/ Inside(u)
      BY <2>2, <3>1, <2>typ DEF Enter, GotoLabel, Inside
    <3>5. op' = op
      BY <2>2 DEF Enter
    <3>6. \A u \in Task : Inside(u) /\ u # t => op[u].dev # op[t].dev
      BY <3>2, <2>typ, <2>dev, <1>inv, Labelling, MutexType DEF LockInv, Inside
    <3>7. ASSUME NEW u \in Task, Inside(u)'
          PROVE  mutex'[op[u].dev] = [owner |-> u, depth |-> 1]
      BY <3>3, <3>4, <3>6, <3>7, <2>dev, <2>typ, <2>2, <1>inv, Labelling
         DEF LockInv, Inside, Enter
    <3>8. ASSUME NEW d \in Device
          PROVE  \/ mutex'[d] = Free
                 \/ /\ mutex'[d].owner \in Task
                    /\ Inside(mutex[d].owner)' /\ op[mutex'[d].owner].dev = d
      <4>1. CASE d = op[t].dev
        BY <3>3, <3>4, <4>1, <2>typ
      <4>2. CASE d # op[t].dev
        BY <3>3, <3>4, <4>2, <2>typ, <1>inv DEF LockInv
      <4>3. QED
        BY <4>1, <4>2
    <3>9. QED
      BY <3>5, <3>7, <3>8 DEF LockInv
  <2>3. CASE Leave(t)
    <3>1. Inside(t) /\ op[t].dev \in Device
      BY <2>3, <2>dev, Labelling DEF Leave, Inside
    <3>2. mutex' = [mutex EXCEPT ![op[t].dev] = Free]
      BY <2>3, <3>1, <2>typ, <1>inv, MutexType DEF Leave, LockInv
    <3>3. \A u \in Task : Inside(u)' <=> u # t /\ Inside(u)
      BY <2>3, <2>typ, Labelling DEF Leave, GotoLabel, Inside
    <3>4. \A u \in Task : u # t => op'[u] = op[u]
      BY <2>3, <2>typ DEF Leave
    <3>5. \A u \in Task : Inside(u) /\ u # t => op[u].dev # op[t].dev
      <4> SUFFICES ASSUME NEW u \in Task, Inside(u), op[u].dev = op[t].dev
                   PROVE  u = t
        OBVIOUS
      <4>1. mutex[op[u].dev] = [owner |-> u, depth |-> 1]
        BY <1>inv DEF LockInv
      <4>2. mutex[op[t].dev] = [owner |-> t, depth |-> 1]
        BY <3>1, <1>inv DEF LockInv
      <4>3. QED
        BY <4>1, <4>2
    <3>6. ASSUME NEW u \in Task, Inside(u)'
          PROVE  mutex'[op'[u].dev] = [owner |-> u, depth |-> 1]
      BY <3>2, <3>3, <3>4, <3>5, <3>6, <2>dev, <2>typ, <1>inv, Labelling
         DEF LockInv, Inside
    <3>7. ASSUME NEW d \in Device
          PROVE  \/ mutex'[d] = Free
                 \/ /\ mutex'[d].owner \in Task
                    /\ Inside(mutex[d].owner)' /\ op'[mutex'[d].owner].dev = d
      <4>1. CASE d = op[t].dev
        BY <3>2, <4>1, <2>typ
      <4>2. CASE d # op[t].dev
        BY <3>2, <3>3, <3>4, <4>2, <2>typ, <1>inv DEF LockInv
      <4>3. QED
        BY <4>1, <4>2
    <3>8. QED
      BY <3>6, <3>7 DEF LockInv
  <2>4. CASE \/ WritePwm(t) \/ CopyPwm(t) \/ GivePwm(t) \/ RaiseReset(t) \/ LowerReset(t)
             \/ ClearCopies(t) \/ ShiftValue(t) \/ Sample(t) \/ GiveCounts(t)
    <3>1. UNCHANGED <<mutex, op>>
      BY <2>4 DEF WritePwm, CopyPwm, GivePwm, RaiseReset, LowerReset, ClearCopies,
         ShiftValue, Sample, GiveCounts
    <3>2. \A u \in Task : Inside(u)' <=> Inside(u)
      BY <2>4, <2>typ, Labelling DEF WritePwm, CopyPwm, GivePwm, RaiseReset, LowerReset,
         ClearCopies, ShiftValue, Sample, GiveCounts, GotoLabel, Inside
    <3>3. QED
      BY <3>1, <3>2, <1>inv DEF LockInv
  <2>5. CASE Refused(t)
    <3>1. /\ mutex' = mutex /\ ~Inside(t)
          /\ \A u \in Task : u # t => op'[u] = op[u]
      BY <2>5, <2>typ, Labelling DEF Refused, Inside
    <3>2. \A u \in Task : Inside(u)' <=> Inside(u)
      BY <2>5, <3>1, <2>typ, Labelling DEF Refused, GotoLabel, Inside
    <3>3. QED
      BY <3>1, <3>2, <1>inv DEF LockInv
  <2>6. QED
    BY <1>3, <2>1, <2>2, <2>3, <2>4, <2>5 DEF Step
<1>4. QED
  BY <1>1, <1>2, <1>3 DEF Next, vars, Turn, calling

\* Where a call stands tells its kind.
LEMMA CallStep ==
  ASSUME IInv, [Next]_vars
  PROVE  CallInv'
<1>inv. TypeOK /\ LifeInv /\ CallInv
  BY DEF IInv
<1>1. CASE UNCHANGED vars
  BY <1>1, <1>inv DEF vars, calling, life, CallInv
<1>2. CASE Lifecycle
  BY <1>2, <1>inv, LifecycleIdle DEF calling, CallInv
<1>3. ASSUME NEW e \in Enc, Turn(e) PROVE CallInv'
  BY <1>3, <1>inv DEF Turn, life, CallInv
<1>4. ASSUME NEW t \in Task, Step(t) PROVE CallInv'
  <2>1. \A u \in Task : u # t => UNCHANGED <<pc[u], op[u]>>
    BY <1>4, <1>inv, Frame
  <2>2. at' = at /\ err' = err
    BY <1>4, <1>inv, Frame DEF life
  <2>3. pc \in [Task -> Labels] /\ op \in [Task -> Calls \cup {NoCall}]
    BY <1>inv DEF TypeOK
  <2>4. ASSUME pc'[t] # "idle"
        PROVE  /\ at = "up" \/ (at = "returned" /\ err = "ok" /\ pc'[t] = "enter")
               /\ op'[t] \in Calls
               /\ pc'[t] = "write" => op'[t].kind \in {"set", "setzero"}
               /\ pc'[t] = "copy" => op'[t].kind = "set"
               /\ pc'[t] \in {"lower", "clear"} => op'[t].kind = "setzero"
               /\ pc'[t] \in {"shift", "sample"} => op'[t].kind = "read_enc"
               /\ pc'[t] = "give" => op'[t].kind \in {"read", "read_enc"}
    <3>1. CASE \E c \in Calls : Call(t, c)
      BY <2>3, <3>1 DEF Call, GotoLabel
    <3>2. CASE Enter(t)
      <4>1. op[t] \in Calls /\ at = "up" /\ op' = op
        BY <3>2, <1>inv DEF Enter, CallInv, LifeInv, UndoInv
      <4>2. pc'[t] = FirstLabel(op[t].kind)
        BY <3>2, <2>3 DEF Enter, GotoLabel
      <4>3. QED
        BY <4>1, <4>2, CallType DEF FirstLabel
    <3>3. CASE Leave(t) \/ Refused(t)
      BY <2>3, <2>4, <3>3 DEF Leave, Refused, GotoLabel
    <3>4. CASE WritePwm(t) \/ CopyPwm(t) \/ GivePwm(t) \/ GiveCounts(t)
      BY <2>3, <3>4, <1>inv
         DEF WritePwm, CopyPwm, GivePwm, GiveCounts, GotoLabel, CallInv
    <3>5. CASE RaiseReset(t) \/ LowerReset(t) \/ ClearCopies(t)
      BY <2>3, <3>5, <1>inv
         DEF RaiseReset, LowerReset, ClearCopies, GotoLabel, CallInv
    <3>6. CASE ShiftValue(t) \/ Sample(t)
      BY <2>3, <3>6, <1>inv DEF ShiftValue, Sample, GotoLabel, CallInv
    <3>7. QED
      BY <1>4, <3>1, <3>2, <3>3, <3>4, <3>5, <3>6 DEF Step
  <2>5. QED
    BY <2>1, <2>2, <2>4, <1>inv DEF CallInv
<1>5. QED
  BY <1>1, <1>2, <1>3, <1>4 DEF Next

\* No two tasks are inside a call on the same device.
LEMMA Alone ==
  ASSUME LockInv, NEW t \in Task, NEW u \in Task, Inside(t), Inside(u),
         op[t].dev = op[u].dev
  PROVE  t = u
<1>1. mutex[op[t].dev] = [owner |-> t, depth |-> 1]
  BY DEF LockInv
<1>2. mutex[op[u].dev] = [owner |-> u, depth |-> 1]
  BY DEF LockInv
<1>3. QED
  BY <1>1, <1>2

\* While the driver is up every motor and encoder has its mutex.
LEMMA LiveWhenUp ==
  ASSUME LifeInv, at = "up"
  PROVE  Mutex \subseteq live /\ \A d \in Device : d \in live
<1>1. live = MutexesOf(Below(NumMotors), Below(NumEncs))
  BY DEF LifeInv, UpInv, Holds
<1>2. Mutex \subseteq live
  BY <1>1 DEF Mutex, MutexesOf, Below
<1>3. QED
  BY <1>2 DEF Device

\* A motor turns only while the driver is up or stopping it.
LEMMA StopStep ==
  ASSUME IInv, [Next]_vars
  PROVE  StopInv'
<1>inv. TypeOK /\ LifeInv /\ CallInv /\ StopInv
  BY DEF IInv
<1>typ. pwm \in [Motor \X Param -> Int] /\ im \in Int
  BY <1>inv DEF TypeOK, LifeTypeOK
<1>1. ASSUME UNCHANGED <<life, pwm>> PROVE StopInv'
  BY <1>1, <1>inv DEF StopInv, life, resources
<1>2. CASE Lifecycle
  <2>1. CASE InitDefaults
    <3>1. at' = "up"
      BY <2>1 DEF InitDefaults, Up, GoOn, Goto
    <3>2. QED
      BY <3>1 DEF StopInv
  <2>2. CASE Clean
    <3>1. at' = "stopping" /\ im' = 0 /\ live' = live /\ pwm' = pwm /\ at # "stopping"
      BY <2>2 DEF Clean, CleanStart, Cleanable, resources, hardware
    <3>2. \A m \in Motor : ~(m[2] < 0)
      BY TwoParts
    <3>3. CASE at = "up"
      <4>1. \A m \in Motor : m \in live
        BY <3>3, <1>inv, LiveWhenUp
      <4>2. QED
        BY <3>1, <3>2, <4>1 DEF StopInv
    <3>4. CASE at # "up"
      BY <3>1, <3>4, <1>inv DEF StopInv
    <3>5. QED
      BY <3>3, <3>4
  <2>3. CASE StopMotor
    <3>1. at = "stopping" /\ at' = "stopping" /\ im' = im + 1 /\ live' = live
      BY <2>3 DEF StopMotor, StopNext, resources
    <3>2. ASSUME NEW m \in Motor, m[2] < im + 1 \/ m \notin live
          PROVE  pwm'[<<m, "speed">>] = 0
      <4>1. <<m, "speed">> \in Motor \X Param
        BY DEF Param
      <4>2. /\ \/ pwm' = [r \in DOMAIN pwm |->
                            IF r = <<<<"pwm", im>>, "speed">> THEN 0 ELSE pwm[r]]
               \/ pwm' = pwm /\ <<"pwm", im>> \notin live
            /\ DOMAIN pwm = Motor \X Param
        BY <2>3, <1>typ DEF StopMotor
      <4>3. CASE m[2] = im
        <5>1. m = <<"pwm", im>>
          BY <4>3, TwoParts
        <5>2. CASE pwm' = pwm /\ m \notin live
          BY <3>1, <5>2, <1>inv DEF StopInv
        <5>3. CASE pwm' = [r \in DOMAIN pwm |->
                            IF r = <<<<"pwm", im>>, "speed">> THEN 0 ELSE pwm[r]]
          BY <4>1, <4>2, <5>1, <5>3
        <5>4. QED
          BY <4>2, <5>1, <5>2, <5>3
      <4>4. CASE m[2] # im
        <5>1. m[2] < im \/ m \notin live
          <6>1. m[2] \in Int /\ im \in Int
            BY <1>typ, TwoParts
          <6>2. m[2] < im + 1 => m[2] < im
            BY <4>4, <6>1
          <6>3. QED
            BY <3>2, <6>2
        <5>2. pwm[<<m, "speed">>] = 0
          BY <3>1, <5>1, <1>inv DEF StopInv
        <5>3. QED
          BY <4>1, <4>2, <5>2
      <4>5. QED
        BY <4>3, <4>4
    <3>3. QED
      BY <3>1, <3>2 DEF StopInv
  <2>4. CASE InitAllocPwm \/ InitAllocQenc
    <3>1. at \notin {"up", "stopping"} /\ at' \notin {"up", "stopping"} /\ pwm' = pwm
      BY <2>4 DEF InitAllocPwm, InitAllocQenc, AllocPwm, AllocQenc, GoOn, Goto, hardware
    <3>2. QED
      BY <3>1, <1>inv DEF StopInv
  <2>5. CASE LifeStep /\ UNCHANGED <<hardware, copies, calling, reported>>
    <3>1. pwm' = pwm
      BY <2>5 DEF hardware
    <3>2. CASE Stopped
      <4>1. at = "stopping" /\ im = Size("pwm") /\ at' = "clean_qenc"
        BY <3>2 DEF Stopped, GoOn, Goto
      <4>2. ASSUME NEW m \in Motor PROVE m[2] < im \/ m \notin live
        <5>1. m[1] = "pwm" /\ m[2] < NumMotors
          BY TwoParts
        <5>2. m \in live => "pwm" \in sized
          BY <5>1, <1>inv DEF LifeInv, KeptInv
        <5>3. QED
          BY <4>1, <5>1, <5>2 DEF Size
      <4>3. QED
        BY <3>1, <4>1, <4>2, <1>inv DEF StopInv
    <3>3. CASE ~Stopped
      <4>1. at \notin {"up", "stopping"} /\ at' \notin {"up", "stopping"}
        BY <2>5, <3>3 DEF LifeStep, MapPwm, CreatePwm, PwmDone, MapQenc, CreateQenc,
           DeleteQenc, FreeQenc, UnmapQenc, DeletePwm, FreePwm, UnmapPwm, CleanQenc,
           CleanFreeQenc, CleanUnmapQenc, CleanPwm, CleanFreePwm, CleanUnmapPwm,
           Undo, Delete, CleanUnmap, GoOn, Goto
      <4>2. QED
        BY <3>1, <4>1, <1>inv DEF StopInv
    <3>4. QED
      BY <3>2, <3>3
  <2>6. CASE Restart /\ UNCHANGED <<hardware, copies, calling, reported>>
    <3>1. at \notin {"up", "stopping"} /\ at' \notin {"up", "stopping"} /\ pwm' = pwm
      BY <2>6 DEF Restart, hardware
    <3>2. QED
      BY <3>1, <1>inv DEF StopInv
  <2>7. QED
    BY <1>2, <2>1, <2>2, <2>3, <2>4, <2>5, <2>6 DEF Lifecycle
<1>3. ASSUME NEW t \in Task, Step(t) PROVE StopInv'
  <2>1. UNCHANGED life
    BY <1>3, <1>inv, Frame
  <2>2. CASE at = "up"
    BY <2>1, <2>2 DEF StopInv, life
  <2>3. CASE at # "up"
    <3>1. pc[t] # "write"
      BY <2>3, <1>inv DEF CallInv
    <3>2. pwm' = pwm
      BY <1>3, <3>1 DEF Step, Call, Enter, Refused, Leave, WritePwm, CopyPwm, GivePwm,
         RaiseReset, LowerReset, ClearCopies, ShiftValue, Sample, GiveCounts, hardware
    <3>3. QED
      BY <2>1, <3>2, <1>1
  <2>4. QED
    BY <2>2, <2>3
<1>4. QED
  BY <1>1, <1>2, <1>3 DEF Next, vars, Turn, hardware

\* A register and its copy differ only inside a call.
LEMMA PwmStep ==
  ASSUME IInv, [Next]_vars
  PROVE  PwmInv'
<1>inv. TypeOK /\ LockInv /\ CallInv /\ PwmInv
  BY DEF IInv
<1>typ. /\ pwm \in [Motor \X Param -> Int] /\ copy \in [Motor \X Param -> Int]
        /\ pc \in [Task -> Labels] /\ op \in [Task -> Calls \cup {NoCall}]
  BY <1>inv DEF TypeOK
<1>1. ASSUME UNCHANGED <<at, pwm, copy, pc, op>> PROVE PwmInv'
  BY <1>1, <1>inv DEF PwmInv, Applied, Register
<1>2. CASE Lifecycle
  <2>1. UNCHANGED <<pc, op>> /\ \A t \in Task : pc[t] = "idle"
    BY <1>2, <1>inv, LifecycleIdle DEF calling
  <2>2. CASE InitAllocPwm
    <3>1. at' # "up" /\ copy' = [r \in Motor \X Param |-> Junk]
      BY <2>2 DEF InitAllocPwm, AllocPwm, GoOn, Goto
    <3>2. QED
      BY <2>1, <3>1 DEF PwmInv, Param
  <2>3. CASE InitAllocQenc
    <3>1. at = "alloc_qenc" /\ at' # "up" /\ UNCHANGED copy
      BY <2>3 DEF InitAllocQenc, AllocQenc, GoOn, Goto
    <3>2. QED
      BY <2>1, <3>1, <1>inv DEF PwmInv
  <2>4. CASE InitDefaults
    <3>1. /\ at = "create_qenc" /\ at' = "up"
          /\ pwm' = [r \in DOMAIN pwm |-> IF r[2] = "speed" THEN 0 ELSE pwm[r]]
          /\ copy' = [r \in DOMAIN copy |-> IF r[2] = "speed" THEN 0 ELSE copy[r]]
      BY <2>4 DEF InitDefaults, Up, GoOn, Goto
    <3>2. \A m \in Motor : copy[<<m, "freq_div">>] = Junk
      <4>1. at = "create_qenc" => \A m \in Motor : copy[<<m, "freq_div">>] = Junk
        BY <1>inv, Zenon DEF PwmInv
      <4>2. QED
        BY <3>1, <4>1
    <3>3. ASSUME NEW m \in Motor, NEW p \in Param PROVE Applied(<<m, p>>)'
      BY <3>1, <3>2, <1>typ DEF Applied, Param
    <3>4. \A r \in Motor \X Param : Applied(r)'
      BY <3>3
    <3>5. QED
      BY <2>1, <3>1, <3>4 DEF PwmInv
  <2>5. CASE Clean \/ StopMotor
    <3>1. at' = "stopping"
      BY <2>5 DEF Clean, CleanStart, StopMotor, StopNext
    <3>2. QED
      BY <2>1, <3>1 DEF PwmInv
  <2>6. CASE (LifeStep \/ Restart) /\ UNCHANGED <<hardware, copies, calling, reported>>
    <3>1. /\ at' # "up"
          /\ at' \in {"create_pwm", "map_qenc", "alloc_qenc", "create_qenc"} =>
               at \in {"create_pwm", "map_qenc", "alloc_qenc", "create_qenc"}
      BY <2>6 DEF LifeStep, MapPwm, CreatePwm, PwmDone, MapQenc, CreateQenc,
         DeleteQenc, FreeQenc, UnmapQenc, DeletePwm, FreePwm, UnmapPwm, Stopped,
         CleanQenc, CleanFreeQenc, CleanUnmapQenc, CleanPwm, CleanFreePwm,
         CleanUnmapPwm, Restart, Undo, Delete, CleanUnmap, GoOn, Goto
    <3>2. QED
      BY <2>1, <2>6, <3>1, <1>inv DEF PwmInv, copies
  <2>7. QED
    BY <1>2, <2>2, <2>3, <2>4, <2>5, <2>6 DEF Lifecycle
<1>3. ASSUME NEW t \in Task, Step(t) PROVE PwmInv'
  <2>oth. \A u \in Task : u # t => UNCHANGED <<pc[u], op[u]>>
    BY <1>3, <1>inv, Frame
  <2>at. at' = at
    BY <1>3, <1>inv, Frame DEF life
  <2>1. CASE WritePwm(t)
    <3>1. /\ op[t] \in Calls /\ op[t].kind = "set" /\ at = "up"
          /\ Inside(t) /\ pc[t] = "write"
      BY <2>1, <1>inv, Labelling DEF WritePwm, CallInv, Inside
    <3>2. Register(op[t]) \in Motor \X Param
      BY <3>1, CallType DEF Register
    <3>3. /\ UNCHANGED <<copy, op>> /\ pc' = [pc EXCEPT ![t] = "copy"]
          /\ pwm' = [pwm EXCEPT ![Register(op[t])] = Clamped(op[t].param, op[t].value)]
      BY <2>1 DEF WritePwm, copies, GotoLabel
    <3>4. ASSUME NEW u \in Task, pc'[u] = "copy"
          PROVE  pwm'[Register(op[u])] = Clamped(op[u].param, op[u].value)
      <4>1. CASE u = t
        BY <3>2, <3>3, <4>1, <1>typ
      <4>2. CASE u # t
        <5>1. pc[u] = "copy" /\ Inside(u)
          BY <3>3, <3>4, <4>2, <1>typ, Labelling DEF Inside
        <5>2. op[u].dev # op[t].dev
          BY <3>1, <4>2, <5>1, <1>inv, Alone
        <5>3. Register(op[u]) # Register(op[t])
          BY <5>2 DEF Register
        <5>4. QED
          BY <3>3, <5>1, <5>3, <1>typ, <1>inv DEF PwmInv
      <4>3. QED
        BY <4>1, <4>2
    <3>5. ASSUME NEW r \in Motor \X Param
          PROVE  Applied(r)' \/ \E u \in Task : pc'[u] = "copy" /\ Register(op[u]) = r
      <4>1. CASE r = Register(op[t])
        BY <3>3, <4>1, <1>typ
      <4>2. CASE r # Register(op[t])
        <5>1. pwm'[r] = pwm[r]
          BY <3>3, <4>2, <1>typ
        <5>2. CASE Applied(r)
          BY <3>3, <5>1, <5>2 DEF Applied
        <5>3. CASE \E u \in Task : pc[u] = "copy" /\ Register(op[u]) = r
          BY <3>3, <4>2, <5>3, <1>typ
        <5>4. QED
          BY <3>1, <5>2, <5>3, <1>inv DEF PwmInv
      <4>3. QED
        BY <4>1, <4>2
    <3>6. QED
      BY <3>1, <3>3, <3>4, <3>5, <2>at DEF PwmInv
  <2>2. CASE CopyPwm(t)
    <3>1. /\ op[t] \in Calls /\ op[t].kind = "set" /\ at = "up" /\ pc[t] = "copy"
      BY <2>2, <1>inv DEF CopyPwm, CallInv
    <3>2. Register(op[t]) \in Motor \X Param
      BY <3>1, CallType DEF Register
    <3>3. /\ UNCHANGED <<pwm, op>> /\ pc' = [pc EXCEPT ![t] = "leave"]
          /\ copy' = [copy EXCEPT ![Register(op[t])] = Clamped(op[t].param, op[t].value)]
      BY <2>2 DEF CopyPwm, hardware, GotoLabel
    <3>4. ASSUME NEW u \in Task, pc'[u] = "copy"
          PROVE  pwm'[Register(op[u])] = Clamped(op[u].param, op[u].value)
      BY <3>3, <3>4, <1>typ, <1>inv DEF PwmInv
    <3>5. ASSUME NEW r \in Motor \X Param
          PROVE  Applied(r)' \/ \E u \in Task : pc'[u] = "copy" /\ Register(op[u]) = r
      <4>1. CASE r = Register(op[t])
        BY <3>1, <3>3, <4>1, <1>typ, <1>inv DEF PwmInv, Applied
      <4>2. CASE r # Register(op[t])
        <5>1. copy'[r] = copy[r]
          BY <3>3, <4>2, <1>typ
        <5>2. CASE Applied(r)
          BY <3>3, <5>1, <5>2 DEF Applied
        <5>3. CASE \E u \in Task : pc[u] = "copy" /\ Register(op[u]) = r
          BY <3>3, <4>2, <5>3, <1>typ
        <5>4. QED
          BY <3>1, <5>2, <5>3, <1>inv DEF PwmInv
      <4>3. QED
        BY <4>1, <4>2
    <3>6. QED
      BY <3>1, <3>3, <3>4, <3>5, <2>at DEF PwmInv
  <2>3. CASE ~WritePwm(t) /\ ~CopyPwm(t)
    <3>1. UNCHANGED <<pwm, copy>>
      BY <1>3, <2>3 DEF Step, Call, Enter, Refused, Leave, GivePwm, RaiseReset,
         LowerReset, ClearCopies, ShiftValue, Sample, GiveCounts, hardware, copies
    <3>2. pc[t] # "copy" /\ pc'[t] # "copy"
      <4>1. CASE Enter(t)
        <5>1. FirstLabel(op[t].kind) # "copy"
          BY <4>1, <1>inv, CallType DEF Enter, CallInv, FirstLabel
        <5>2. QED
          BY <4>1, <5>1, <1>typ DEF Enter, GotoLabel
      <4>2. CASE ~Enter(t)
        BY <1>3, <2>3, <4>2, <1>typ DEF Step, Call, Refused, Leave, CopyPwm, GivePwm, RaiseReset,
           LowerReset, ClearCopies, ShiftValue, Sample, GiveCounts, GotoLabel
      <4>3. QED
        BY <4>1, <4>2
    <3>3. \A u \in Task : pc'[u] = "copy" => pc[u] = "copy" /\ op'[u] = op[u]
      BY <3>2, <2>oth
    <3>4. \A u \in Task : pc[u] = "copy" => pc'[u] = "copy" /\ op'[u] = op[u]
      BY <3>2, <2>oth
    <3>5. QED
      BY <3>1, <3>3, <3>4, <2>at, <1>inv DEF PwmInv, Applied
  <2>4. QED
    BY <2>1, <2>2, <2>3
<1>4. QED
  BY <1>1, <1>2, <1>3 DEF Next, vars, Turn, life, hardware, copies, calling

\* The readings of an encoder chain, but for a sample about to be given out.
LEMMA EncStep ==
  ASSUME IInv, [Next]_vars
  PROVE  EncInv'
<1>inv. TypeOK /\ LockInv /\ CallInv /\ EncInv
  BY DEF IInv
<1>typ. /\ value \in [Enc -> Counts \cup {Junk}] /\ prev \in [Enc -> Counts \cup {Junk}]
        /\ reported \in [Enc -> Counts] /\ counter \in [Enc -> Counts]
        /\ pc \in [Task -> Labels] /\ op \in [Task -> Calls \cup {NoCall}]
  BY <1>inv DEF TypeOK
<1>1. ASSUME UNCHANGED <<at, value, prev, reported, pc, op>> PROVE EncInv'
  BY <1>1, <1>inv DEF EncInv, Giving
<1>2. CASE Lifecycle
  <2>1. UNCHANGED <<pc, op>> /\ \A t \in Task : pc[t] = "idle"
    BY <1>2, <1>inv, LifecycleIdle DEF calling
  <2>2. CASE InitDefaults
    BY <2>1, <2>2, CountsType DEF InitDefaults, EncInv, Giving
  <2>3. CASE ~InitDefaults
    <3>1. at' # "up"
      BY <1>2, <2>3 DEF Lifecycle, InitAllocPwm, InitAllocQenc, Clean, StopMotor,
         LifeStep, AllocPwm, AllocQenc, CleanStart, StopNext, MapPwm, CreatePwm, PwmDone,
         MapQenc, CreateQenc, DeleteQenc, FreeQenc, UnmapQenc, DeletePwm, FreePwm,
         UnmapPwm, Stopped, CleanQenc, CleanFreeQenc, CleanUnmapQenc, CleanPwm,
         CleanFreePwm, CleanUnmapPwm, Restart, Undo, Delete, CleanUnmap, GoOn, Goto
    <3>2. QED
      BY <2>1, <3>1 DEF EncInv, Giving
  <2>4. QED
    BY <2>2, <2>3
<1>3. ASSUME NEW t \in Task, Step(t) PROVE EncInv'
  <2>oth. \A u \in Task : u # t => UNCHANGED <<pc[u], op[u]>>
    BY <1>3, <1>inv, Frame
  <2>at. at' = at
    BY <1>3, <1>inv, Frame DEF life
  <2>1. ASSUME NEW u \in Task, Inside(u), u # t, Inside(t)
        PROVE  op[u].dev # op[t].dev
    BY <1>inv, <2>1, Alone
  <2>2. CASE ShiftValue(t) \/ Sample(t) \/ GiveCounts(t) \/ ClearCopies(t)
    <3>1. /\ op[t] \in Calls /\ op[t].dev \in Enc /\ at = "up" /\ Inside(t)
          /\ op' = op
      BY <2>2, <1>inv, CallType, Labelling
         DEF ShiftValue, Sample, GiveCounts, ClearCopies, CallInv, Inside
    <3>2. \A u \in Task :
            u # t /\ (pc[u] = "sample" \/ Giving(u, op[u].dev)) => op[u].dev # op[t].dev
      BY <2>1, <3>1, Labelling DEF Inside, Giving
    <3>3. ASSUME NEW e \in Enc, e # op[t].dev
          PROVE  /\ UNCHANGED <<value[e], prev[e], reported[e]>>
                 /\ \A u \in Task : Giving(u, e)' <=> Giving(u, e)
      <4>1. UNCHANGED <<value[e], prev[e], reported[e]>>
        BY <2>2, <3>1, <3>3, <1>typ DEF ShiftValue, Sample, GiveCounts, ClearCopies, copies
      <4>2. ASSUME NEW u \in Task PROVE Giving(u, e)' <=> Giving(u, e)
        <5>1. CASE u = t
          BY <3>1, <3>3, <5>1 DEF Giving
        <5>2. CASE u # t
          BY <2>oth, <5>2 DEF Giving
        <5>3. QED
          BY <5>1, <5>2
      <4>3. QED
        BY <4>1, <4>2
    <3>4. ~(\E u \in Task : u # t /\ Giving(u, op[t].dev))
      BY <3>2 DEF Giving
    <3>5. /\ value'[op[t].dev] \in Counts
          /\ value'[op[t].dev] = reported'[op[t].dev] \/ Giving(t, op[t].dev)'
          /\ pc'[t] = "sample" \/ Giving(t, op[t].dev)'
               => prev'[op[t].dev] = reported'[op[t].dev]
      <4>1. CASE ShiftValue(t)
        <5>1. pc[t] = "shift" /\ ~Giving(t, op[t].dev)
          BY <4>1 DEF ShiftValue, Giving
        <5>2. value[op[t].dev] \in Counts /\ value[op[t].dev] = reported[op[t].dev]
          BY <3>1, <3>4, <5>1, <1>inv DEF EncInv
        <5>3. QED
          BY <3>1, <4>1, <5>2, <1>typ DEF ShiftValue
      <4>2. CASE Sample(t)
        <5>1. prev[op[t].dev] = reported[op[t].dev] /\ op[t].kind = "read_enc"
          BY <4>2, <1>inv DEF Sample, EncInv, CallInv
        <5>2. QED
          BY <3>1, <4>2, <5>1, <1>typ DEF Sample, Giving, GotoLabel
      <4>3. CASE GiveCounts(t)
        <5>1. value[op[t].dev] \in Counts /\ prev[op[t].dev] = reported[op[t].dev]
          BY <3>1, <4>3, <1>inv DEF GiveCounts, EncInv, Giving
        <5>2. /\ value'[op[t].dev] = value[op[t].dev]
              /\ reported'[op[t].dev] = value[op[t].dev]
              /\ pc'[t] = "leave"
          BY <3>1, <4>3, <1>typ DEF GiveCounts, GotoLabel, copies
        <5>3. QED
          BY <5>1, <5>2 DEF Giving
      <4>4. CASE ClearCopies(t)
        <5>1. /\ value'[op[t].dev] = 0 /\ prev'[op[t].dev] = 0 /\ reported'[op[t].dev] = 0
              /\ pc'[t] = "leave"
          BY <3>1, <4>4, <1>typ DEF ClearCopies, GotoLabel
        <5>2. QED
          BY <5>1, CountsType DEF Giving
      <4>5. QED
        BY <2>2, <4>1, <4>2, <4>3, <4>4
    <3>6. ASSUME NEW e \in Enc
          PROVE  /\ value'[e] \in Counts
                 /\ value'[e] = reported'[e] \/ \E u \in Task : Giving(u, e)'
      <4>1. CASE e = op[t].dev
        <5>1. Giving(t, op[t].dev)' => \E u \in Task : Giving(u, e)'
          BY <3>1, <4>1 DEF Giving
        <5>2. QED
          BY <3>5, <4>1, <5>1
      <4>2. CASE e # op[t].dev
        <5>1. value[e] \in Counts /\ (value[e] = reported[e] \/ \E u \in Task : Giving(u, e))
          BY <3>1, <1>inv DEF EncInv
        <5>2. QED
          BY <3>3, <4>2, <5>1
      <4>3. QED
        BY <4>1, <4>2
    <3>7. ASSUME NEW u \in Task, pc'[u] = "sample" \/ Giving(u, op[u].dev)'
          PROVE  prev'[op[u].dev] = reported'[op[u].dev]
      <4>1. CASE u = t
        BY <3>1, <3>5, <3>7, <4>1
      <4>2. CASE u # t
        <5>1. pc[u] = "sample" \/ Giving(u, op[u].dev)
          BY <2>oth, <3>1, <3>7, <4>2 DEF Giving
        <5>2. op[u].dev \in Enc
          BY <5>1, <1>inv, CallType DEF CallInv, Giving
        <5>3. QED
          BY <3>2, <3>3, <4>2, <5>1, <5>2, <1>inv DEF EncInv
      <4>3. QED
        BY <4>1, <4>2
    <3>8. QED
      BY <3>1, <3>6, <3>7 DEF EncInv, Giving
  <2>3. CASE ~(ShiftValue(t) \/ Sample(t) \/ GiveCounts(t) \/ ClearCopies(t))
    <3>1. UNCHANGED <<value, prev, reported>>
      BY <1>3, <2>3 DEF Step, Call, Enter, Refused, Leave, WritePwm, CopyPwm, GivePwm,
         RaiseReset, LowerReset, copies
    <3>2. pc'[t] # "sample" /\ ~(pc'[t] = "give" /\ op'[t].kind = "read_enc")
      <4>1. CASE Enter(t)
        <5>1. /\ FirstLabel(op[t].kind) # "sample"
              /\ FirstLabel(op[t].kind) = "give" => op[t].kind = "read"
          BY <4>1, <1>inv, CallType DEF Enter, CallInv, FirstLabel
        <5>2. QED
          BY <4>1, <5>1, <1>typ DEF Enter, GotoLabel
      <4>2. CASE ~Enter(t)
        BY <1>3, <2>3, <4>2, <1>typ DEF Step, Call, Refused, Leave, WritePwm, CopyPwm, GivePwm,
           RaiseReset, LowerReset, GotoLabel
      <4>3. QED
        BY <4>1, <4>2
    <3>3. pc[t] # "sample" /\ ~(pc[t] = "give" /\ op[t].kind = "read_enc")
      BY <1>3, <2>3 DEF Step, Call, Enter, Refused, Leave, WritePwm, CopyPwm, GivePwm,
         RaiseReset, LowerReset
    <3>4. \A u \in Task, e \in Enc : Giving(u, e)' <=> Giving(u, e)
      BY <2>oth, <3>2, <3>3 DEF Giving
    <3>5. ASSUME NEW u \in Task, pc'[u] = "sample" \/ Giving(u, op[u].dev)'
          PROVE  /\ pc[u] = "sample" \/ Giving(u, op[u].dev)
                 /\ op'[u] = op[u]
      BY <2>oth, <3>2, <3>5 DEF Giving
    <3>6. QED
      BY <3>1, <3>4, <3>5, <2>at, <1>inv DEF EncInv
  <2>4. QED
    BY <2>2, <2>3
<1>4. QED
  BY <1>1, <1>2, <1>3 DEF Next, vars, Turn, life, copies, calling

\* The driver before its first init.
LEMMA InitInv == Init => IInv
<1> SUFFICES ASSUME Init PROVE IInv
  OBVIOUS
<1>1. LifeInv
  <2>1. LifeInit
    BY DEF Init
  <2>2. LifeTypeOK
    <3>1. /\ at \in LifeLabels /\ err \in {"ok", "error"} /\ stuck \in BOOLEAN
          /\ sized \subseteq Part /\ mapped \subseteq Part /\ heap \subseteq Part
          /\ live \subseteq Mutex
      BY <2>1 DEF LifeInit, LifeLabels
    <3>2. im \in 0..NumMotors /\ iq \in 0..NumEncs
      BY <2>1 DEF LifeInit
    <3>3. QED
      BY <3>1, <3>2 DEF LifeTypeOK
  <2>3. UpInv
    BY <2>1, Parts DEF LifeInit, UpInv, Holds
  <2>4. KeptInv /\ UndoInv /\ CleanInv
    BY <2>1 DEF LifeInit, KeptInv, UndoInv, CleanInv
  <2>5. QED
    BY <2>2, <2>3, <2>4 DEF LifeInv
<1>2. TypeOK
  <2>1. /\ mutex \in [Device -> Mutexes]
        /\ out \in [Task -> [value : Int, prev : Int]]
    BY DEF Init, Free, Mutexes, NoOut
  <2>2. QED
    BY <1>1, <2>1, CountsType, Labelling DEF Init, TypeOK, LifeInv
<1>3. LockInv /\ CallInv
  BY Labelling DEF Init, LockInv, CallInv, Inside
<1>4. PwmInv /\ EncInv
  BY DEF Init, LifeInit, PwmInv, EncInv, Giving
<1>5. StopInv
  BY DEF Init, LifeInit, StopInv, Param
<1>6. QED
  BY <1>1, <1>2, <1>3, <1>4, <1>5 DEF IInv

\* The invariant holds at all times.
LEMMA Invariance == Spec => []IInv
<1>1. IInv /\ [Next]_vars => IInv'
  BY TypeStep, LifeKept, LockStep, CallStep, PwmStep, EncStep, StopStep DEF IInv
<1>2. QED
  BY <1>1, InitInv, PTL DEF Spec

\* The variables have their types, the words malloc leaves in the arrays included.
THEOREM Typing == Spec => []TypeOK
<1>1. IInv => TypeOK
  BY DEF IInv
<1>2. QED
  BY <1>1, Invariance, PTL

\* The goto chain of motors_init_motor and the clean give back everything, for any
\* number of motors and encoders, at whichever step the init failed.
THEOREM GivesBack == Spec => []NothingLeft
<1>1. LifeInv => NothingLeft
  BY DEF LifeInv, UndoInv, CleanInv, NothingLeft
<1>2. QED
  BY <1>1, Invariance, PTL DEF IInv

\* Whatever the init returned, and however often the driver is cleaned, a task is past
\* its acquire only on a device whose array and registers are there, and nothing is
\* undone that was not done or freed a second time.
THEOREM UsedWhileThere == Spec => []NothingUsedOnceGone
<1>1. IInv => NothingUsedOnceGone
  <2> SUFFICES ASSUME IInv PROVE NothingUsedOnceGone
    OBVIOUS
  <2>1. LifeInv /\ KeptInv /\ UndoInv /\ CleanInv /\ CallInv
    BY DEF IInv, LifeInv
  <2>2. /\ iq = Size("qenc") /\ "qenc" \in sized => iq > 0
        /\ im = Size("pwm") /\ "pwm" \in sized => im > 0
    BY SizeType
  <2>3. UndoneOnce
    <3>1. \A m \in live : m[1] \in heap \cap mapped
      BY <2>1 DEF KeptInv
    <3>2. /\ at = "delete_qenc" => {"pwm", "qenc"} \subseteq mapped \cap heap
          /\ at = "unmap_qenc" => "qenc" \in mapped
          /\ at = "delete_pwm" => "pwm" \in mapped \cap heap
          /\ at = "unmap_pwm" => "pwm" \in mapped
      BY <2>1 DEF UndoInv, Holds, Part
    <3>3. /\ at = "clean_qenc" /\ iq = Size("qenc") => "qenc" \in heap \/ "qenc" \notin sized
          /\ at = "clean_pwm" /\ im = Size("pwm") => "pwm" \in heap \/ "pwm" \notin sized
      BY <2>1, <2>2 DEF CleanInv
    <3>4. QED
      BY <3>1, <3>2, <3>3 DEF UndoneOnce
  <2>4. ASSUME NEW t \in Task, pc[t] \in InsideLabels
        PROVE  op[t].dev[1] \in heap \cap mapped
    <3>1. at = "up" /\ op[t].dev \in Device
      BY <2>1, <2>4, Labelling, CallType DEF CallInv
    <3>2. op[t].dev \in live
      BY <2>1, <3>1, LiveWhenUp
    <3>3. QED
      BY <2>1, <3>2 DEF KeptInv
  <2>5. QED
    BY <2>3, <2>4 DEF NothingUsedOnceGone
<1>2. QED
  BY <1>1, Invariance, PTL

\* What motors_pwm_read_speed and motors_pwm_read_freq_div report is what the register
\* of the motor holds, whenever no task is inside a call on it.
THEOREM ReadsAreApplied == Spec => []CopyIsApplied
<1>1. IInv => CopyIsApplied
  <2> SUFFICES ASSUME IInv, NEW m \in Motor, at = "up", ~Using(m)
               PROVE  /\ copy[<<m, "speed">>] = pwm[<<m, "speed">>]
                      /\ copy[<<m, "freq_div">>] \in {Junk, pwm[<<m, "freq_div">>]}
    BY DEF CopyIsApplied
  <2>1. ASSUME NEW p \in Param PROVE Applied(<<m, p>>)
    <3>1. \A t \in Task : pc[t] = "copy" => Register(op[t]) # <<m, p>>
      BY Labelling DEF Using, Register
    <3>2. QED
      BY <3>1 DEF IInv, PwmInv
  <2>2. QED
    BY <2>1 DEF Applied, Param
<1>2. QED
  BY <1>1, Invariance, PTL

\* Every reading of an encoder gives as its previous value what the reading before gave,
\* to whichever task, or 0 after a reset.
THEOREM Chaining == Spec => ReadingsChain
<1>1. IInv /\ [Next]_vars =>
        [\A t \in Task : GiveCounts(t) => out'[t].prev = reported[op[t].dev]]_vars
  <2> SUFFICES ASSUME IInv, NEW t \in Task, GiveCounts(t)
               PROVE  out'[t].prev = reported[op[t].dev]
    OBVIOUS
  <2>1. Giving(t, op[t].dev)
    BY DEF GiveCounts, Giving
  <2>2. out'[t].prev = prev[op[t].dev]
    BY DEF GiveCounts, IInv, TypeOK
  <2>3. QED
    BY <2>1, <2>2 DEF IInv, EncInv
<1>2. QED
  BY <1>1, Invariance, PTL DEF Spec, ReadingsChain

\* Once the registers of the motors are unmapped every motor has been stopped.
THEOREM StandsStill == Spec => []StoppedWhenCleaned
<1>1. IInv => StoppedWhenCleaned
  <2> SUFFICES ASSUME IInv, "pwm" \notin mapped, NEW m \in Motor
               PROVE  pwm[<<m, "speed">>] = 0
    BY DEF StoppedWhenCleaned
  <2>1. at # "up"
    BY DEF IInv, LifeInv, UpInv, Holds, Part
  <2>2. m \notin live
    BY TwoParts DEF IInv, LifeInv, KeptInv
  <2>3. QED
    BY <2>1, <2>2 DEF IInv, StopInv
<1>2. QED
  BY <1>1, Invariance, PTL
=============================================================================
