------------------------------- MODULE RtMutex -------------------------------
(***************************************************************************)
(* The native Xenomai RT_MUTEX, as the drivers use it through the          *)
(* UTIL_MUTEX_* macros of src/util.h.  The mutex is external code: a       *)
(* recursive, owner-checked lock.  A task that already owns it acquires it *)
(* again by deepening it; only the owner releases it, and only the         *)
(* outermost release frees it; a release by anybody else is refused with   *)
(* -EPERM and changes nothing.                                             *)
(***************************************************************************)
EXTENDS Naturals

CONSTANTS Task,     \* the Xenomai tasks that call the drivers
          NoTask    \* the owner of a free mutex

ASSUME TaskAssumption == NoTask \notin Task

Free == [owner |-> NoTask, depth |-> 0]

Mutexes == [owner : Task \cup {NoTask}, depth : Nat]

\* rt_mutex_acquire(m, TM_INFINITE) by t returns 0 now, instead of blocking.
CanAcquire(m, t) == m.owner \in {NoTask, t}

Acquired(m, t) == [owner |-> t, depth |-> m.depth + 1]

\* rt_mutex_release(m) by t: the mutex it leaves and the code it returns.
Released(m, t) ==
  IF m.owner # t THEN m
  ELSE IF m.depth > 1 THEN [owner |-> t, depth |-> m.depth - 1] ELSE Free

ReleaseCode(m, t) == IF m.owner = t THEN "ok" ELSE "EPERM"
=============================================================================
