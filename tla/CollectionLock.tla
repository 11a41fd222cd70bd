---------------------------- MODULE CollectionLock ----------------------------
(***************************************************************************)
(* What the scheduler promises about collections, whatever processes there   *)
(* are and however they end: one collector at a time.  A collector takes the *)
(* lock as it starts working, stops working, then gives the lock back; a     *)
(* process that dies does both at once.  Scheduler implements this module.   *)
(***************************************************************************)
CONSTANTS Process, None

VARIABLES
  holder,    \* the process holding the lock, or None
  working    \* the processes that are collecting

Init ==
  /\ holder = None
  /\ working = {}

Take(p) ==
  /\ holder = None
  /\ holder' = p
  /\ working' = working \cup {p}

Finish(p) ==
  /\ working' = working \ {p}
  /\ UNCHANGED holder

Free(p) ==
  /\ holder = p
  /\ p \notin working
  /\ holder' = None
  /\ UNCHANGED working

Vanish(p) ==
  /\ holder = p
  /\ holder' = None
  /\ working' = working \ {p}

Next == \E p \in Process : Take(p) \/ Finish(p) \/ Free(p) \/ Vanish(p)

Spec == Init /\ [][Next]_<<holder, working>>

(* Whoever works holds the lock. *)
Exclusive == working \subseteq {holder}
================================================================================
