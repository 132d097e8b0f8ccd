-------------------------- MODULE AdmissionControl --------------------------
(***************************************************************************)
(* What a concurrency limiter promises, without the way it keeps the       *)
(* promise: no counters, no condition variable, no wakeups.                 *)
(*                                                                         *)
(* At most Cap callers are admitted at a time and at most QueueCap callers  *)
(* wait in the room.  A caller is refused only when nothing can be done for *)
(* it: the limiter admits nobody, or it is full and the caller cannot wait  *)
(* (the room is full) or no longer wants to (its deadline has passed).     *)
(* A free place is given to somebody in the room sooner or later, but to    *)
(* nobody in particular: the room has no order.  A caller may break down as *)
(* it sits down in the room: its place is then lost for good.              *)
(*                                                                         *)
(* Source: the contract in the doc comments of                             *)
(* fusecraft-core/src/limiter/concurrency.rs.                              *)
(***************************************************************************)
EXTENDS Naturals, FiniteSets

CONSTANTS Callers,   \* the threads that may call the limiter
          Cap,       \* concurrency_cap
          QueueCap   \* queue_cap

VARIABLES admitted,  \* callers that hold a slot
          room,      \* callers waiting for a slot
          timed,     \* the waiting callers that have a deadline
          granted,   \* slots granted so far
          refused,   \* callers turned away for lack of room so far
          late,      \* callers whose deadline passed so far
          lost       \* places of the room that no longer serve anybody

avars == <<admitted, room, timed, granted, refused, late, lost>>

Outside == Callers \ (admitted \cup room)

Full == Cardinality(admitted) >= Cap

NoPlace == Cardinality(room) + lost >= QueueCap

Init ==
  /\ admitted = {} /\ room = {} /\ timed = {}
  /\ granted = 0 /\ refused = 0 /\ late = 0 /\ lost = 0

\* A caller that finds a free slot takes it, whoever is waiting.
Enter(c) ==
  /\ c \in Outside /\ ~Full
  /\ admitted' = admitted \cup {c}
  /\ granted' = granted + 1
  /\ UNCHANGED <<room, timed, refused, late, lost>>

\* A caller that finds no slot waits; it has a deadline or it has none.
Wait(c) ==
  /\ c \in Outside /\ Cap > 0 /\ Full /\ ~NoPlace
  /\ room' = room \cup {c}
  /\ timed' \in {timed, timed \cup {c}}
  /\ UNCHANGED <<admitted, granted, refused, late, lost>>

\* A caller that can neither enter nor wait.
TurnAway(c) ==
  /\ c \in Outside
  /\ Cap = 0 \/ (Full /\ NoPlace)
  /\ refused' = refused + 1
  /\ UNCHANGED <<admitted, room, timed, granted, late, lost>>

\* A caller that came with its deadline already past and found no slot.
TooLate(c) ==
  /\ c \in Outside /\ Full
  /\ late' = late + 1
  /\ UNCHANGED <<admitted, room, timed, granted, refused, lost>>

\* A caller that breaks down on its way to a place in the room.
BreakDown(c) ==
  /\ c \in Outside /\ Cap > 0 /\ Full /\ ~NoPlace
  /\ lost' = lost + 1
  /\ UNCHANGED <<admitted, room, timed, granted, refused, late>>

\* A waiting caller gets a free slot.
Admit(c) ==
  /\ c \in room /\ ~Full
  /\ admitted' = admitted \cup {c}
  /\ room' = room \ {c}
  /\ timed' = timed \ {c}
  /\ granted' = granted + 1
  /\ UNCHANGED <<refused, late, lost>>

\* A waiting caller whose deadline has passed leaves, if there is still no slot.
GiveUp(c) ==
  /\ c \in timed /\ Full
  /\ room' = room \ {c}
  /\ timed' = timed \ {c}
  /\ late' = late + 1
  /\ UNCHANGED <<admitted, granted, refused, lost>>

Leave(c) ==
  /\ c \in admitted
  /\ admitted' = admitted \ {c}
  /\ UNCHANGED <<room, timed, granted, refused, late, lost>>

Next == \E c \in Callers :
  \/ Enter(c) \/ Wait(c) \/ TurnAway(c) \/ TooLate(c) \/ BreakDown(c)
  \/ Admit(c) \/ GiveUp(c) \/ Leave(c)

SafeSpec == Init /\ [][Next]_avars

\* Somebody in the room is admitted if a slot stays free.
Fairness == WF_avars(\E c \in Callers : Admit(c))

Spec == SafeSpec /\ Fairness
=============================================================================
