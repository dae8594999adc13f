--------------------------- MODULE ReservationStore ---------------------------
(***************************************************************************)
(* What a reservation cache promises its callers: a set of reservations,   *)
(* which every operation reads or changes at one moment.  An operation may *)
(* fail, and then changes nothing, unless its answer can get lost.         *)
(***************************************************************************)
CONSTANTS
  Actors, Ids, None,
  Overwrites, \* whether a reservation can be added again
  Lossy       \* whether an operation that fails may have had its effect

VARIABLES
  stored, \* the reservations in the store
  late,   \* those whose duration is over, in the store or not
  reply   \* the last answer to each actor

vars == <<stored, late, reply>>

Answer(a, r) == reply' = [reply EXCEPT ![a] = r]

Init ==
  /\ stored \in SUBSET Ids
  /\ late = {}
  /\ reply = [a \in Actors |-> None]

Over(a) == Answer(a, None) /\ UNCHANGED <<stored, late>>
Fail(a) == Answer(a, <<"error">>) /\ UNCHANGED <<stored, late>>

AnswerLost(a, id) ==
  /\ Lossy
  /\ stored' \in {stored \cup {id}, stored \ {id}}
  /\ Answer(a, <<"error">>)
  /\ UNCHANGED late

Add(a, id) ==
  /\ Overwrites \/ id \notin stored
  /\ stored' = stored \cup {id}
  /\ Answer(a, <<"added", id>>)
  /\ UNCHANGED late

Remove(a, id) ==
  /\ stored' = stored \ {id}
  /\ Answer(a, <<"removed", id>>)
  /\ UNCHANGED late

Get(a, id) ==
  /\ id \in stored
  /\ Answer(a, <<"got", id>>)
  /\ UNCHANGED <<stored, late>>

(* A store may know of a reservation it cannot read.                       *)
Exists(a, id) ==
  /\ Answer(a, <<"exists", id>>) \/ (id \notin stored /\ Answer(a, <<"absent", id>>))
  /\ UNCHANGED <<stored, late>>

Sync(a) == Answer(a, <<"counted", stored>>) /\ UNCHANGED <<stored, late>>

GetExpired(a) ==
  /\ \E list \in SUBSET (stored \cap late) : Answer(a, <<"listed", list>>)
  /\ UNCHANGED <<stored, late>>

Expire(id) == late' = late \cup {id} /\ UNCHANGED <<stored, reply>>

Crash == reply' = [a \in Actors |-> None] /\ UNCHANGED <<stored, late>>

Next ==
  \/ \E a \in Actors : Over(a) \/ Fail(a) \/ Sync(a) \/ GetExpired(a)
  \/ \E a \in Actors, id \in Ids : Add(a, id) \/ Remove(a, id) \/ Get(a, id) \/ Exists(a, id)
  \/ \E a \in Actors, id \in Ids : AnswerLost(a, id)
  \/ \E id \in Ids : Expire(id)
  \/ Crash

Spec == Init /\ [][Next]_vars

=============================================================================
