------------------------------ MODULE FileCache ------------------------------
(***************************************************************************)
(* The reservation cache on files (src/reservation_cache.go, Fs): a file   *)
(* per reservation, created, then written, under an RWMutex.  A crash or a *)
(* failed write leaves a file empty or cut short.  What a file says is     *)
(* that of its reservation, so only its condition is kept here.            *)
(***************************************************************************)
EXTENDS Naturals

CONSTANTS
  Actors,     \* goroutines that use the cache,
  Listers,    \* those that do nothing but list what has expired
  Ids,        \* names of reservations, and of their files
  MaxUpsets,  \* bound: crashes and failures in a behaviour
  None

ASSUME ActorsAssumption == Listers \subseteq Actors /\ None \notin Actors \cup Ids /\ MaxUpsets \in Nat

VARIABLES
  file,    \* "none", "empty", "cut" or "whole"
  late,    \* reservations whose duration is over
  op, arg, \* what each actor is doing, and to which reservation
  pc,      \* how far it got
  todo,    \* of a listing: the files still to be read,
  empty,   \* those that were empty when the directory was read,
  list,    \* what it has collected,
  asOf,    \* and what was late when it began
  reply,   \* the last answer to each actor
  readers, writer, \* of the RWMutex
  upsets

call == <<op, arg>>
listing == <<todo, empty, list, asOf>>
lock == <<readers, writer>>
vars == <<file, late, call, pc, listing, reply, lock, upsets>>

Upset == upsets < MaxUpsets /\ upsets' = upsets + 1

Writing == {"Add", "Remove"}
Listing == {"Sync", "GetExpired"}
Reading == {"Get", "Exists"} \cup Listing
OpsOf(a) == IF a \in Listers THEN {"GetExpired"} ELSE Writing \cup Reading
Args(o) == IF o \in Listing THEN {None} ELSE Ids

Init ==
  /\ file = [id \in Ids |-> "none"]
  /\ late = {}
  /\ op = [a \in Actors |-> "GetExpired"] /\ arg = [a \in Actors |-> None]
  /\ pc = [a \in Actors |-> "idle"]
  /\ todo = [a \in Actors |-> {}] /\ empty = [a \in Actors |-> {}]
  /\ list = [a \in Actors |-> {}] /\ asOf = [a \in Actors |-> {}]
  /\ reply = [a \in Actors |-> None]
  /\ readers = {} /\ writer = None
  /\ upsets = 0

At(a, point) == pc[a] = point
GoTo(a, point) == pc' = [pc EXCEPT ![a] = point]
Answer(a, r) == reply' = [reply EXCEPT ![a] = r] /\ GoTo(a, "unlock")
Error(a) == Answer(a, <<"error">>)
File(a) == file[arg[a]]
(* What is over leaves nothing behind in the caller.                       *)
Forget(S) ==
  /\ op' = [a \in Actors |-> IF a \in S THEN "GetExpired" ELSE op[a]]
  /\ arg' = [a \in Actors |-> IF a \in S THEN None ELSE arg[a]]
  /\ todo' = [a \in Actors |-> IF a \in S THEN {} ELSE todo[a]]
  /\ empty' = [a \in Actors |-> IF a \in S THEN {} ELSE empty[a]]
  /\ list' = [a \in Actors |-> IF a \in S THEN {} ELSE list[a]]
  /\ asOf' = [a \in Actors |-> IF a \in S THEN {} ELSE asOf[a]]
  /\ reply' = [a \in Actors |-> IF a \in S THEN None ELSE reply[a]]
Becomes(id, condition) == file' = [file EXCEPT ![id] = condition]

-----------------------------------------------------------------------------
(* A call, and the lock                                                    *)

Request(a) ==
  /\ At(a, "idle")
  /\ \E o \in OpsOf(a) : \E id \in Args(o) :
       op' = [op EXCEPT ![a] = o] /\ arg' = [arg EXCEPT ![a] = id]
  /\ GoTo(a, "lock")
  /\ UNCHANGED <<file, late, listing, reply, lock, upsets>>

FreeAnyway(a) == TRUE
FreeOfWriters(a) == writer = None
LockFree(a) == writer = None /\ (op[a] \in Writing => readers = {})
Lock(a) ==
  /\ At(a, "lock") /\ LockFree(a)
  /\ IF op[a] \in Writing THEN writer' = a /\ UNCHANGED readers
     ELSE readers' = readers \cup {a} /\ UNCHANGED writer
  /\ GoTo(a, "work")
  /\ UNCHANGED <<file, late, call, listing, reply, upsets>>

Unlock(a) ==
  /\ At(a, "unlock")
  /\ readers' = readers \ {a}
  /\ writer' = IF writer = a THEN None ELSE writer
  /\ GoTo(a, "idle") /\ Forget({a})
  /\ UNCHANGED <<file, late, upsets>>

-----------------------------------------------------------------------------
(* Add: O_EXCL refuses a file that is there, whatever is in it; what is    *)
(* created is empty until it is written.                                   *)
Create(a) ==
  /\ At(a, "work") /\ op[a] = "Add"
  /\ IF File(a) = "none"
     THEN Becomes(arg[a], "empty") /\ GoTo(a, "write") /\ UNCHANGED reply
     ELSE Error(a) /\ UNCHANGED file
  /\ UNCHANGED <<late, call, listing, lock, upsets>>
WriteFile(a) ==
  /\ At(a, "write")
  /\ Becomes(arg[a], "whole")
  /\ Answer(a, <<"added", arg[a]>>)
  /\ UNCHANGED <<late, call, listing, lock, upsets>>
WriteFails(a) ==
  /\ At(a, "write") /\ Upset
  /\ \E condition \in {"empty", "cut"} : Becomes(arg[a], condition)
  /\ Error(a)
  /\ UNCHANGED <<late, call, listing, lock>>

(* Remove: a file that is not there is as good as removed.                 *)
Delete(a) ==
  /\ At(a, "work") /\ op[a] = "Remove"
  /\ Becomes(arg[a], "none")
  /\ Answer(a, <<"removed", arg[a]>>)
  /\ UNCHANGED <<late, call, listing, lock, upsets>>

(* Get reads a whole file, and fails, or panics (below), on another one;   *)
(* Exists only looks whether there is one.                                 *)
Open(a) ==
  /\ At(a, "work") /\ op[a] = "Get"
  /\ IF File(a) = "whole" THEN Answer(a, <<"got", arg[a]>>) ELSE Error(a)
  /\ UNCHANGED <<file, late, call, listing, lock, upsets>>
Stat(a) ==
  /\ At(a, "work") /\ op[a] = "Exists"
  /\ Answer(a, <<IF File(a) = "none" THEN "absent" ELSE "exists", arg[a]>>)
  /\ UNCHANGED <<file, late, call, listing, lock, upsets>>

-----------------------------------------------------------------------------
(* Sync and GetExpired read the directory, then one file after the other   *)

ReadDir(a) ==
  /\ At(a, "work") /\ op[a] \in Listing
  /\ todo' = [todo EXCEPT ![a] = {id \in Ids : file[id] # "none"}]
  /\ empty' = [empty EXCEPT ![a] = {id \in Ids : file[id] = "empty"}]
  /\ asOf' = [asOf EXCEPT ![a] = late]
  /\ GoTo(a, "read")
  /\ UNCHANGED <<file, late, call, list, reply, lock, upsets>>

Collects(a, id) == op[a] = "Sync" \/ id \in late
ReadNext(a) ==
  /\ At(a, "read")
  /\ \E id \in todo[a] :
       /\ ~(op[a] = "GetExpired" /\ id \in empty[a])
       /\ IF file[id] = "whole"
          THEN /\ todo' = [todo EXCEPT ![a] = @ \ {id}]
               /\ list' = [list EXCEPT ![a] = IF Collects(a, id) THEN @ \cup {id} ELSE @]
               /\ UNCHANGED <<pc, reply>>
          ELSE Error(a) /\ UNCHANGED <<todo, list>>
  /\ UNCHANGED <<file, late, call, empty, asOf, lock, upsets>>

(* GetExpired removes an empty file, under the read lock, and returns no   *)
(* list; two listings may find the same file.                              *)
LeaveEmpty(id) == UNCHANGED file
RemoveEmpty(id) == Becomes(id, "none")
DropEmpty(a) ==
  /\ At(a, "read") /\ op[a] = "GetExpired"
  /\ \E id \in todo[a] \cap empty[a] :
       IF file[id] = "none" THEN Error(a) /\ UNCHANGED file
       ELSE RemoveEmpty(id) /\ Answer(a, <<"listed", {}>>)
  /\ UNCHANGED <<late, call, listing, lock, upsets>>

Listed(a) ==
  /\ At(a, "read") /\ todo[a] = {}
  /\ Answer(a, <<IF op[a] = "Sync" THEN "counted" ELSE "listed", list[a]>>)
  /\ UNCHANGED <<file, late, call, listing, lock, upsets>>

-----------------------------------------------------------------------------
(* An access to the file system fails.                                     *)
AccessFails(a) ==
  /\ At(a, "work") \/ At(a, "read")
  /\ Upset
  /\ Error(a)
  /\ UNCHANGED <<file, late, call, listing, lock>>

Expire(id) ==
  /\ id \notin late
  /\ late' = late \cup {id}
  /\ UNCHANGED <<file, call, pc, listing, reply, lock, upsets>>

(* The process dies, in the middle of a write perhaps.                     *)
Crash ==
  /\ Upset
  /\ pc' = [a \in Actors |-> "idle"] /\ Forget(Actors)
  /\ readers' = {} /\ writer' = None
  /\ \/ UNCHANGED file
     \/ \E a \in Actors : At(a, "write") /\ Becomes(arg[a], "cut")
  /\ UNCHANGED late

(* "get" panics where a file has no version to be read, for another reason *)
(* than that its beginning is not one: it goes on with a nil reader.       *)
Reads(a, id) ==
  \/ At(a, "work") /\ op[a] = "Get" /\ id = arg[a]
  \/ At(a, "read") /\ id \in todo[a] /\ ~(op[a] = "GetExpired" /\ id \in empty[a])
Panics(a) ==
  /\ \E id \in Ids : Reads(a, id) /\ file[id] \in {"empty", "cut"}
  /\ Crash

Step(a) ==
  \/ Lock(a) \/ Unlock(a)
  \/ Create(a) \/ WriteFile(a) \/ Delete(a) \/ Open(a) \/ Stat(a)
  \/ ReadDir(a) \/ ReadNext(a) \/ DropEmpty(a) \/ Listed(a)

Next ==
  \/ \E a \in Actors : Request(a) \/ Step(a) \/ WriteFails(a) \/ AccessFails(a) \/ Panics(a)
  \/ \E id \in Ids : Expire(id)
  \/ Crash

(* Listers ask again and again; everybody goes on with a call, and gets    *)
(* the lock in its turn.                                                   *)
Fairness ==
  /\ \A a \in Listers : WF_vars(Request(a))
  /\ \A a \in Actors : WF_vars(Step(a)) /\ SF_vars(Lock(a))

Safety == Init /\ [][Next]_vars
Spec == Safety /\ Fairness

-----------------------------------------------------------------------------
(* Properties                                                              *)

Points == {"idle", "lock", "work", "write", "read", "unlock"}
Replies ==
  {None, <<"error">>} \cup ({"added", "removed", "got", "exists", "absent"} \X Ids)
    \cup ({"listed", "counted"} \X SUBSET Ids)

(* The variables are of their types, and the lock has a writer or readers  *)
(* (Fs and its RWMutex).                                                   *)
TypeOK ==
  /\ file \in [Ids -> {"none", "empty", "cut", "whole"}]
  /\ late \subseteq Ids
  /\ op \in [Actors -> Writing \cup Reading] /\ arg \in [Actors -> Ids \cup {None}]
  /\ pc \in [Actors -> Points]
  /\ \A a \in Actors : arg[a] = None => op[a] \in Listing
  /\ reply \in [Actors -> Replies]
  /\ todo \in [Actors -> SUBSET Ids] /\ empty \in [Actors -> SUBSET Ids]
  /\ list \in [Actors -> SUBSET Ids] /\ asOf \in [Actors -> SUBSET Ids]
  /\ readers \subseteq Actors /\ writer \in Actors \cup {None}
  /\ writer # None => readers = {}
  /\ upsets \in 0 .. MaxUpsets

(* Fs implements the abstract store, whose reservations are the whole      *)
(* files: whatever is cut short or removed under the read lock, no answer  *)
(* tells of a state the store was never in (reservation_cache.go).         *)
stored == {id \in Ids : file[id] = "whole"}
Abstract == INSTANCE ReservationStore WITH Overwrites <- FALSE, Lossy <- FALSE
Store == Abstract!Spec

(* Why: one writes or many read, a listing has collected whole files only, *)
(* misses none, and those it found empty are so still or gone (the         *)
(* RWMutex of Fs).                                                         *)
Inside == {"work", "write", "read", "unlock"}
LockInv ==
  \A a \in Actors :
    /\ pc[a] \in Inside => IF op[a] \in Writing THEN writer = a ELSE a \in readers
    /\ pc[a] = "write" => op[a] = "Add" /\ File(a) # "whole"
    /\ pc[a] = "read" => op[a] \in Listing
    /\ pc[a] \in {"idle", "lock", "work"} => list[a] = {}
ListInv ==
  \A a \in Actors :
    pc[a] = "read" =>
      /\ list[a] \subseteq stored
      /\ \A id \in empty[a] : file[id] \in {"empty", "none"}
      /\ op[a] = "Sync" => stored \subseteq list[a] \cup todo[a]
      /\ op[a] = "GetExpired" => list[a] \subseteq late
IInv == TypeOK /\ LockInv /\ ListInv

(* "GetExpired returns all id the the reservations that are expired at the *)
(* time of the function call" (reservation_cache.go:116).                  *)
ListsAllExpired ==
  \A a \in Actors :
    At(a, "unlock") /\ op[a] = "GetExpired" /\ reply[a] # <<"error">>
      => asOf[a] \cap stored \subseteq reply[a][2]

(* After crashes and failed writes listings are complete again, unless a   *)
(* file with a part of a reservation stays: each listing removes an empty  *)
(* file (GetExpired).                                                      *)
Complete(a) == At(a, "unlock") /\ reply[a] = <<"listed", stored \cap late>>
ListingsRecover ==
  \A a \in Listers : []<>(\E id \in Ids : file[id] = "cut") \/ []<>Complete(a)

=============================================================================
