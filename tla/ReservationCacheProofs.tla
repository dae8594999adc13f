----------------------- MODULE ReservationCacheProofs -----------------------
(***************************************************************************)
(* Theorems about ReservationCache.  What is shown for steps is shown for  *)
(* Safety, the specification without its fairness.                         *)
(***************************************************************************)
EXTENDS ReservationCache, FiniteSetTheorems, TLAPS

USE DEF Goroutines, Listings, RLocking, Locking, Unlocked, Operations, Waiting, Points, Listed

(* A step of any goroutine is one of the actions.                          *)
LEMMA Steps ==
  ASSUME NEW P,
         (\E i \in Ids : Expire(i)) => P, Crash => P, Start => P,
         StartFails => P, Synced => P, Started => P,
         \A r \in Requests : Request(r[1], r[2]) => P,
         \A g \in Listers : ListExpired(g) => P,
         \A g \in Goroutines : Return(g) => P,
         \A g \in Goroutines : RLock(g) => P,
         \A g \in Goroutines : Borrow(g) => P,
         \A g \in Goroutines : List(g) => P,
         \A g \in Goroutines : ReadNext(g) => P,
         \A g \in Goroutines : Read(g) => P,
         \A g \in Goroutines : ReadFails(g) => P,
         \A g \in Goroutines : Use(g) => P,
         Announce => P, Lock => P, Write => P,
         UNCHANGED vars => P
  PROVE  [Next]_vars => P
BY DEF Next, Step, MainStep, ReadPanics

(* What the engine asks for.                                               *)
LEMMA RequestParts ==
  \A r \in Requests :
    /\ r[1] \in {"Get", "Exists", "Remove", "Add", "Manage"}
    /\ r[2] \in Ids \cup {None}
    /\ r[1] # "Manage" => r[2] \in Ids
    /\ Entry(r[1]) \in {"rlock", "lock", "want"}
BY DEF Requests, Entry

(***************************************************************************)
(* Types                                                                   *)
(***************************************************************************)

(* The initial state has every type.                                       *)
LEMMA TypeInit == Init => TypeOK
BY IdsAssumption DEF Init, TypeOK

(* A process that stops leaves values of the right types.                  *)
LEMMA IdleType == TypeOK /\ Idle /\ UNCHANGED data /\ phase' = "down" => TypeOK'
BY DEF TypeOK, Idle, data

(* Every step keeps the types, when connections are held where HoldInv     *)
(* says.                                                                   *)
LEMMA TypeNext == TypeOK /\ HoldInv /\ [Next]_vars => TypeOK'
<1> SUFFICES ASSUME TypeOK, HoldInv PROVE [Next]_vars => TypeOK'
  OBVIOUS
<1>1. (\E i \in Ids : Expire(i)) => TypeOK'
  BY DEF TypeOK, Expire, locals, lock
<1>2. (Crash => TypeOK') /\ (StartFails => TypeOK')
  BY IdleType DEF Crash, StartFails
<1>3. Start => TypeOK'
  BY DEF TypeOK, Start, Entry, lock
<1>4. \A g \in Goroutines : Finish(g) => /\ held' \in [Goroutines -> 0..2]
                                        /\ readers' \in SUBSET Goroutines
                                        /\ id' \in [Goroutines -> Ids \cup {None}]
                                        /\ todo' \in [Goroutines -> SUBSET Ids]
                                        /\ found' \in [Goroutines -> SUBSET Ids]
                                        /\ asOf' \in [Goroutines -> SUBSET Ids]
  BY DEF TypeOK, Finish, Closed
<1>5. (Synced => TypeOK') /\ (Started => TypeOK')
  BY <1>4 DEF TypeOK, Synced, Started, Finish, Entry, data
<1>6. \A r \in Requests : Request(r[1], r[2]) => TypeOK'
  BY RequestParts DEF TypeOK, Request, data, lock
<1>7. \A g \in Listers : ListExpired(g) => TypeOK'
  BY DEF TypeOK, ListExpired, Entry, data, lock
<1>8. \A g \in Goroutines : Return(g) => TypeOK'
  <2> SUFFICES ASSUME NEW g \in Goroutines, Return(g) PROVE TypeOK'
    OBVIOUS
  <2>1. op' \in [Goroutines -> Operations \cup {None}] /\ pc' \in [Goroutines -> Points]
    BY DEF TypeOK, Return
  <2> QED BY <1>4, <2>1 DEF TypeOK, Return, Finish, data
<1>9. \A g \in Goroutines : RLock(g) => TypeOK'
  BY DEF TypeOK, RLock, data, locals
<1>10. \A g \in Goroutines : Borrow(g) => TypeOK'
  <2> SUFFICES ASSUME NEW g \in Goroutines, Borrow(g) PROVE TypeOK'
    OBVIOUS
  <2>1. held[g] \in {0, 1}
    BY DEF HoldInv, HeldAt, Borrow
  <2>2. held' \in [Goroutines -> 0..2]
    BY <2>1 DEF TypeOK, Borrow
  <2>3. Task(g) \in Points
    BY DEF Task
  <2> QED BY <2>2, <2>3 DEF TypeOK, Borrow, data, locals, lock
<1>11. \A g \in Goroutines : List(g) => TypeOK'
  BY DEF TypeOK, List, data, lock
<1>12. \A g \in Goroutines : ReadNext(g) => TypeOK'
  BY DEF TypeOK, ReadNext, ReadWith, data, lock
<1>13. \A g \in Goroutines : pc[g] \in {"read", "use", "write"} /\ held' = CloseOne(g) =>
         held' \in [Goroutines -> 0..2]
  BY DEF TypeOK, HoldInv, HeldAt, CloseOne
<1>14. \A g \in Goroutines : Read(g) => TypeOK'
  <2> SUFFICES ASSUME NEW g \in Goroutines, Read(g) PROVE TypeOK'
    OBVIOUS
  <2>1. count' \in [CountedTypes -> Nat]
    BY DEF TypeOK, Read, Counted
  <2>2. pc' \in [Goroutines -> Points]
    BY DEF TypeOK, Read
  <2>3. todo' \in [Goroutines -> SUBSET Ids] /\ found' \in [Goroutines -> SUBSET Ids]
    BY DEF TypeOK, Read
  <2> QED BY <1>13, <2>1, <2>2, <2>3 DEF TypeOK, Read, lock
<1>15. \A g \in Goroutines : (ReadFails(g) => TypeOK') /\ (Use(g) => TypeOK')
  BY <1>13 DEF TypeOK, ReadFails, Use, data, locals, lock
<1>16. (Announce => TypeOK') /\ (Lock => TypeOK')
  BY DEF TypeOK, Announce, Lock, data, locals
<1>17. Write => TypeOK'
  <2> SUFFICES ASSUME Write PROVE TypeOK'
    OBVIOUS
  <2>1. PICK o \in Outcomes :
          /\ cached' = IF o = "refused" THEN cached ELSE Stored
          /\ pc' = [g \in Goroutines |-> IF g = Main THEN AfterWrite(o)
                                         ELSE IF g \in Admitted THEN "want" ELSE pc[g]]
    BY DEF Write
  <2>2. pc' \in [Goroutines -> Points]
    BY <2>1 DEF TypeOK, AfterWrite
  <2>3. op[Main] = "Add" => id[Main] \in Ids
    BY DEF HoldInv, OpAt
  <2> QED BY <1>13, <2>1, <2>2, <2>3 DEF TypeOK, Write, Stored, Admitted, locals
<1>18. UNCHANGED vars => TypeOK'
  BY DEF TypeOK, vars, data, locals, lock
<1> QED BY <1>1, <1>2, <1>3, <1>5, <1>6, <1>7, <1>8, <1>9, <1>10, <1>11, <1>12,
           <1>14, <1>15, <1>16, <1>17, <1>18, Steps

(***************************************************************************)
(* Control                                                                 *)
(***************************************************************************)

(* Only the main goroutine writes, and the start is its alone.             *)
LEMMA ActorNext == TypeOK /\ ActorInv /\ HoldInv /\ [Next]_vars => ActorInv'
<1> SUFFICES ASSUME TypeOK, ActorInv, HoldInv PROVE [Next]_vars => ActorInv'
  OBVIOUS
<1> USE GoroutinesAssumption, NoneAssumption DEF TypeOK, ActorInv
<1>1. (\E i \in Ids : Expire(i)) => ActorInv'
  BY DEF Expire, locals
<1>2. (Crash => ActorInv') /\ (StartFails => ActorInv')
  BY DEF Crash, StartFails, Idle
<1>3. Start => ActorInv'
  BY DEF Start, Entry
<1>4. Synced => ActorInv'
  BY DEF Synced, Entry
<1>5. Started => ActorInv'
  BY DEF Started
<1>6. \A r \in Requests : Request(r[1], r[2]) => ActorInv'
  BY RequestParts DEF Request
<1>7. \A g \in Listers : ListExpired(g) => ActorInv'
  BY DEF ListExpired, Entry
<1>8. \A g \in Goroutines : Return(g) => ActorInv'
  BY DEF Return
<1>9. \A g \in Goroutines : RLock(g) => ActorInv'
  BY DEF RLock, locals
<1>10. \A g \in Goroutines : Borrow(g) => ActorInv'
  BY DEF Borrow, Task, locals
<1>11. \A g \in Goroutines : List(g) => ActorInv'
  BY DEF List
<1>12. \A g \in Goroutines : ReadNext(g) => ActorInv'
  BY DEF ReadNext, ReadWith
<1>13. \A g \in Goroutines : Read(g) => ActorInv'
  BY DEF Read
<1>14. \A g \in Goroutines : (ReadFails(g) => ActorInv') /\ (Use(g) => ActorInv')
  BY DEF ReadFails, Use, locals
<1>15. (Announce => ActorInv') /\ (Lock => ActorInv')
  BY DEF Announce, Lock, locals
<1>16. Write => ActorInv'
  BY DEF Write, AfterWrite, Admitted, locals
<1>17. UNCHANGED vars => ActorInv'
  BY DEF vars, locals
<1> QED BY <1>1, <1>2, <1>3, <1>4, <1>5, <1>6, <1>7, <1>8, <1>9, <1>10, <1>11, <1>12,
           <1>13, <1>14, <1>15, <1>16, <1>17, Steps

(* A connection is held only where HoldInv says, and the second one only   *)
(* on the way to giving it back.                                           *)
LEMMA HoldNext == TypeOK /\ ActorInv /\ HoldInv /\ LockInv /\ [Next]_vars => HoldInv'
<1> SUFFICES ASSUME TypeOK, ActorInv, HoldInv, LockInv PROVE [Next]_vars => HoldInv'
  OBVIOUS
<1> DEFINE At(x) == HeldAt(x) /\ OpAt(x)
<1>a. \A x \in Goroutines : pc'[x] = pc[x] /\ op'[x] = op[x] /\ id'[x] = id[x]
        /\ held'[x] = held[x] => At(x)'
  BY DEF HoldInv, HeldAt, OpAt
<1>b. ASSUME NEW g \in Goroutines,
             \A x \in Goroutines \ {g} : pc'[x] = pc[x] /\ op'[x] = op[x] /\ id'[x] = id[x]
               /\ held'[x] = held[x],
             At(g)'
      PROVE  HoldInv'
  BY <1>a, <1>b DEF HoldInv
<1> USE GoroutinesAssumption, NoneAssumption DEF TypeOK
<1>1. (\E i \in Ids : Expire(i)) => HoldInv'
  BY <1>a DEF HoldInv, Expire, locals
<1>2. (Crash => HoldInv') /\ (StartFails => HoldInv')
  BY DEF Crash, StartFails, Idle, HoldInv, HeldAt, OpAt
<1>3. Start => HoldInv'
  <2> SUFFICES ASSUME Start PROVE HoldInv'
    OBVIOUS
  <2>1. At(Main)'
    BY DEF Start, Entry, HoldInv, HeldAt, OpAt, ActorInv
  <2> QED BY <2>1, <1>b DEF Start
<1>4. Synced => HoldInv'
  <2> SUFFICES ASSUME Synced PROVE HoldInv'
    OBVIOUS
  <2>1. At(Main)'
    BY DEF Synced, Finish, Closed, Entry, HeldAt, OpAt
  <2> QED BY <2>1, <1>b DEF Synced, Finish, Closed
<1>5. Started => HoldInv'
  <2> SUFFICES ASSUME Started PROVE HoldInv'
    OBVIOUS
  <2>1. At(Main)'
    BY DEF Started, Finish, Closed, HeldAt, OpAt
  <2> QED BY <2>1, <1>b DEF Started, Finish, Closed
<1>6. \A r \in Requests : Request(r[1], r[2]) => HoldInv'
  <2> SUFFICES ASSUME NEW r \in Requests, Request(r[1], r[2]) PROVE HoldInv'
    OBVIOUS
  <2>1. At(Main)'
    BY RequestParts DEF Request, Entry, HoldInv, HeldAt, OpAt
  <2> QED BY <2>1, <1>b DEF Request
<1>7. \A g \in Listers : ListExpired(g) => HoldInv'
  <2> SUFFICES ASSUME NEW g \in Listers, ListExpired(g) PROVE HoldInv'
    OBVIOUS
  <2>1. At(g)'
    BY DEF ListExpired, Entry, HoldInv, HeldAt, OpAt
  <2> QED BY <2>1, <1>b DEF ListExpired
<1>8. \A g \in Goroutines : Return(g) => HoldInv'
  <2> SUFFICES ASSUME NEW g \in Goroutines, Return(g) PROVE HoldInv'
    OBVIOUS
  <2>1. At(g)'
    BY DEF Return, Finish, Closed, HeldAt, OpAt
  <2> QED BY <2>1, <1>b DEF Return, Finish, Closed
<1>9. \A g \in Goroutines : RLock(g) => HoldInv'
  <2> SUFFICES ASSUME NEW g \in Goroutines, RLock(g) PROVE HoldInv'
    OBVIOUS
  <2>1. At(g)'
    BY DEF RLock, locals, HoldInv, HeldAt, OpAt
  <2> QED BY <2>1, <1>b DEF RLock, locals
<1>10. \A g \in Goroutines : Borrow(g) => HoldInv'
  <2> SUFFICES ASSUME NEW g \in Goroutines, Borrow(g) PROVE HoldInv'
    OBVIOUS
  <2>2. /\ pc[g] = "want" /\ op[g] # None
        /\ held[g] = 0 \/ (held[g] = 1 /\ op[g] \in Listings \cup {"Manage"})
        /\ op[g] \in Locking \cup {"Get", "Exists"} => id[g] \in Ids
        /\ op[g] \in Locking => g = Main /\ writer = "writing"
    BY DEF Borrow, HoldInv, HeldAt, OpAt, LockInv, ActorInv
  <2>3. g = Main /\ writer = "writing" => op[g] \in Locking \cup {"ClearByType"}
    BY DEF LockInv
  <2>4. /\ pc'[g] = Task(g) /\ op'[g] = op[g] /\ id'[g] = id[g]
        /\ held'[g] = held[g] + 1
    BY DEF Borrow, locals
  <2>5. op[g] \in Operations
    BY <2>2
  <2>1. At(g)'
    BY <2>2, <2>3, <2>4, <2>5 DEF Task, HeldAt, OpAt
  <2> QED BY <2>1, <1>b DEF Borrow, locals
<1>11. \A g \in Goroutines : List(g) => HoldInv'
  <2> SUFFICES ASSUME NEW g \in Goroutines, List(g) PROVE HoldInv'
    OBVIOUS
  <2>1. At(g)'
    BY DEF List, HoldInv, HeldAt, OpAt
  <2> QED BY <2>1, <1>b DEF List
<1>12. \A g \in Goroutines : ReadNext(g) => HoldInv'
  <2> SUFFICES ASSUME NEW g \in Goroutines, ReadNext(g) PROVE HoldInv'
    OBVIOUS
  <2>1. At(g)'
    BY DEF ReadNext, ReadWith, HoldInv, HeldAt, OpAt
  <2> QED BY <2>1, <1>b DEF ReadNext
<1>13. \A g \in Goroutines : Read(g) => HoldInv'
  <2> SUFFICES ASSUME NEW g \in Goroutines, Read(g) PROVE HoldInv'
    OBVIOUS
  <2>1. At(g)'
    BY DEF Read, CloseOne, HoldInv, HeldAt, OpAt
  <2> QED BY <2>1, <1>b DEF Read, CloseOne
<1>14. \A g \in Goroutines : (ReadFails(g) => HoldInv') /\ (Use(g) => HoldInv')
  <2> SUFFICES ASSUME NEW g \in Goroutines, ReadFails(g) \/ Use(g) PROVE HoldInv'
    OBVIOUS
  <2>1. At(g)'
    BY DEF ReadFails, Use, CloseOne, locals, HoldInv, HeldAt, OpAt
  <2> QED BY <2>1, <1>b DEF ReadFails, Use, CloseOne, locals
<1>15. (Announce => HoldInv') /\ (Lock => HoldInv')
  <2> SUFFICES ASSUME Announce \/ Lock PROVE HoldInv'
    OBVIOUS
  <2>1. At(Main)'
    BY DEF Announce, Lock, locals, HoldInv, HeldAt, OpAt
  <2> QED BY <2>1, <1>b DEF Announce, Lock, locals
<1>16. Write => HoldInv'
  <2> SUFFICES ASSUME Write, NEW x \in Goroutines PROVE At(x)'
    BY DEF HoldInv
  <2> QED BY DEF Write, AfterWrite, Admitted, CloseOne, locals, HoldInv, HeldAt, OpAt
<1>17. UNCHANGED vars => HoldInv'
  BY <1>a DEF HoldInv, vars, locals
<1> QED BY <1>1, <1>2, <1>3, <1>4, <1>5, <1>6, <1>7, <1>8, <1>9, <1>10, <1>11, <1>12,
           <1>13, <1>14, <1>15, <1>16, <1>17, Steps

(* Readers and the writer of the RWMutex exclude each other, and nobody    *)
(* queues for a lock that is free.                                         *)
LEMMA LockNext == TypeOK /\ ActorInv /\ HoldInv /\ LockInv /\ [Next]_vars => LockInv'
<1> SUFFICES ASSUME TypeOK, ActorInv, HoldInv, LockInv PROVE [Next]_vars => LockInv'
  OBVIOUS
<1> USE GoroutinesAssumption, NoneAssumption DEF TypeOK
<1>1. (\E i \in Ids : Expire(i)) => LockInv'
  BY DEF LockInv, Expire, locals, lock
<1>2. (Crash => LockInv') /\ (StartFails => LockInv')
  BY DEF LockInv, Crash, StartFails, Idle
<1>3. Start => LockInv'
  BY DEF LockInv, ActorInv, Start, Entry, lock
<1>4. Synced => LockInv'
  BY DEF LockInv, HoldInv, OpAt, Synced, Finish, Closed, Entry
<1>5. Started => LockInv'
  BY DEF LockInv, HoldInv, OpAt, Started, Finish, Closed
<1>6. \A r \in Requests : Request(r[1], r[2]) => LockInv'
  BY RequestParts DEF LockInv, HoldInv, OpAt, Request, Entry, lock
<1>7. \A g \in Listers : ListExpired(g) => LockInv'
  BY DEF LockInv, ActorInv, ListExpired, Entry, lock
<1>8. \A g \in Goroutines : Return(g) => LockInv'
  BY DEF LockInv, HoldInv, OpAt, Return, Finish, Closed
<1>9. \A g \in Goroutines : RLock(g) => LockInv'
  BY DEF LockInv, HoldInv, OpAt, RLock, locals
<1>10. \A g \in Goroutines : Borrow(g) => LockInv'
  <2> SUFFICES ASSUME NEW g \in Goroutines, Borrow(g) PROVE LockInv'
    OBVIOUS
  <2>1. Task(g) \notin {"idle", "rlock", "queued", "locking", "lock"}
    BY DEF Task
  <2>2. /\ op[g] # None /\ pc[g] = "want"
        /\ Task(g) = "write" => g = Main /\ writer = "writing"
        /\ g = Main /\ writer = "writing" => Task(g) = "write"
    BY DEF Borrow, LockInv, HoldInv, HeldAt, OpAt, Task
  <2>3. /\ op' = op /\ pc' = [pc EXCEPT ![g] = Task(g)]
        /\ held' = [held EXCEPT ![g] = @ + 1]
        /\ readers' = readers /\ writer' = writer
    BY DEF Borrow, locals, lock
  <2> QED BY <2>1, <2>2, <2>3 DEF LockInv
<1>11. \A g \in Goroutines : List(g) => LockInv'
  BY DEF LockInv, HoldInv, OpAt, List, lock
<1>12. \A g \in Goroutines : ReadNext(g) => LockInv'
  BY DEF LockInv, HoldInv, OpAt, ReadNext, ReadWith, lock
<1>13. \A g \in Goroutines : Read(g) => LockInv'
  BY DEF LockInv, HoldInv, OpAt, Read, CloseOne, lock
<1>14. \A g \in Goroutines : (ReadFails(g) => LockInv') /\ (Use(g) => LockInv')
  BY DEF LockInv, HoldInv, OpAt, ReadFails, Use, CloseOne, locals, lock
<1>15. (Announce => LockInv') /\ (Lock => LockInv')
  BY DEF LockInv, LockFree, HoldInv, HeldAt, OpAt, Announce, Lock, locals
<1>16. Write => LockInv'
  <2> SUFFICES ASSUME Write PROVE LockInv'
    OBVIOUS
  <2>1. PICK o \in Outcomes :
          pc' = [g \in Goroutines |-> IF g = Main THEN AfterWrite(o)
                                     ELSE IF g \in Admitted THEN "want" ELSE pc[g]]
    BY DEF Write
  <2>2. AfterWrite(o) \in {"ok", "err", "next"}
    BY DEF AfterWrite
  <2>3. op' = op /\ readers' = Admitted /\ writer' = "free"
    BY DEF Write, locals
  <2>4. op[Main] \in Locking \cup {"ClearByType"} /\ readers = {}
    BY DEF Write, LockInv, HoldInv, OpAt
  <2>5. \A g \in Goroutines : pc'[g] # "queued"
    BY <2>1, <2>2 DEF Admitted
  <2>6. readers' = {g \in Goroutines : op'[g] \in RLocking
                                     /\ pc'[g] \notin {"idle", "rlock", "queued"}}
    BY <2>1, <2>2, <2>3, <2>4 DEF Admitted, LockInv, HoldInv, OpAt
  <2> QED BY <2>1, <2>2, <2>3, <2>4, <2>5, <2>6 DEF LockInv
<1>17. UNCHANGED vars => LockInv'
  BY DEF LockInv, vars, locals, lock
<1> QED BY <1>1, <1>2, <1>3, <1>4, <1>5, <1>6, <1>7, <1>8, <1>9, <1>10, <1>11, <1>12,
           <1>13, <1>14, <1>15, <1>16, <1>17, Steps

(* A listing stays exact: nothing is removed while the lister has the lock *)
(* for reading, and what was late stays late.                              *)
LEMMA ListingNext == IInv /\ [Next]_vars => (FreshInv /\ ListingExact)'
<1> DEFINE L(x) ==
      /\ asOf[x] \subseteq late
      /\ pc[x] \in {"idle", "rlock", "queued", "list"} \/ (pc[x] = "want" /\ held[x] = 0) =>
           found[x] = {}
      /\ ListingExpired(x) => /\ todo[x] \subseteq cached
                              /\ found[x] \subseteq cached \cap late
                              /\ cached \cap asOf[x] \subseteq todo[x] \cup found[x]
           Good == FreshInv /\ ListingExact
<1> SUFFICES ASSUME TypeOK, ActorInv, HoldInv, LockInv, FreshInv, ListingExact
             PROVE  [Next]_vars => Good'
  BY DEF IInv
<1>0. Good' <=> \A x \in Listers : L(x)'
  BY DEF FreshInv, ListingExact
<1>a. \A x \in Listers :
        /\ pc'[x] = pc[x] /\ op'[x] = op[x] /\ held'[x] = held[x] /\ todo'[x] = todo[x]
        /\ found'[x] = found[x] /\ asOf'[x] = asOf[x] /\ cached' = cached /\ late \subseteq late'
        => L(x)'
  BY DEF FreshInv, ListingExact, ListingExpired
<1>b. ASSUME NEW g \in Goroutines, cached' = cached, late' = late,
             \A x \in Goroutines \ {g} :
               /\ pc'[x] = pc[x] /\ op'[x] = op[x] /\ held'[x] = held[x] /\ todo'[x] = todo[x]
               /\ found'[x] = found[x] /\ asOf'[x] = asOf[x],
             g \in Listers => L(g)'
      PROVE  Good'
  BY <1>0, <1>a, <1>b
<1> HIDE DEF L, Good
<1>c. Good' <=> FreshInv' /\ ListingExact'
  BY DEF Good
<1> USE GoroutinesAssumption, NoneAssumption DEF TypeOK
<1>1. (\E i \in Ids : Expire(i)) => Good'
  BY <1>0, <1>a DEF Expire, locals
<1>2. (Crash => Good') /\ (StartFails => Good')
  BY <1>0 DEF Crash, StartFails, Idle, L, ListingExpired
<1>3. Start => Good'
  BY <1>b DEF Start
<1>4. (Synced => Good') /\ (Started => Good')
  BY <1>b DEF Synced, Started, Finish, Closed, data
<1>6. \A r \in Requests : Request(r[1], r[2]) => Good'
  BY <1>b DEF Request, data
<1>7. \A g \in Listers : ListExpired(g) => Good'
  <2> SUFFICES ASSUME NEW g \in Listers, ListExpired(g) PROVE Good'
    OBVIOUS
  <2>1. L(g)'
    BY DEF ListExpired, Entry, L, ListingExpired, FreshInv, data
  <2> QED BY <2>1, <1>b DEF ListExpired, data
<1>8. \A g \in Goroutines : Return(g) => Good'
  <2> SUFFICES ASSUME NEW g \in Goroutines, Return(g) PROVE Good'
    OBVIOUS
  <2>1. g \in Listers => L(g)'
    BY DEF Return, Finish, Closed, data, L, FreshInv, ListingExact, ListingExpired
  <2> QED BY <2>1, <1>b DEF Return, Finish, Closed, data
<1>9. \A g \in Goroutines : RLock(g) => Good'
  <2> SUFFICES ASSUME NEW g \in Goroutines, RLock(g) PROVE Good'
    OBVIOUS
  <2>1. g \in Listers => L(g)'
    BY DEF RLock, data, locals, HoldInv, HeldAt, L, FreshInv, ListingExact, ListingExpired
  <2> QED BY <2>1, <1>b DEF RLock, data, locals
<1>10. \A g \in Goroutines : Borrow(g) => Good'
  <2> SUFFICES ASSUME NEW g \in Goroutines, Borrow(g) PROVE Good'
    OBVIOUS
  <2>1. g \in Listers => L(g)'
    BY DEF Borrow, Task, data, locals, HoldInv, HeldAt, OpAt, L, FreshInv, ListingExact, ListingExpired
  <2> QED BY <2>1, <1>b DEF Borrow, data, locals
<1>11. \A g \in Goroutines : List(g) => Good'
  <2> SUFFICES ASSUME NEW g \in Goroutines, List(g) PROVE Good'
    OBVIOUS
  <2>1. g \in Listers => L(g)'
    BY DEF List, data, L, FreshInv, ListingExact, ListingExpired
  <2> QED BY <2>1, <1>b DEF List, data
<1>12. \A g \in Goroutines : ReadNext(g) => Good'
  <2> SUFFICES ASSUME NEW g \in Goroutines, ReadNext(g) PROVE Good'
    OBVIOUS
  <2>1. g \in Listers => L(g)'
    BY DEF ReadNext, ReadWith, data, HoldInv, HeldAt, L, FreshInv, ListingExact, ListingExpired
  <2> QED BY <2>1, <1>b DEF ReadNext, data
<1>13. \A g \in Goroutines : Read(g) => Good'
  <2> SUFFICES ASSUME NEW g \in Goroutines, Read(g) PROVE Good'
    OBVIOUS
  <2>1. g \in Listers => L(g)'
    BY DEF Read, Collects, CloseOne, HoldInv, HeldAt, OpAt, ActorInv, L, FreshInv, ListingExact,
           ListingExpired
  <2> QED BY <2>1, <1>b DEF Read, CloseOne
<1>14. \A g \in Goroutines : ReadFails(g) => Good'
  <2> SUFFICES ASSUME NEW g \in Goroutines, ReadFails(g) PROVE Good'
    OBVIOUS
  <2>1. g \in Listers => L(g)'
    BY DEF ReadFails, CloseOne, data, locals, L, FreshInv, ListingExact, ListingExpired
  <2> QED BY <2>1, <1>b DEF ReadFails, CloseOne, data, locals
<1>15. \A g \in Goroutines : Use(g) => Good'
  <2> SUFFICES ASSUME NEW g \in Goroutines, Use(g) PROVE Good'
    OBVIOUS
  <2>1. g \in Listers => L(g)'
    BY DEF Use, CloseOne, data, locals, HoldInv, OpAt, ActorInv, L, FreshInv, ListingExact, ListingExpired
  <2> QED BY <2>1, <1>b DEF Use, CloseOne, data, locals
<1>16. (Announce => Good') /\ (Lock => Good')
  BY <1>b DEF Announce, Lock, data, locals
<1>17. Write => Good'
  <2> SUFFICES ASSUME Write PROVE Good'
    OBVIOUS
  <2>1. readers = {}
    BY DEF Write, LockInv
  <2>2. \A x \in Listers : pc[x] \in {"idle", "rlock", "queued"}
    BY <2>1 DEF LockInv, HoldInv, OpAt, ActorInv
  <2> SUFFICES ASSUME NEW x \in Listers PROVE L(x)'
    BY <1>0
  <2>3. /\ pc'[x] \in {"idle", "rlock", "queued", "want"} /\ held'[x] = 0
        /\ found'[x] = {} /\ asOf'[x] \subseteq late'
    BY <2>2 DEF Write, Admitted, CloseOne, locals, HoldInv, HeldAt, FreshInv
  <2> QED BY <2>3 DEF L, ListingExpired
<1>18. UNCHANGED vars => Good'
  BY <1>0, <1>a DEF vars, data, locals
<1> QED BY <1>c, <1>1, <1>2, <1>3, <1>4, <1>6, <1>7, <1>8, <1>9, <1>10, <1>11, <1>12,
           <1>13, <1>14, <1>15, <1>16, <1>17, <1>18, Steps

(***************************************************************************)
(* The invariants                                                          *)
(***************************************************************************)

(* IInv holds in every reachable state.                                    *)
THEOREM Invariance == Safety => []IInv
<1>1. Init => IInv
  BY TypeInit, NoneAssumption, GoroutinesAssumption
     DEF Init, IInv, ActorInv, HoldInv, HeldAt, OpAt, LockInv, FreshInv, ListingExact,
         ListingExpired
<1>2. IInv /\ [Next]_vars => IInv'
  BY TypeNext, ActorNext, HoldNext, LockNext, ListingNext DEF IInv
<1> QED BY <1>1, <1>2, PTL DEF Safety

(* No goroutine ever holds more than two connections, and every variable   *)
(* keeps its type.                                                         *)
THEOREM TypeCorrect == Safety => []TypeOK
<1>1. IInv => TypeOK
  BY DEF IInv
<1> QED BY <1>1, Invariance, PTL

(* The list of expired reservations GetExpired returns is that of one      *)
(* moment, however Add, Remove and other listings come in between.         *)
THEOREM ListingsAreExact == Safety => []ListingExact
<1>1. IInv => ListingExact
  BY DEF IInv
<1> QED BY <1>1, Invariance, PTL

(* With fewer goroutines than connections they never all wait for each     *)
(* other (the pool has three connections, the program two goroutines that  *)
(* use it): if every connection is lent, one goroutine holds two, and who  *)
(* holds two waits for nothing.                                            *)
THEOREM NeverDeadlocked ==
  ASSUME Cardinality(Listers) + 1 < MaxActive PROVE Safety => []NoDeadlock
<1>1. IInv => NoDeadlock
  <2> SUFFICES ASSUME IInv, NEW h \in Goroutines, pc[h] # "idle",
                      \A g \in Goroutines : pc[g] # "idle" => Blocked(g)
               PROVE  FALSE
    BY DEF NoDeadlock
  <2>1. IsFiniteSet(Goroutines) /\ Cardinality(Goroutines) = Cardinality(Listers) + 1
    BY GoroutinesAssumption, FS_AddElement
  <2>2. FreeConnection
    <3> SUFFICES ASSUME ~FreeConnection PROVE FALSE
      OBVIOUS
    <3>1. /\ IsFiniteSet(Holders) /\ Cardinality(Holders) <= Cardinality(Goroutines)
          /\ Cardinality(Holders) \in Nat /\ Cardinality(Goroutines) \in Nat
      BY <2>1, FS_Subset, FS_CardinalityType DEF Holders
    <3>2. IsFiniteSet(TwiceHolders) /\ Cardinality(TwiceHolders) \in Nat
      BY <2>1, FS_Subset, FS_CardinalityType DEF TwiceHolders
    <3>3. Cardinality(TwiceHolders) # 0
      BY <2>1, <3>1, <3>2, PoolAssumption DEF FreeConnection
    <3>4. PICK g \in TwiceHolders : TRUE
      BY <3>2, <3>3, FS_EmptySet
    <3>5. pc[g] \in {"read", "use", "write"}
      BY <3>4 DEF TwiceHolders, IInv, TypeOK, HoldInv, HeldAt
    <3> QED BY <3>4, <3>5 DEF TwiceHolders, Blocked
  <2>3. \A g \in Goroutines : pc[g] \in {"idle", "queued", "locking"}
    BY <2>2 DEF Blocked
  <2>4. readers = {}
    BY <2>3, GoroutinesAssumption DEF IInv, LockInv, HoldInv, OpAt, ActorInv
  <2>5. pc[h] = "queued"
    BY <2>3, <2>4 DEF Blocked
  <2>6. pc[Main] = "locking"
    BY <2>3, <2>5 DEF IInv, TypeOK, LockInv
  <2> QED BY <2>4, <2>6 DEF Blocked
<1> QED BY <1>1, Invariance, PTL

(***************************************************************************)
(* The start                                                               *)
(***************************************************************************)

(* Counting nothing, one more, and one that does not count.                *)
LEMMA CountFacts ==
  ASSUME NEW t, NEW S \in SUBSET Ids
  PROVE  /\ CountOf(t, {}) = 0
         /\ \A i \in Ids \ S : CountOf(t, S \cup {i}) =
                CountOf(t, S) + (IF TypeOf[i] = t THEN 1 ELSE 0)
         /\ \A i : TypeOf[i] # t => CountOf(t, S \ {i}) = CountOf(t, S)
<1>1. CountOf(t, {}) = 0
  <2>1. {i \in {} : TypeOf[i] = t} = {}
    OBVIOUS
  <2> QED BY <2>1, FS_EmptySet DEF CountOf
<1>2. ASSUME NEW i \in Ids \ S
      PROVE  CountOf(t, S \cup {i}) = CountOf(t, S) + (IF TypeOf[i] = t THEN 1 ELSE 0)
  <2> DEFINE T == {j \in S : TypeOf[j] = t}
  <2>1. IsFiniteSet(T) /\ i \notin T
    BY IdsAssumption, FS_Subset
  <2>2. Cardinality(T) \in Nat
    BY <2>1, FS_CardinalityType
  <2>3. CASE TypeOf[i] = t
    <3>1. {j \in S \cup {i} : TypeOf[j] = t} = T \cup {i}
      BY <2>3
    <3> QED BY <2>1, <2>2, <2>3, <3>1, FS_AddElement DEF CountOf
  <2>4. CASE TypeOf[i] # t
    <3>1. {j \in S \cup {i} : TypeOf[j] = t} = T
      BY <2>4
    <3> QED BY <2>2, <2>4, <3>1 DEF CountOf
  <2> QED BY <2>3, <2>4
<1>3. ASSUME NEW i, TypeOf[i] # t PROVE CountOf(t, S \ {i}) = CountOf(t, S)
  <2>1. {j \in S \ {i} : TypeOf[j] = t} = {j \in S : TypeOf[j] = t}
    BY <1>3
  <2> QED BY <2>1 DEF CountOf
<1> QED BY <1>1, <1>2, <1>3

(* What the start has read is readable and counted, and what it has read   *)
(* again in ClearByType is of a type that stays, or about to be removed.   *)
LEMMA StartNext == IInv /\ StartInv /\ [Next]_vars => StartInv'
<1> SUFFICES ASSUME IInv, StartInv PROVE [Next]_vars => StartInv'
  OBVIOUS
<1> USE GoroutinesAssumption, NoneAssumption
<1>0. TypeOK /\ ActorInv /\ HoldInv /\ LockInv
  BY DEF IInv
<1>1. (\E i \in Ids : Expire(i)) => StartInv'
  BY DEF StartInv, Behind, Reading, Removing, Removed, CountOf, Expire, locals, lock
<1>2. (Crash => StartInv') /\ (StartFails => StartInv') /\ (Started => StartInv')
  BY DEF StartInv, Crash, StartFails, Started
<1>3. Start => StartInv'
  <2> SUFFICES ASSUME Start PROVE StartInv'
    OBVIOUS
  <2>1. phase' = "sync" /\ pc'[Main] = "rlock" /\ cached' = cached
    BY <1>0 DEF Start, Entry, TypeOK
  <2>2. Behind' = cached'
    BY <2>1 DEF Behind
  <2>3. \A t \in CountedTypes : count'[t] = CountOf(t, cached' \ Behind')
    <3>1. cached' \ Behind' = {}
      BY <2>2
    <3> QED BY <3>1, CountFacts DEF Start
  <2> QED BY <2>1, <2>2, <2>3 DEF StartInv, Reading
<1>4. Synced => StartInv'
  <2> SUFFICES ASSUME Synced PROVE StartInv'
    OBVIOUS
  <2>1. /\ phase = "sync" /\ pc[Main] = "ok" /\ todo[Main] = {}
        /\ phase' = "clear" /\ pc'[Main] = "want" /\ held'[Main] = 0
        /\ cached' = cached /\ count' = count /\ writer' # "writing"
    BY <1>0 DEF Synced, Finish, Closed, Entry, data, StartInv, TypeOK, LockInv
  <2>2. Behind = {} /\ Behind' = cached' /\ Removed' = {}
    BY <2>1 DEF Behind, Removed, Removing
  <2>3. \A t \in CountedTypes : count[t] = CountOf(t, cached)
    <3>1. cached \ Behind = cached
      BY <2>2
    <3> QED BY <2>1, <3>1 DEF StartInv
  <2>4. \A t \in CountedTypes : count'[t] = CountOf(t, cached')
    BY <2>1, <2>3
  <2> QED BY <2>1, <2>2, <2>4 DEF StartInv, Reading
<1>6. \A r \in Requests : Request(r[1], r[2]) => StartInv'
  BY DEF Request, StartInv
<1>7. \A g \in Listers : ListExpired(g) => StartInv'
  BY DEF ListExpired, StartInv
<1>8. \A g \in Goroutines : Return(g) => StartInv'
  BY DEF Return, StartInv
(* From here on only the main goroutine moves before the gateway serves.   *)
<1>a. ASSUME NEW g \in Goroutines, pc[g] # "idle", phase \in {"sync", "clear"}
      PROVE  g = Main
  BY <1>a, <1>0 DEF ActorInv
<1>b. ASSUME phase' = phase, phase \notin {"sync", "clear"} PROVE StartInv'
  BY <1>b DEF StartInv
(* ... and a step that leaves the cache and the counters alone need only   *)
(* keep what is behind.                                                    *)
<1>c. ASSUME phase' = phase, cached' = cached, count' = count,
             Behind' = Behind, Removed' = Removed, pc[Main] # "err",
             pc'[Main] = "ok" => todo'[Main] = {},
             Reading' => id'[Main] \in todo'[Main]
      PROVE  StartInv'
  BY <1>c DEF StartInv, CountOf
<1>d. ASSUME phase' = phase, cached' = cached, count' = count,
             Removed' = {}, pc'[Main] = "err"
      PROVE  StartInv'
  BY <1>d DEF StartInv, CountOf, Reading
<1>9. \A g \in Goroutines : RLock(g) => StartInv'
  <2> SUFFICES ASSUME NEW g \in Goroutines, RLock(g), phase \in {"sync", "clear"}
               PROVE  StartInv'
    BY <1>b DEF RLock
  <2>1. g = Main
    BY <1>a DEF RLock
  <2>2. writer # "writing" /\ pc[Main] = "rlock" /\ held[Main] = 0
        /\ pc'[Main] \in {"want", "queued"}
    BY <1>0, <2>1 DEF RLock, LockInv, HoldInv, HeldAt, TypeOK
  <2>3. Behind' = Behind /\ Removed' = Removed
    BY <2>2 DEF Behind, Removed, Removing, RLock, data, locals
  <2>4. ~Reading'
    BY <2>2 DEF Reading, RLock
  <2> QED BY <2>2, <2>3, <2>4, <1>c DEF RLock, data
<1>10. \A g \in Goroutines : Borrow(g) => StartInv'
  <2> SUFFICES ASSUME NEW g \in Goroutines, Borrow(g), phase \in {"sync", "clear"}
               PROVE  StartInv'
    BY <1>b DEF Borrow
  <2>1. g = Main
    BY <1>a DEF Borrow
  <2>2. /\ pc[Main] = "want" /\ op[Main] \in {"Sync", "ClearByType"}
        /\ held[Main] \in {0, 1} /\ pc'[Main] = Task(Main)
        /\ writer = "writing" => held[Main] = 1
    BY <1>0, <2>1 DEF Borrow, ActorInv, LockInv, HoldInv, HeldAt, TypeOK
  <2>3. /\ held[Main] = 0 => pc'[Main] = "list"
        /\ held[Main] = 1 => pc'[Main] = IF writer = "writing" THEN "write" ELSE "read"
    BY <2>2 DEF Task
  <2>4. Behind' = Behind /\ Removed' = Removed
    BY <2>2, <2>3 DEF Behind, Removed, Removing, Borrow, data, locals, lock
  <2>5. Reading' => Reading
    BY <2>2, <2>3 DEF Reading, Borrow, lock
  <2>6. Reading => id[Main] \in todo[Main]
    BY DEF StartInv
  <2> QED BY <2>2, <2>3, <2>4, <2>5, <2>6, <1>c DEF Borrow, data, locals
<1>11. \A g \in Goroutines : List(g) => StartInv'
  <2> SUFFICES ASSUME NEW g \in Goroutines, List(g), phase \in {"sync", "clear"}
               PROVE  StartInv'
    BY <1>b DEF List
  <2>1. g = Main
    BY <1>a DEF List
  <2>2. /\ writer # "writing" /\ writer' = writer /\ pc[Main] = "list"
        /\ pc'[Main] \in {"next", "err"}
    BY <1>0, <2>1 DEF List, LockInv, TypeOK, lock
  <2>3. Removed = {} /\ Removed' = {}
    BY <2>2 DEF Removed, Removing
  <2>4. pc'[Main] = "next" => Behind' = Behind
    BY <1>0, <2>1, <2>2 DEF Behind, List, TypeOK
  <2>5. ~Reading'
    BY <2>2 DEF Reading
  <2> QED BY <2>2, <2>3, <2>4, <2>5, <1>c, <1>d DEF List, data
<1>12. \A g \in Goroutines : ReadNext(g) => StartInv'
  <2> SUFFICES ASSUME NEW g \in Goroutines, ReadNext(g), phase \in {"sync", "clear"}
               PROVE  StartInv'
    BY <1>b DEF ReadNext
  <2>1. g = Main
    BY <1>a DEF ReadNext
  <2>2. /\ writer # "writing" /\ writer' = writer /\ pc[Main] = "next"
        /\ held[Main] = 1 /\ held' = held /\ todo' = todo
        /\ pc'[Main] \in {"ok", "want"} /\ (pc'[Main] = "ok" => todo[Main] = {})
    BY <1>0, <2>1 DEF ReadNext, ReadWith, LockInv, HoldInv, HeldAt, TypeOK, lock
  <2>3. Removed = {} /\ Removed' = {} /\ Behind' = Behind
    BY <2>2 DEF Removed, Removing, Behind
  <2>4. pc'[Main] = "want" => id'[Main] \in todo'[Main]
    BY <1>0, <2>1, <2>2 DEF ReadNext, ReadWith, TypeOK
  <2> QED BY <2>2, <2>3, <2>4, <1>c DEF ReadNext, data, Reading
<1>13. \A g \in Goroutines : Read(g) => StartInv'
  <2> SUFFICES ASSUME NEW g \in Goroutines, Read(g), phase \in {"sync", "clear"}
               PROVE  StartInv'
    BY <1>b DEF Read
  <2>1. g = Main
    BY <1>a DEF Read
  <2> DEFINE i == id[Main]
  <2>2. /\ writer # "writing" /\ writer' = writer /\ pc[Main] = "read"
        /\ i \in cached \ Unreadable /\ id' = id /\ cached' = cached
        /\ todo'[Main] = todo[Main] \ {i} /\ cached \subseteq Ids
        /\ phase' = phase
    BY <1>0, <2>1 DEF Read, LockInv, TypeOK, lock
  <2>3. Removed = {} /\ Behind = todo[Main]
    BY <2>2 DEF Removed, Removing, Behind
  <2>4. CASE phase = "sync"
    <3>1. /\ op[Main] = "Sync" /\ pc'[Main] = "next" /\ count' = Counted(i)
          /\ Behind' = Behind \ {i}
      BY <1>0, <2>1, <2>2, <2>3, <2>4 DEF Read, ActorInv, TypeOK, Behind
    <3>2. Behind \subseteq cached
          /\ \A t \in CountedTypes : count[t] = CountOf(t, cached \ Behind)
      BY <2>2, <2>4 DEF StartInv
    <3>3. \A t \in CountedTypes : count'[t] = CountOf(t, cached' \ Behind')
      <4>1. CASE i \in Behind
        <5>1. cached' \ Behind' = (cached \ Behind) \cup {i}
          BY <2>2, <3>1, <4>1
        <5>2. ASSUME NEW t \in CountedTypes
              PROVE  count'[t] = count[t] + (IF TypeOf[i] = t THEN 1 ELSE 0)
          BY <1>0, <3>1 DEF Counted, TypeOK
        <5>3. cached \ Behind \in SUBSET Ids /\ i \in Ids \ (cached \ Behind)
          BY <2>2, <4>1
        <5>4. ASSUME NEW t \in CountedTypes
              PROVE  CountOf(t, (cached \ Behind) \cup {i}) =
                       CountOf(t, cached \ Behind) + (IF TypeOf[i] = t THEN 1 ELSE 0)
          BY <5>3, CountFacts
        <5> HIDE DEF i
        <5> QED BY <3>2, <5>1, <5>2, <5>4
      <4>2. i \in Behind
        BY <2>2, <2>3 DEF StartInv, Reading
      <4> QED BY <4>1, <4>2
    <3> QED BY <2>2, <2>3, <2>4, <3>1, <3>2, <3>3 DEF StartInv, Reading
  <2>5. CASE phase = "clear"
    <3>1. /\ op[Main] = "ClearByType" /\ count' = count
          /\ pc'[Main] = IF Clears(i) THEN "lock" ELSE "next"
          /\ Behind' = Behind \ {i}
      BY <1>0, <2>1, <2>2, <2>3, <2>5 DEF Read, ActorInv, TypeOK, Behind
    <3>2. Removed' = IF Clears(i) THEN {i} ELSE {}
      BY <2>2, <3>1 DEF Removed, Removing
    <3> QED BY <2>2, <2>3, <2>5, <3>1, <3>2 DEF StartInv, Clears, CountOf, Reading
  <2> QED BY <2>4, <2>5
<1>14. \A g \in Goroutines : ReadFails(g) => StartInv'
  <2> SUFFICES ASSUME NEW g \in Goroutines, ReadFails(g), phase \in {"sync", "clear"}
               PROVE  StartInv'
    BY <1>b DEF ReadFails
  <2>1. g = Main
    BY <1>a DEF ReadFails
  <2>2. writer' # "writing" /\ pc'[Main] = "err"
    BY <1>0, <2>1 DEF ReadFails, LockInv, TypeOK, lock
  <2>3. Removed' = {}
    BY <2>2 DEF Removed, Removing
  <2> QED BY <2>2, <2>3, <1>d DEF ReadFails, data
<1>15. \A g \in Goroutines : Use(g) => StartInv'
  <2> SUFFICES ASSUME NEW g \in Goroutines, Use(g), phase \in {"sync", "clear"}
               PROVE  StartInv'
    BY <1>b DEF Use
  <2> QED BY <1>a, <1>0 DEF Use, ActorInv, HoldInv, OpAt
<1>16. (Announce => StartInv') /\ (Lock => StartInv')
  <2> SUFFICES ASSUME Announce \/ Lock, phase \in {"sync", "clear"} PROVE StartInv'
    BY <1>b DEF Announce, Lock
  <2>1. /\ op[Main] = "ClearByType" /\ held[Main] = 1
        /\ pc'[Main] \in {"locking", "want"} /\ pc[Main] \in {"lock", "locking"}
        /\ pc'[Main] = "want" => writer' = "writing"
    BY <1>0 DEF Announce, Lock, ActorInv, HoldInv, HeldAt, OpAt, TypeOK
  <2>2. Behind' = Behind /\ Removed' = Removed
    BY <2>1 DEF Announce, Lock, Behind, Removed, Removing, locals
  <2>3. ~Reading'
    BY <2>1 DEF Reading
  <2> QED BY <2>1, <2>2, <2>3, <1>c DEF Announce, Lock, data
<1>17. Write => StartInv'
  <2> SUFFICES ASSUME Write, phase \in {"sync", "clear"} PROVE StartInv'
    BY <1>b DEF Write
  <2> DEFINE i == id[Main]
  <2>1. /\ op[Main] = "ClearByType" /\ phase = "clear" /\ phase' = phase
        /\ count' = count /\ todo' = todo /\ writer' = "free"
        /\ pc[Main] = "write" /\ held'[Main] = 1
    BY <1>0 DEF Write, ActorInv, HoldInv, HeldAt, OpAt, CloseOne, locals, TypeOK
  <2>2. /\ cached' \in {cached, cached \ {i}}
        /\ pc'[Main] \in {"err", "next"}
        /\ pc'[Main] = "next" => cached' = cached \ {i}
    BY <2>1 DEF Write, AfterWrite, Stored
  <2>3. Removed = {i} /\ Removed' = {} /\ Behind = todo[Main] /\ Behind' = todo[Main]
    BY <2>1, <2>2 DEF Removed, Removing, Behind
  <2>4. TypeOf[i] \in ClearedTypes
    BY <2>1, <2>3 DEF StartInv
  <2>5. ASSUME NEW t \in CountedTypes PROVE count'[t] = CountOf(t, cached')
    <3>1. TypeOf[i] # t
      BY <2>4, TypesAssumption
    <3>2. CountOf(t, cached') = CountOf(t, cached)
      BY <1>0, <2>2, <3>1, CountFacts DEF TypeOK
    <3> QED BY <2>1, <3>2 DEF StartInv
  <2> QED BY <2>1, <2>2, <2>3, <2>5 DEF StartInv, Reading
<1>18. UNCHANGED vars => StartInv'
  BY DEF StartInv, Behind, Reading, Removing, Removed, CountOf, vars, data, locals, lock
<1> QED BY <1>1, <1>2, <1>3, <1>4, <1>6, <1>7, <1>8, <1>9, <1>10, <1>11, <1>12, <1>13,
           <1>14, <1>15, <1>16, <1>17, <1>18, Steps

(* IInv and StartInv hold in every reachable state.                        *)
THEOREM StartInvariance == Safety => [](IInv /\ StartInv)
<1>1. Init => StartInv
  BY DEF Init, StartInv
<1> QED BY <1>1, StartNext, Invariance, PTL DEF Safety

(* The gateway begins to serve in one step only.                           *)
LEMMA OnlyStarted == [Next]_vars /\ phase' = "serving" /\ phase # "serving" => Started
<1> DEFINE P == phase' = "serving" /\ phase # "serving" => Started
<1>1. (\E i \in Ids : Expire(i)) => P
  BY DEF Expire
<1>2. (Crash => P) /\ (Start => P) /\ (StartFails => P) /\ (Synced => P) /\ (Started => P)
  BY DEF Crash, Start, StartFails, Synced
<1>3. (\A r \in Requests : Request(r[1], r[2]) => P) /\ (\A g \in Listers : ListExpired(g) => P)
  BY DEF Request, ListExpired
<1>4. \A g \in Goroutines :
        /\ Return(g) => P
        /\ RLock(g) => P
        /\ Borrow(g) => P
        /\ List(g) => P
        /\ ReadNext(g) => P
        /\ Read(g) => P
        /\ ReadFails(g) => P
        /\ Use(g) => P
  BY DEF Return, RLock, Borrow, List, ReadNext, Read, ReadFails, Use
<1>5. (Announce => P) /\ (Lock => P) /\ (Write => P) /\ (UNCHANGED vars => P)
  BY DEF Announce, Lock, Write, vars
<1> HIDE DEF P
<1>6. [Next]_vars => P
  BY <1>1, <1>2, <1>3, <1>4, <1>5, Steps
<1> QED BY <1>6 DEF P

(* The gateway serves only with a cache from which the types that do not   *)
(* survive a restart are gone, and that it can read, however often it      *)
(* stopped while ClearByType went through it.                              *)
THEOREM ServesCleared == Safety => ClearedAtStart
<1>1. ASSUME IInv, StartInv, Started
      PROVE  \A i \in cached' : TypeOf[i] \notin ClearedTypes /\ i \notin Unreadable
  <2>1. cached' = cached /\ pc[Main] = "ok" /\ writer # "writing"
    BY <1>1 DEF Started, Finish, data, IInv, LockInv
  <2>2. Behind = {} /\ Removed = {}
    BY <1>1, <2>1 DEF Behind, Removed, Removing, StartInv, Started
  <2>3. CASE phase = "clear"
    BY <1>1, <2>1, <2>2, <2>3 DEF StartInv
  <2>4. CASE phase = "sync" /\ ClearedTypes = {}
    BY <1>1, <2>1, <2>2, <2>4 DEF StartInv
  <2> QED BY <1>1, <2>3, <2>4 DEF Started
<1>2. IInv /\ StartInv /\ [Next]_vars =>
        [phase' = "serving" /\ phase # "serving" =>
           \A i \in cached' : TypeOf[i] \notin ClearedTypes /\ i \notin Unreadable]_vars
  BY <1>1, OnlyStarted
<1> QED BY <1>2, StartInvariance, PTL DEF Safety, ClearedAtStart

(* It serves with counters that agree with its cache: Sync counts what     *)
(* ClearByType then removes, but these types have no counter.              *)
THEOREM ServesCounted == Safety => CountersInSync
<1>1. ASSUME IInv, StartInv, Started, NEW t \in CountedTypes
      PROVE  count'[t] = Cardinality({i \in cached' : TypeOf[i] = t})
  <2>1. cached' = cached /\ count' = count /\ pc[Main] = "ok"
    BY <1>1 DEF Started, Finish, data
  <2>2. cached \ Behind = cached
    BY <1>1, <2>1 DEF Behind, StartInv, Started
  <2>3. count[t] = CountOf(t, cached)
    BY <1>1, <2>1, <2>2 DEF StartInv, Started
  <2> QED BY <2>1, <2>3 DEF CountOf
<1>2. IInv /\ StartInv /\ [Next]_vars =>
        [phase' = "serving" /\ phase # "serving" =>
           \A t \in CountedTypes :
             count'[t] = Cardinality({i \in cached' : TypeOf[i] = t})]_vars
  BY <1>1, OnlyStarted
<1> QED BY <1>2, StartInvariance, PTL DEF Safety, CountersInSync

(***************************************************************************)
(* The abstract store                                                      *)
(***************************************************************************)

(* Sync has counted what it has read, field by field: nobody else moves.   *)
LEMMA FoundNext == IInv /\ StartInv /\ FoundInv /\ [Next]_vars => FoundInv'
<1> SUFFICES ASSUME IInv, StartInv, FoundInv PROVE [Next]_vars => FoundInv'
  OBVIOUS
<1> USE GoroutinesAssumption, NoneAssumption
<1>0. TypeOK /\ ActorInv /\ HoldInv /\ LockInv
  BY DEF IInv
<1>a. ASSUME NEW g \in Goroutines, pc[g] # "idle", phase = "sync"
      PROVE  g = Main /\ op[g] = "Sync"
  BY <1>a, <1>0 DEF ActorInv
<1>b. ASSUME phase' = phase, op'[Main] = op[Main], found'[Main] = found[Main],
             phase = "sync" => /\ cached' = cached
                               /\ pc'[Main] # "err" => Behind' = Behind /\ pc[Main] # "err"
      PROVE  FoundInv'
  BY <1>b DEF FoundInv
<1>1. (\E i \in Ids : Expire(i)) => FoundInv'
  BY <1>b DEF Expire, Behind, locals
<1>2. (Crash => FoundInv') /\ (StartFails => FoundInv')
  BY DEF FoundInv, Crash, StartFails, Idle
<1>3. Start => FoundInv'
  <2> SUFFICES ASSUME Start PROVE FoundInv'
    OBVIOUS
  <2>1. found'[Main] = {} /\ op'[Main] = "Sync" /\ pc'[Main] = "rlock"
    BY <1>0 DEF Start, Entry, ActorInv, HoldInv, OpAt, FoundInv, TypeOK
  <2> QED BY <2>1 DEF FoundInv, Behind
<1>4. (Synced => FoundInv') /\ (Started => FoundInv')
  BY <1>0 DEF Synced, Started, Finish, FoundInv, TypeOK
<1>6. \A r \in Requests : Request(r[1], r[2]) => FoundInv'
  BY <1>0, RequestParts DEF Request, FoundInv, TypeOK
<1>7. \A g \in Listers : ListExpired(g) => FoundInv'
  BY <1>0, <1>b DEF ListExpired, TypeOK
<1>8. \A g \in Goroutines : Return(g) => FoundInv'
  <2> SUFFICES ASSUME NEW g \in Goroutines, Return(g) PROVE FoundInv'
    OBVIOUS
  <2>1. /\ phase = "serving" /\ phase' = phase
        /\ g = Main => found'[Main] = {}
        /\ g # Main => op'[Main] = op[Main] /\ found'[Main] = found[Main]
    BY <1>0 DEF Return, Finish, TypeOK
  <2> QED BY <2>1 DEF FoundInv
<1>9. \A g \in Goroutines : RLock(g) => FoundInv'
  <2> SUFFICES ASSUME NEW g \in Goroutines, RLock(g) PROVE FoundInv'
    OBVIOUS
  <2>1. phase = "sync" => pc[Main] = "rlock" /\ held[Main] = 0 /\ pc'[Main] \in {"want", "queued"}
    BY <1>0, <1>a DEF RLock, HoldInv, HeldAt, TypeOK
  <2> QED BY <2>1, <1>b DEF RLock, Behind, data, locals
<1>10. \A g \in Goroutines : Borrow(g) => FoundInv'
  <2> SUFFICES ASSUME NEW g \in Goroutines, Borrow(g) PROVE FoundInv'
    OBVIOUS
  <2>1. phase = "sync" =>
          /\ pc[Main] = "want" /\ pc'[Main] = Task(Main) /\ op[Main] = "Sync"
          /\ held[Main] \in {0, 1} /\ held'[Main] = held[Main] + 1
          /\ writer # "writing"
    BY <1>0, <1>a DEF Borrow, HoldInv, HeldAt, LockInv, TypeOK
  <2>2. phase = "sync" => Behind' = Behind
    BY <2>1 DEF Borrow, Behind, Task, locals, data
  <2> QED BY <2>1, <2>2, <1>b DEF Borrow, data, locals
<1>11. \A g \in Goroutines : List(g) => FoundInv'
  <2> SUFFICES ASSUME NEW g \in Goroutines, List(g) PROVE FoundInv'
    OBVIOUS
  <2>1. phase = "sync" =>
          /\ pc[Main] = "list" /\ pc'[Main] \in {"next", "err"}
          /\ pc'[Main] = "next" => todo'[Main] = cached
    BY <1>0, <1>a DEF List, TypeOK
  <2>2. phase = "sync" /\ pc'[Main] # "err" => Behind' = Behind
    BY <2>1 DEF Behind
  <2> QED BY <2>1, <2>2, <1>b DEF List, data
<1>12. \A g \in Goroutines : ReadNext(g) => FoundInv'
  <2> SUFFICES ASSUME NEW g \in Goroutines, ReadNext(g) PROVE FoundInv'
    OBVIOUS
  <2>1. phase = "sync" =>
          /\ pc[Main] = "next" /\ pc'[Main] \in {"ok", "want"} /\ todo' = todo
          /\ held'[Main] = 1
    BY <1>0, <1>a DEF ReadNext, ReadWith, HoldInv, HeldAt, TypeOK
  <2>2. phase = "sync" => Behind' = Behind
    BY <2>1 DEF Behind
  <2> QED BY <2>1, <2>2, <1>b DEF ReadNext, data
<1>13. \A g \in Goroutines : Read(g) => FoundInv'
  <2> SUFFICES ASSUME NEW g \in Goroutines, Read(g) PROVE FoundInv'
    OBVIOUS
  <2>1. CASE phase = "sync"
    <3> DEFINE i == id[Main]
    <3>1. /\ g = Main /\ op[Main] = "Sync" /\ op' = op
          /\ pc[Main] = "read" /\ pc'[Main] = "next" /\ cached' = cached /\ i \in cached
          /\ todo'[Main] = todo[Main] \ {i} /\ found'[Main] = found[Main] \cup {i}
      BY <1>0, <1>a, <2>1 DEF Read, Collects, TypeOK
    <3>2. Behind = todo[Main] /\ Behind' = todo[Main] \ {i}
      BY <3>1 DEF Behind
    <3>3. found'[Main] = cached' \ Behind'
      BY <2>1, <3>1, <3>2 DEF FoundInv
    <3> QED BY <3>1, <3>3 DEF FoundInv
  <2>2. CASE phase # "sync"
    <3>1. phase' = phase /\ op' = op
      BY DEF Read
    <3>2. op[Main] = None => found'[Main] = found[Main]
      BY <1>0 DEF Read, HoldInv, OpAt, TypeOK
    <3> QED BY <2>2, <3>1, <3>2 DEF FoundInv
  <2> QED BY <2>1, <2>2
<1>14. \A g \in Goroutines : ReadFails(g) => FoundInv'
  <2> SUFFICES ASSUME NEW g \in Goroutines, ReadFails(g) PROVE FoundInv'
    OBVIOUS
  <2>1. phase = "sync" => pc'[Main] = "err"
    BY <1>0, <1>a DEF ReadFails, TypeOK
  <2> QED BY <2>1, <1>b DEF ReadFails, data, locals
<1>15. \A g \in Goroutines : Use(g) => FoundInv'
  <2> SUFFICES ASSUME NEW g \in Goroutines, Use(g) PROVE FoundInv'
    OBVIOUS
  <2>1. phase # "sync" /\ phase' = phase /\ op' = op
    BY <1>0, <1>a DEF Use, HoldInv, OpAt
  <2>2. op[Main] = None => found'[Main] = found[Main]
    BY <1>0 DEF Use, HoldInv, OpAt, TypeOK
  <2> QED BY <2>1, <2>2 DEF FoundInv
<1>16. (Announce => FoundInv') /\ (Lock => FoundInv') /\ (Write => FoundInv')
  <2>1. Announce \/ Lock \/ Write => phase # "sync"
    BY <1>0 DEF Announce, Lock, Write, ActorInv, HoldInv, OpAt
  <2> QED BY <2>1, <1>b DEF Announce, Lock, Write, locals
<1>17. UNCHANGED vars => FoundInv'
  BY DEF FoundInv, Behind, vars, data, locals
<1> QED BY <1>1, <1>2, <1>3, <1>4, <1>6, <1>7, <1>8, <1>9, <1>10, <1>11, <1>12, <1>13,
           <1>14, <1>15, <1>16, <1>17, Steps

(* ClearByType goes on from what it has listed.                            *)
LEMMA ClearNext == IInv /\ StartInv /\ ClearInv /\ [Next]_vars => ClearInv'
<1> SUFFICES ASSUME IInv, StartInv, ClearInv PROVE [Next]_vars => ClearInv'
  OBVIOUS
<1> USE GoroutinesAssumption, NoneAssumption
<1>0. TypeOK /\ ActorInv /\ HoldInv /\ LockInv
  BY DEF IInv
<1>a. ASSUME NEW g \in Goroutines, pc[g] # "idle", phase = "clear"
      PROVE  g = Main /\ op[g] = "ClearByType"
  BY <1>a, <1>0 DEF ActorInv
<1>b. ASSUME phase' = phase,
             phase = "clear" => /\ Unlisted' => Unlisted /\ id'[Main] = id[Main]
                                /\ Removing' => Removing /\ id'[Main] = id[Main]
      PROVE  ClearInv'
  BY <1>b DEF ClearInv
<1>1. (\E i \in Ids : Expire(i)) => ClearInv'
  BY DEF Expire, ClearInv, Unlisted, Removing, locals, lock
<1>2. (Crash => ClearInv') /\ (Start => ClearInv') /\ (StartFails => ClearInv') /\ (Started => ClearInv')
  BY DEF ClearInv, Crash, Start, StartFails, Started
<1>4. Synced => ClearInv'
  BY <1>0 DEF Synced, Finish, Entry, ClearInv, Removing, LockInv, TypeOK
<1>6. (\A r \in Requests : Request(r[1], r[2]) => ClearInv')
        /\ (\A g \in Listers : ListExpired(g) => ClearInv')
        /\ (\A g \in Goroutines : Return(g) => ClearInv')
  BY <1>b DEF Request, ListExpired, Return
<1>9. \A g \in Goroutines : (RLock(g) => ClearInv') /\ (Use(g) => ClearInv')
  <2>1. ASSUME NEW g \in Goroutines, RLock(g) \/ Use(g) PROVE phase # "clear" /\ phase' = phase
    BY <1>0, <1>a, <2>1 DEF RLock, Use, HoldInv, OpAt
  <2> QED BY <2>1, <1>b
<1>10. \A g \in Goroutines : Borrow(g) => ClearInv'
  <2> SUFFICES ASSUME NEW g \in Goroutines, Borrow(g), phase = "clear" PROVE ClearInv'
    BY <1>b DEF Borrow
  <2>1. /\ pc[Main] = "want" /\ pc'[Main] = Task(Main) /\ op[Main] = "ClearByType"
        /\ held[Main] \in {0, 1} /\ UNCHANGED <<phase, id, writer>>
    BY <1>0, <1>a DEF Borrow, HoldInv, HeldAt, TypeOK, locals, lock
  <2>2. Unlisted' => Unlisted
    BY <2>1 DEF Unlisted, Task
  <2>3. Removing' => Removing
    BY <2>1 DEF Removing, Task
  <2> QED BY <2>1, <2>2, <2>3, <1>b
<1>11. \A g \in Goroutines : (List(g) => ClearInv') /\ (ReadFails(g) => ClearInv')
  <2> SUFFICES ASSUME NEW g \in Goroutines, List(g) \/ ReadFails(g), phase = "clear" PROVE ClearInv'
    BY <1>b DEF List, ReadFails
  <2>1. /\ pc[Main] \in {"list", "read"} /\ pc'[Main] \in {"next", "err"}
        /\ UNCHANGED <<phase, id, writer>>
    BY <1>0, <1>a DEF List, ReadFails, TypeOK, locals, lock
  <2> QED BY <2>1, <1>b DEF Unlisted, Removing
<1>12. \A g \in Goroutines : ReadNext(g) => ClearInv'
  <2> SUFFICES ASSUME NEW g \in Goroutines, ReadNext(g), phase = "clear" PROVE ClearInv'
    BY <1>b DEF ReadNext
  <2>1. /\ pc[Main] = "next" /\ pc'[Main] \in {"ok", "want"} /\ held'[Main] = 1
        /\ phase' = phase /\ writer' # "writing"
    BY <1>0, <1>a DEF ReadNext, ReadWith, HoldInv, HeldAt, LockInv, TypeOK, lock
  <2> QED BY <2>1, <1>b DEF Unlisted, Removing
<1>13. \A g \in Goroutines : Read(g) => ClearInv'
  <2> SUFFICES ASSUME NEW g \in Goroutines, Read(g), phase = "clear" PROVE ClearInv'
    BY <1>b DEF Read
  <2>1. /\ pc'[Main] \in {"lock", "next"} /\ id'[Main] \in Ids
    BY <1>0, <1>a DEF Read, TypeOK
  <2> QED BY <2>1 DEF ClearInv, Unlisted
<1>15. (Announce => ClearInv') /\ (Lock => ClearInv')
  <2> SUFFICES ASSUME Announce \/ Lock, phase = "clear" PROVE ClearInv'
    BY <1>b DEF Announce, Lock
  <2>1. /\ pc[Main] \in {"lock", "locking"} /\ pc'[Main] \in {"locking", "want"} /\ held'[Main] = 1
        /\ UNCHANGED <<phase, id>>
    BY <1>0, <1>a DEF Announce, Lock, HoldInv, HeldAt, TypeOK, locals
  <2> QED BY <2>1, <1>b DEF Unlisted, Removing
<1>16. Write => ClearInv'
  <2> SUFFICES ASSUME Write PROVE ClearInv'
    OBVIOUS
  <2>1. phase' = phase /\ pc'[Main] \in {"err", "next", "ok"} /\ writer' = "free"
    BY DEF Write, AfterWrite
  <2> QED BY <2>1, <1>b DEF Unlisted, Removing
<1>17. UNCHANGED vars => ClearInv'
  BY DEF ClearInv, Unlisted, Removing, vars, locals, lock
<1> QED BY <1>1, <1>2, <1>4, <1>6, <1>9, <1>10, <1>11, <1>12, <1>13, <1>15, <1>16, <1>17, Steps

(* A reply depends on what its goroutine does, and on the cache.           *)
LEMMA SameReply ==
  ASSUME NEW g \in Goroutines, cached' = cached,
         pc'[g] = pc[g], op'[g] = op[g], id'[g] = id[g], found'[g] = found[g]
  PROVE  ReplyTo(g)' = ReplyTo(g)
BY DEF ReplyTo

(* Every step of the cache is one of the abstract store, or none.          *)
LEMMA StoreStep ==
  IInv /\ FoundInv /\ ClearInv /\ [Next]_vars => [Abstract!Next]_(Abstract!vars)
<1> DEFINE Goal == [Abstract!Next]_(Abstract!vars)
           Moves(g) == \A x \in Goroutines \ {g} :
             pc'[x] = pc[x] /\ op'[x] = op[x] /\ id'[x] = id[x] /\ found'[x] = found[x]
           Kept == cached' = cached /\ late' = late
<1> SUFFICES ASSUME IInv, FoundInv, ClearInv PROVE [Next]_vars => Goal
  OBVIOUS
<1> USE GoroutinesAssumption, NoneAssumption
<1>0. TypeOK /\ ActorInv /\ HoldInv /\ LockInv /\ ListingExact
  BY DEF IInv
<1>r. ASSUME NEW g \in Goroutines, NEW r, ReplyTo(g)' = r,
             \A x \in Goroutines \ {g} : ReplyTo(x)' = ReplyTo(x)
      PROVE  Abstract!Answer(g, r)
  BY <1>r DEF Abstract!Answer, reply
<1>o. ASSUME NEW g \in Goroutines, Moves(g), Kept PROVE Abstract!Answer(g, ReplyTo(g)')
  BY <1>o, <1>r, SameReply
<1>s. ASSUME NEW g \in Goroutines, Moves(g), Kept, ReplyTo(g)' = ReplyTo(g) PROVE Goal
  <2>1. \A x \in Goroutines : ReplyTo(x)' = ReplyTo(x)
    BY <1>s, SameReply
  <2>2. UNCHANGED reply
    BY <2>1 DEF reply
  <2> QED BY <1>s, <2>2 DEF Abstract!vars
<1>n. ASSUME NEW g \in Goroutines, Moves(g), Kept, ReplyTo(g)' = None PROVE Goal
  BY <1>n, <1>o DEF Abstract!Next, Abstract!Over
<1>f. ASSUME NEW g \in Goroutines, Moves(g), Kept, ReplyTo(g)' = <<"error">> PROVE Goal
  BY <1>f, <1>o DEF Abstract!Next, Abstract!Fail
<1>u. ASSUME UNCHANGED <<cached, pc, op, id, found>> PROVE UNCHANGED reply
  <2>1. \A x \in Goroutines : ReplyTo(x)' = ReplyTo(x)
    BY <1>u, SameReply
  <2> QED BY <2>1 DEF reply
<1> HIDE DEF Goal
<1>1. (\E i \in Ids : Expire(i)) => Goal
  <2> SUFFICES ASSUME NEW i \in Ids, Expire(i) PROVE Goal
    OBVIOUS
  <2>1. UNCHANGED <<cached, reply>> /\ late' = late \cup {i}
    BY <1>u DEF Expire, locals
  <2> QED BY <2>1 DEF Goal, Abstract!Next, Abstract!Expire
<1>2. (Crash => Goal) /\ (StartFails => Goal)
  <2> SUFFICES ASSUME Crash \/ StartFails PROVE Goal
    OBVIOUS
  <2>1. Kept /\ \A g \in Goroutines : pc'[g] = "idle" /\ op'[g] = None
    BY DEF Crash, StartFails, Idle, data
  <2>2. \A g \in Goroutines : ReplyTo(g)' = None
    BY <2>1 DEF ReplyTo
  <2>3. reply' = [g \in Goroutines |-> None]
    BY <2>2 DEF reply
  <2> QED BY <2>1, <2>3 DEF Goal, Abstract!Next, Abstract!Crash
<1>3. Start => Goal
  <2> SUFFICES ASSUME Start PROVE Goal
    OBVIOUS
  <2>1. Moves(Main) /\ Kept /\ pc'[Main] = "rlock" /\ op'[Main] = "Sync"
    BY <1>0 DEF Start, Entry, TypeOK
  <2>2. ReplyTo(Main)' = None
    BY <2>1 DEF ReplyTo
  <2> QED BY <2>1, <2>2, <1>n
<1>4. (Synced => Goal) /\ (Started => Goal)
  <2> SUFFICES ASSUME Synced \/ Started PROVE Goal
    OBVIOUS
  <2>1. Moves(Main) /\ Kept /\ pc'[Main] \in {"want", "idle"}
    BY <1>0 DEF Synced, Started, Finish, Entry, data, TypeOK
  <2>2. ReplyTo(Main)' = None
    BY <2>1 DEF ReplyTo
  <2> QED BY <2>1, <2>2, <1>n
<1>6. \A r \in Requests : Request(r[1], r[2]) => Goal
  <2> SUFFICES ASSUME NEW r \in Requests, Request(r[1], r[2]) PROVE Goal
    OBVIOUS
  <2>1. Moves(Main) /\ Kept /\ pc'[Main] \in {"rlock", "lock", "want"}
    BY <1>0, RequestParts DEF Request, data, TypeOK
  <2>2. ReplyTo(Main)' = None
    BY <2>1 DEF ReplyTo
  <2> QED BY <2>1, <2>2, <1>n
<1>7. \A g \in Listers : ListExpired(g) => Goal
  <2> SUFFICES ASSUME NEW g \in Listers, ListExpired(g) PROVE Goal
    OBVIOUS
  <2>1. Moves(g) /\ Kept /\ pc'[g] = "rlock"
    BY <1>0 DEF ListExpired, Entry, data, TypeOK
  <2>2. ReplyTo(g)' = None
    BY <2>1 DEF ReplyTo
  <2> QED BY <2>1, <2>2, <1>n
<1>8. \A g \in Goroutines : Return(g) => Goal
  <2> SUFFICES ASSUME NEW g \in Goroutines, Return(g) PROVE Goal
    OBVIOUS
  <2>1. Moves(g) /\ Kept /\ pc'[g] = "idle"
    BY <1>0 DEF Return, Finish, data, TypeOK
  <2>2. ReplyTo(g)' = None
    BY <2>1 DEF ReplyTo
  <2> QED BY <2>1, <2>2, <1>n
<1>9. \A g \in Goroutines : RLock(g) => Goal
  <2> SUFFICES ASSUME NEW g \in Goroutines, RLock(g) PROVE Goal
    OBVIOUS
  <2>1. Moves(g) /\ Kept /\ pc'[g] \in {"want", "queued"}
    BY <1>0 DEF RLock, data, locals, TypeOK
  <2>2. ReplyTo(g)' = None
    BY <2>1 DEF ReplyTo
  <2> QED BY <2>1, <2>2, <1>n
<1>10. \A g \in Goroutines : Borrow(g) => Goal
  <2> SUFFICES ASSUME NEW g \in Goroutines, Borrow(g) PROVE Goal
    OBVIOUS
  <2>1. Moves(g) /\ Kept /\ pc'[g] \in {"list", "want", "use", "write", "read"}
    BY <1>0 DEF Borrow, Task, data, locals, TypeOK
  <2>2. ReplyTo(g)' = None
    BY <2>1 DEF ReplyTo
  <2> QED BY <2>1, <2>2, <1>n
<1>11. \A g \in Goroutines : List(g) => Goal
  <2> SUFFICES ASSUME NEW g \in Goroutines, List(g) PROVE Goal
    OBVIOUS
  <2>1. /\ Moves(g) /\ Kept /\ pc[g] = "list" /\ op'[g] = op[g] /\ id'[g] = id[g]
        /\ pc'[g] \in {"next", "err"} /\ op[g] # "Manage"
    BY <1>0 DEF List, data, HoldInv, OpAt, TypeOK
  <2>2. CASE pc'[g] = "err"
    <3>1. ReplyTo(g)' = <<"error">>
      BY <2>1, <2>2 DEF ReplyTo
    <3> QED BY <2>1, <3>1, <1>f
  <2>3. CASE pc'[g] = "next" /\ ~(op[g] = "ClearByType" /\ id[g] \in Ids \ cached)
    <3>1. ReplyTo(g)' = None
      BY <2>1, <2>3 DEF ReplyTo
    <3> QED BY <2>1, <3>1, <1>n
  <2>4. CASE op[g] = "ClearByType" /\ id[g] \in Ids \ cached
    <3>1. g = Main
      BY <1>0, <2>4 DEF ActorInv, Operations, Goroutines, Listings
    <3>2. phase = "clear" /\ pc[Main] = "list"
      BY <1>0, <2>1, <2>4, <3>1 DEF ActorInv
    <3>3. id[g] = None
      BY <3>1, <3>2 DEF ClearInv, Unlisted
    <3> QED BY <2>4, <3>3, IdsAssumption
  <2> QED BY <2>1, <2>2, <2>3, <2>4
<1>12. \A g \in Goroutines : ReadNext(g) => Goal
  <2> SUFFICES ASSUME NEW g \in Goroutines, ReadNext(g) PROVE Goal
    OBVIOUS
  <2>1. /\ Moves(g) /\ Kept /\ pc[g] = "next" /\ op'[g] = op[g] /\ found'[g] = found[g]
        /\ pc'[g] \in {"want", "ok"} /\ op[g] \in Listings /\ held[g] = 1
        /\ pc'[g] = "ok" => todo[g] = {}
    BY <1>0 DEF ReadNext, ReadWith, data, HoldInv, HeldAt, OpAt, TypeOK
  <2>2. CASE pc'[g] = "want" \/ op[g] = "ClearByType"
    <3>1. ReplyTo(g)' = None
      BY <2>1, <2>2 DEF ReplyTo
    <3> QED BY <2>1, <3>1, <1>n
  <2>3. CASE pc'[g] = "ok" /\ op[g] = "Sync"
    <3>1. g = Main /\ phase = "sync" /\ Behind = {}
      BY <1>0, <2>1, <2>3 DEF ActorInv, Behind
    <3>2. found[g] = cached
      BY <2>1, <3>1 DEF FoundInv
    <3>3. ReplyTo(g)' = <<"counted", cached>>
      BY <2>1, <2>3, <3>2 DEF ReplyTo
    <3>4. Abstract!Sync(g)
      BY <2>1, <3>3, <1>o DEF Abstract!Sync
    <3> QED BY <3>4 DEF Goal, Abstract!Next
  <2>4. CASE pc'[g] = "ok" /\ op[g] = "GetExpired"
    <3>1. g \in Listers /\ ListingExpired(g)
      BY <1>0, <2>1, <2>4 DEF ActorInv, ListingExpired
    <3>2. found[g] \in SUBSET (cached \cap late)
      BY <1>0, <3>1 DEF ListingExact
    <3>3. ReplyTo(g)' = <<"listed", found[g]>>
      BY <2>1, <2>4 DEF ReplyTo
    <3>4. Abstract!GetExpired(g)
      BY <2>1, <3>2, <3>3, <1>o DEF Abstract!GetExpired
    <3> QED BY <3>4 DEF Goal, Abstract!Next
  <2> QED BY <2>1, <2>2, <2>3, <2>4
<1>13. \A g \in Goroutines : Read(g) => Goal
  <2> SUFFICES ASSUME NEW g \in Goroutines, Read(g) PROVE Goal
    OBVIOUS
  <2>1. /\ Moves(g) /\ Kept /\ pc[g] = "read" /\ op'[g] = op[g] /\ id'[g] = id[g]
        /\ id[g] \in cached /\ id[g] \in Ids
        /\ op[g] = "Get" => pc'[g] = "ok"
        /\ op[g] # "Get" => pc'[g] \in {"lock", "next"}
    BY <1>0 DEF Read, TypeOK
  <2>2. CASE op[g] = "Get"
    <3>1. ReplyTo(g)' = <<"got", id[g]>>
      BY <2>1, <2>2 DEF ReplyTo
    <3>2. Abstract!Get(g, id[g])
      BY <2>1, <3>1, <1>o DEF Abstract!Get
    <3> QED BY <2>1, <3>2 DEF Goal, Abstract!Next
  <2>3. CASE op[g] # "Get"
    <3>1. ReplyTo(g)' = None
      BY <2>1, <2>3 DEF ReplyTo
    <3> QED BY <2>1, <3>1, <1>n
  <2> QED BY <2>2, <2>3
<1>14. \A g \in Goroutines : ReadFails(g) => Goal
  <2> SUFFICES ASSUME NEW g \in Goroutines, ReadFails(g) PROVE Goal
    OBVIOUS
  <2>1. Moves(g) /\ Kept /\ pc'[g] = "err" /\ op'[g] = op[g] /\ op[g] # "Manage"
    BY <1>0 DEF ReadFails, data, locals, HoldInv, OpAt, TypeOK
  <2>2. ReplyTo(g)' = <<"error">>
    BY <2>1 DEF ReplyTo
  <2> QED BY <2>1, <2>2, <1>f
<1>15. \A g \in Goroutines : Use(g) => Goal
  <2> SUFFICES ASSUME NEW g \in Goroutines, Use(g) PROVE Goal
    OBVIOUS
  <2>1. /\ Moves(g) /\ Kept /\ op'[g] = op[g] /\ id'[g] = id[g] /\ op[g] \in {"Exists", "Manage"}
        /\ pc'[g] \in {"ok", "err"}
        /\ pc'[g] = "ok" /\ op[g] = "Exists" => found'[g] = {id[g]} \cap cached
        /\ op[g] = "Exists" => id[g] \in Ids
    BY <1>0 DEF Use, data, HoldInv, OpAt, TypeOK
  <2>2. CASE op[g] = "Manage"
    <3>1. ReplyTo(g)' = None
      BY <2>1, <2>2 DEF ReplyTo
    <3> QED BY <2>1, <3>1, <1>n
  <2>3. CASE op[g] = "Exists" /\ pc'[g] = "err"
    <3>1. ReplyTo(g)' = <<"error">>
      BY <2>1, <2>3 DEF ReplyTo
    <3> QED BY <2>1, <3>1, <1>f
  <2>4. CASE op[g] = "Exists" /\ pc'[g] = "ok"
    <3>1. ReplyTo(g)' = <<IF id[g] \in cached THEN "exists" ELSE "absent", id[g]>>
      BY <2>1, <2>4 DEF ReplyTo
    <3>2. Abstract!Exists(g, id[g])
      BY <2>1, <3>1, <1>o DEF Abstract!Exists
    <3> QED BY <2>1, <2>4, <3>2 DEF Goal, Abstract!Next
  <2> QED BY <2>1, <2>2, <2>3, <2>4
<1>16. (Announce => Goal) /\ (Lock => Goal)
  <2> SUFFICES ASSUME Announce \/ Lock PROVE Goal
    OBVIOUS
  <2>1. Moves(Main) /\ Kept /\ pc'[Main] \in {"locking", "want"}
    BY <1>0 DEF Announce, Lock, data, locals, TypeOK
  <2>2. ReplyTo(Main)' = None
    BY <2>1 DEF ReplyTo
  <2> QED BY <2>1, <2>2, <1>n
<1>17. Write => Goal
  <2> SUFFICES ASSUME Write PROVE Goal
    OBVIOUS
  <2>1. PICK o \in Outcomes :
          /\ cached' = IF o = "refused" THEN cached ELSE Stored
          /\ pc' = [g \in Goroutines |-> IF g = Main THEN AfterWrite(o)
                                         ELSE IF g \in Admitted THEN "want" ELSE pc[g]]
    BY DEF Write
  <2>2. UNCHANGED <<late, op, id, found>> /\ pc'[Main] = AfterWrite(o)
    BY <2>1 DEF Write, locals
  <2>3. op[Main] \in Locking \cup {"ClearByType"} /\ id[Main] \in Ids
    BY <1>0 DEF Write, HoldInv, OpAt, ActorInv, ClearInv, Removing
  <2>4. ASSUME NEW x \in Goroutines \ {Main} PROVE ReplyTo(x)' = ReplyTo(x)
    <3>1. op[x] # "ClearByType" /\ (pc'[x] = pc[x] \/ (pc[x] = "queued" /\ pc'[x] = "want"))
      BY <1>0, <2>1 DEF Admitted, ActorInv
    <3> QED BY <2>2, <3>1 DEF ReplyTo
  <2>5. Abstract!Answer(Main, ReplyTo(Main)')
    BY <2>4, <1>r
  <2>6. CASE o # "done"
    <3>1. ReplyTo(Main)' = <<"error">>
      BY <2>2, <2>3, <2>6 DEF AfterWrite, ReplyTo
    <3>2. CASE o = "refused"
      <4>1. Abstract!Fail(Main)
        BY <2>1, <2>2, <2>5, <3>1, <3>2 DEF Abstract!Fail
      <4> QED BY <4>1 DEF Goal, Abstract!Next
    <3>3. CASE o = "lost"
      <4>1. cached' \in {cached \cup {id[Main]}, cached \ {id[Main]}}
        BY <2>1, <3>3 DEF Stored
      <4>2. Abstract!AnswerLost(Main, id[Main])
        BY <2>1, <2>2, <2>5, <3>1, <3>3, <4>1 DEF Abstract!AnswerLost
      <4> QED BY <2>3, <4>2 DEF Goal, Abstract!Next
    <3> QED BY <2>6, <3>2, <3>3, OutcomesAssumption
  <2>7. CASE o = "done" /\ op[Main] = "Add"
    <3>1. ReplyTo(Main)' = <<"added", id[Main]>> /\ cached' = cached \cup {id[Main]}
      BY <2>1, <2>2, <2>7 DEF AfterWrite, ReplyTo, Stored
    <3>2. Abstract!Add(Main, id[Main])
      BY <2>2, <2>5, <3>1 DEF Abstract!Add
    <3> QED BY <2>3, <3>2 DEF Goal, Abstract!Next
  <2>8. CASE o = "done" /\ op[Main] # "Add"
    <3>1. cached' = cached \ {id[Main]}
      BY <2>1, <2>8 DEF Stored
    <3>2. ReplyTo(Main)' = <<"removed", id[Main]>>
      BY <2>2, <2>3, <2>8, <3>1 DEF AfterWrite, ReplyTo
    <3>3. Abstract!Remove(Main, id[Main])
      BY <2>2, <2>5, <3>1, <3>2 DEF Abstract!Remove
    <3> QED BY <2>3, <3>3 DEF Goal, Abstract!Next
  <2> QED BY <2>6, <2>7, <2>8
<1>18. UNCHANGED vars => Goal
  <2> SUFFICES ASSUME UNCHANGED vars PROVE Goal
    OBVIOUS
  <2>1. UNCHANGED <<cached, late, reply>>
    BY <1>u DEF vars, data, locals
  <2> QED BY <2>1 DEF Goal, Abstract!vars
<1> QED BY <1>1, <1>2, <1>3, <1>4, <1>6, <1>7, <1>8, <1>9, <1>10, <1>11, <1>12, <1>13,
           <1>14, <1>15, <1>16, <1>17, <1>18, Steps

(* cache.Redis implements the abstract store: whatever lists, starts and   *)
(* crashes come in between, each answer tells of one moment of the hash,   *)
(* and only a write that failed may have had an effect nobody was told of. *)
THEOREM StoreIsImplemented == Safety => Store
<1>1. Init => Abstract!Init /\ FoundInv /\ ClearInv
  <2> SUFFICES ASSUME Init PROVE Abstract!Init /\ FoundInv /\ ClearInv
    OBVIOUS
  <2>1. \A g \in Goroutines : ReplyTo(g) = None
    BY DEF Init, ReplyTo
  <2> QED BY <2>1 DEF Init, reply, Abstract!Init, FoundInv, ClearInv
<1>2. IInv /\ StartInv /\ FoundInv /\ ClearInv /\ [Next]_vars => FoundInv' /\ ClearInv'
  BY FoundNext, ClearNext
<1>3. IInv /\ FoundInv /\ ClearInv /\ [Next]_vars => [Abstract!Next]_(Abstract!vars)
  BY StoreStep
<1> QED BY <1>1, <1>2, <1>3, StartInvariance, PTL DEF Safety, Store, Abstract!Spec

=============================================================================
