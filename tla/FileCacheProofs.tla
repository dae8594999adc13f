--------------------------- MODULE FileCacheProofs ---------------------------
(***************************************************************************)
(* Proofs about FileCache, for any actors, reservations and number of      *)
(* crashes and failures: its inductive invariant, and that it implements   *)
(* the abstract store, because answers are given under the lock and what   *)
(* the read lock lets change are files without a reservation in them.      *)
(***************************************************************************)
EXTENDS FileCache, TLAPS

(* The new cache is empty and its lock free (NewFSCache).                  *)
LEMMA InitIInv == Init => IInv
  <1> SUFFICES ASSUME Init PROVE IInv
    OBVIOUS
  <1>1. TypeOK
    BY ActorsAssumption DEF Init, TypeOK, Writing, Reading, Listing, Replies, Points
  <1>2. LockInv /\ ListInv
    BY DEF Init, LockInv, ListInv, Inside
  <1> QED
    BY <1>1, <1>2 DEF IInv

(* Two actors inside the lock, one of them to write: they are the same     *)
(* (sync.RWMutex).                                                         *)
LEMMA OneWriter ==
  ASSUME IInv, NEW a \in Actors, NEW b \in Actors, pc[a] \in Inside, pc[b] \in Inside,
         op[a] \in Writing
  PROVE a = b
  BY ActorsAssumption DEF IInv, TypeOK, LockInv

(* What is read is not being written (sync.RWMutex).                       *)
LEMMA NoReader ==
  ASSUME IInv, NEW a \in Actors, NEW b \in Actors, pc[a] \in Inside, op[a] \in Writing
  PROVE pc[b] # "read"
  <1>1. SUFFICES ASSUME pc[b] = "read" PROVE FALSE
    OBVIOUS
  <1>2. pc[b] \in Inside /\ op[b] \in Listing
    BY <1>1 DEF IInv, LockInv, Inside
  <1>3. a = b
    BY <1>2, OneWriter
  <1> QED
    BY <1>2, <1>3 DEF Listing, Writing

(* Types and the exclusion of writers outlive each step (Fs).              *)
LEMMA NextType == IInv /\ [Next]_vars => TypeOK'
  <1> SUFFICES ASSUME IInv, [Next]_vars PROVE TypeOK'
    OBVIOUS
  <1> USE ActorsAssumption DEF IInv, Inside, Writing, Reading, Listing, Points
  <1>1. ASSUME NEW a \in Actors, Request(a) PROVE TypeOK'
    <2>0. PICK o \in OpsOf(a) : \E id \in Args(o) :
            op' = [op EXCEPT ![a] = o] /\ arg' = [arg EXCEPT ![a] = id]
      BY <1>1 DEF Request
    <2>1. PICK id \in Args(o) : op' = [op EXCEPT ![a] = o] /\ arg' = [arg EXCEPT ![a] = id]
      BY <2>0
    <2>2. o \in Writing \cup Reading /\ id \in Ids \cup {None} /\ (id = None => o \in Listing)
      BY <2>1 DEF OpsOf, Args
    <2>3. UNCHANGED <<file, late, todo, empty, list, asOf, reply, readers, writer, upsets>>
      BY <1>1 DEF Request, lock, listing
    <2>4. pc' = [pc EXCEPT ![a] = "lock"]
      BY <1>1 DEF Request, GoTo
    <2> QED
      BY <2>1, <2>2, <2>3, <2>4 DEF TypeOK
  <1>2. ASSUME NEW a \in Actors, Lock(a) PROVE TypeOK'
    BY <1>2 DEF Lock, LockFree, At, GoTo, TypeOK, call, listing
  <1>3. ASSUME NEW a \in Actors, Unlock(a) PROVE TypeOK'
    BY <1>3 DEF Unlock, At, GoTo, Forget, TypeOK, Replies
  <1>4. ASSUME NEW a \in Actors, Create(a) PROVE TypeOK'
    BY <1>4 DEF Create, At, GoTo, Becomes, Error, Answer, File, Replies, TypeOK, call, listing, lock
  <1>5. ASSUME NEW a \in Actors, WriteFile(a) PROVE TypeOK'
    BY <1>5 DEF WriteFile, At, GoTo, Becomes, Answer, Replies, TypeOK, LockInv, call, listing, lock
  <1>6. ASSUME NEW a \in Actors, WriteFails(a) PROVE TypeOK'
    <2>1. upsets' \in 0 .. MaxUpsets
      BY <1>6 DEF WriteFails, Upset, TypeOK
    <2>2. file' \in [Ids -> {"none", "empty", "cut", "whole"}]
      BY <1>6 DEF WriteFails, Becomes, TypeOK
    <2> QED
      BY <1>6, <2>1, <2>2 DEF WriteFails, At, GoTo, Becomes, Error, Answer, Replies, TypeOK, call, listing, lock
  <1>7. ASSUME NEW a \in Actors, Delete(a) PROVE TypeOK'
    BY <1>7 DEF Delete, At, GoTo, Becomes, Answer, Replies, TypeOK, call, listing, lock
  <1>8. ASSUME NEW a \in Actors, Open(a) PROVE TypeOK'
    BY <1>8 DEF Open, At, GoTo, Error, Answer, Replies, TypeOK, call, listing, lock
  <1>9. ASSUME NEW a \in Actors, Stat(a) PROVE TypeOK'
    BY <1>9 DEF Stat, At, GoTo, Answer, Replies, TypeOK, call, listing, lock
  <1>10. ASSUME NEW a \in Actors, ReadDir(a) PROVE TypeOK'
    BY <1>10 DEF ReadDir, At, GoTo, TypeOK, call, lock
  <1>11. ASSUME NEW a \in Actors, ReadNext(a) PROVE TypeOK'
    BY <1>11 DEF ReadNext, At, GoTo, Error, Answer, Replies, TypeOK, call, lock
  <1>12. ASSUME NEW a \in Actors, DropEmpty(a) PROVE TypeOK'
    BY <1>12 DEF DropEmpty, RemoveEmpty, Becomes, At, GoTo, Error, Answer, Replies, TypeOK, call, listing, lock
  <1>13. ASSUME NEW a \in Actors, Listed(a) PROVE TypeOK'
    BY <1>13 DEF Listed, At, GoTo, Answer, Replies, TypeOK, call, listing, lock
  <1>14. ASSUME NEW a \in Actors, AccessFails(a) PROVE TypeOK'
    BY <1>14 DEF AccessFails, Upset, At, GoTo, Error, Answer, Replies, TypeOK, call, listing, lock
  <1>15. ASSUME NEW id \in Ids, Expire(id) PROVE TypeOK'
    BY <1>15 DEF Expire, TypeOK, call, listing, lock
  <1>16. CASE Crash
    BY <1>16 DEF Crash, Upset, At, Forget, Becomes, Replies, TypeOK
  <1>17. CASE UNCHANGED vars
    BY <1>17 DEF vars, call, listing, lock, TypeOK
  <1> QED
    BY <1>1, <1>2, <1>3, <1>4, <1>5, <1>6, <1>7, <1>8, <1>9, <1>10, <1>11, <1>12, <1>13, <1>14,
      <1>15, <1>16, <1>17 DEF Next, Step, Panics

(* Who is inside has the lock, and what is being written is no whole file  *)
(* yet (Fs).                                                               *)
LEMMA NextLock == IInv /\ [Next]_vars => LockInv'
  <1> SUFFICES ASSUME IInv, [Next]_vars PROVE LockInv'
    OBVIOUS
  <1>0. TypeOK' /\ TypeOK /\ LockInv
    BY NextType DEF IInv
  <1> USE <1>0, ActorsAssumption DEF Inside, Writing, Reading, Listing
  <1>1. ASSUME NEW a \in Actors, Request(a) PROVE LockInv'
    BY <1>1 DEF Request, At, GoTo, TypeOK, LockInv, lock, listing, File
  <1>2. ASSUME NEW a \in Actors, Lock(a) PROVE LockInv'
    BY <1>2 DEF Lock, LockFree, At, GoTo, TypeOK, LockInv, call, listing, File
  <1>3. ASSUME NEW a \in Actors, Unlock(a) PROVE LockInv'
    BY <1>3 DEF Unlock, At, GoTo, Forget, TypeOK, LockInv, File
  <1>4. ASSUME NEW a \in Actors, Create(a) PROVE LockInv'
    BY <1>4, OneWriter DEF Create, At, GoTo, Becomes, Error, Answer, File, TypeOK, LockInv, call, listing, lock
  <1>5. ASSUME NEW a \in Actors, WriteFile(a) PROVE LockInv'
    BY <1>5, OneWriter DEF WriteFile, At, GoTo, Becomes, Answer, TypeOK, LockInv, File, call, listing, lock
  <1>6. ASSUME NEW a \in Actors, WriteFails(a) PROVE LockInv'
    BY <1>6, OneWriter DEF WriteFails, At, GoTo, Becomes, Error, Answer, TypeOK, LockInv, File, call, listing, lock
  <1>7. ASSUME NEW a \in Actors, Delete(a) PROVE LockInv'
    BY <1>7, OneWriter DEF Delete, At, GoTo, Becomes, Answer, TypeOK, LockInv, File, call, listing, lock
  <1>8. ASSUME NEW a \in Actors, Open(a) PROVE LockInv'
    BY <1>8 DEF Open, At, GoTo, Error, Answer, TypeOK, LockInv, File, call, listing, lock
  <1>9. ASSUME NEW a \in Actors, Stat(a) PROVE LockInv'
    BY <1>9 DEF Stat, At, GoTo, Answer, TypeOK, LockInv, File, call, listing, lock
  <1>10. ASSUME NEW a \in Actors, ReadDir(a) PROVE LockInv'
    BY <1>10 DEF ReadDir, At, GoTo, TypeOK, LockInv, File, call, lock
  <1>11. ASSUME NEW a \in Actors, ReadNext(a) PROVE LockInv'
    BY <1>11 DEF ReadNext, At, GoTo, Error, Answer, TypeOK, LockInv, File, call, lock
  <1>12. ASSUME NEW a \in Actors, DropEmpty(a) PROVE LockInv'
    BY <1>12 DEF DropEmpty, RemoveEmpty, Becomes, At, GoTo, Error, Answer, TypeOK, LockInv, File, call, listing, lock
  <1>13. ASSUME NEW a \in Actors, Listed(a) PROVE LockInv'
    BY <1>13 DEF Listed, At, GoTo, Answer, TypeOK, LockInv, File, call, listing, lock
  <1>14. ASSUME NEW a \in Actors, AccessFails(a) PROVE LockInv'
    BY <1>14 DEF AccessFails, At, GoTo, Error, Answer, TypeOK, LockInv, File, call, listing, lock
  <1>15. ASSUME NEW id \in Ids, Expire(id) PROVE LockInv'
    BY <1>15 DEF Expire, TypeOK, LockInv, File, call, listing, lock
  <1>16. CASE Crash
    BY <1>16 DEF Crash, Forget, TypeOK, LockInv
  <1>17. CASE UNCHANGED vars
    BY <1>17 DEF vars, call, listing, lock, TypeOK, LockInv, File
  <1> QED
    BY <1>1, <1>2, <1>3, <1>4, <1>5, <1>6, <1>7, <1>8, <1>9, <1>10, <1>11, <1>12, <1>13, <1>14,
      <1>15, <1>16, <1>17 DEF Next, Step, Panics

(* A listing has whole files only and misses none it has passed: no writer *)
(* comes in between, and what another listing removes was empty (Sync,     *)
(* GetExpired).                                                            *)
LEMMA NextList == IInv /\ [Next]_vars => ListInv'
  <1> SUFFICES ASSUME IInv, [Next]_vars PROVE ListInv'
    OBVIOUS
  <1>0. TypeOK /\ LockInv /\ ListInv
    BY DEF IInv
  <1> USE <1>0, ActorsAssumption DEF Inside, Writing, Reading, Listing, stored
  <1>1. ASSUME NEW a \in Actors, Request(a) PROVE ListInv'
    BY <1>1 DEF Request, At, GoTo, TypeOK, ListInv, listing
  <1>2. ASSUME NEW a \in Actors, Lock(a) PROVE ListInv'
    BY <1>2 DEF Lock, At, GoTo, TypeOK, ListInv, call, listing
  <1>3. ASSUME NEW a \in Actors, Unlock(a) PROVE ListInv'
    BY <1>3 DEF Unlock, At, GoTo, Forget, TypeOK, ListInv
  <1>4. ASSUME NEW a \in Actors, Create(a) PROVE ListInv'
    BY <1>4, NoReader DEF Create, At, GoTo, Error, Answer, TypeOK, ListInv, call, listing
  <1>5. ASSUME NEW a \in Actors, WriteFile(a) PROVE ListInv'
    BY <1>5, NoReader DEF WriteFile, At, GoTo, Answer, TypeOK, LockInv, ListInv, call, listing
  <1>6. ASSUME NEW a \in Actors, WriteFails(a) PROVE ListInv'
    BY <1>6, NoReader DEF WriteFails, At, GoTo, Error, Answer, TypeOK, LockInv, ListInv, call, listing
  <1>7. ASSUME NEW a \in Actors, Delete(a) PROVE ListInv'
    BY <1>7, NoReader DEF Delete, At, GoTo, Answer, TypeOK, ListInv, call, listing
  <1>8. ASSUME NEW a \in Actors, Open(a) PROVE ListInv'
    BY <1>8 DEF Open, At, GoTo, Error, Answer, TypeOK, ListInv, call, listing
  <1>9. ASSUME NEW a \in Actors, Stat(a) PROVE ListInv'
    BY <1>9 DEF Stat, At, GoTo, Answer, TypeOK, ListInv, call, listing
  <1>10. ASSUME NEW a \in Actors, ReadDir(a) PROVE ListInv'
    BY <1>10 DEF ReadDir, At, GoTo, TypeOK, LockInv, ListInv, call
  <1>11. ASSUME NEW a \in Actors, ReadNext(a) PROVE ListInv'
    BY <1>11 DEF ReadNext, Collects, At, GoTo, Error, Answer, TypeOK, ListInv, call
  <1>12. ASSUME NEW a \in Actors, DropEmpty(a) PROVE ListInv'
    BY <1>12 DEF DropEmpty, RemoveEmpty, Becomes, At, GoTo, Error, Answer, TypeOK, ListInv, call, listing
  <1>13. ASSUME NEW a \in Actors, Listed(a) PROVE ListInv'
    BY <1>13 DEF Listed, At, GoTo, Answer, TypeOK, ListInv, call, listing
  <1>14. ASSUME NEW a \in Actors, AccessFails(a) PROVE ListInv'
    BY <1>14 DEF AccessFails, At, GoTo, Error, Answer, TypeOK, ListInv, call, listing
  <1>15. ASSUME NEW id \in Ids, Expire(id) PROVE ListInv'
    BY <1>15 DEF Expire, TypeOK, ListInv, call, listing
  <1>16. CASE Crash
    BY <1>16 DEF Crash, ListInv
  <1>17. CASE UNCHANGED vars
    BY <1>17 DEF vars, call, listing, ListInv
  <1> QED
    BY <1>1, <1>2, <1>3, <1>4, <1>5, <1>6, <1>7, <1>8, <1>9, <1>10, <1>11, <1>12, <1>13, <1>14,
      <1>15, <1>16, <1>17 DEF Next, Step, Panics

(* The inductive invariant: types, the lock, the listings under way.       *)
THEOREM Invariance == Safety => []IInv
  <1>1. IInv /\ [Next]_vars => IInv'
    BY NextType, NextLock, NextList DEF IInv
  <1> QED
    BY InitIInv, <1>1, PTL DEF Safety

(* The type invariant of Fs, its RWMutex included.                         *)
THEOREM TypeCorrect == Safety => []TypeOK
  <1>1. IInv => TypeOK
    BY DEF IInv
  <1> QED
    BY Invariance, <1>1, PTL

(* An access to one file other than a whole one leaves the store alone     *)
(* (Fs).                                                                   *)
LEMMA SameStored ==
  ASSUME TypeOK, NEW id \in Ids, file[id] # "whole",
         NEW condition \in {"none", "empty", "cut"}, Becomes(id, condition)
  PROVE stored' = stored
  BY DEF TypeOK, Becomes, stored

(* Every step of Fs is one of the abstract store, or none                  *)
(* (reservation_cache.go).                                                 *)
LEMMA StoreStep == IInv /\ [Next]_vars => [Abstract!Next]_(Abstract!vars)
  <1> SUFFICES ASSUME IInv, [Next]_vars PROVE Abstract!Next \/ UNCHANGED <<stored, late, reply>>
    BY DEF Abstract!vars
  <1>0. TypeOK /\ LockInv /\ ListInv
    BY DEF IInv
  <1> DEFINE Goal == Abstract!Next \/ UNCHANGED <<stored, late, reply>>
  <1> SUFFICES Goal
    OBVIOUS
  <1>f. ASSUME NEW a \in Actors, Error(a), UNCHANGED <<stored, late>> PROVE Goal
    BY <1>f DEF Error, Answer, Abstract!Next, Abstract!Fail, Abstract!Answer
  <1>s. UNCHANGED file => UNCHANGED stored
    BY DEF stored
  <1> USE <1>0
  <1>1. ASSUME NEW a \in Actors, Request(a) PROVE Goal
    BY <1>1, <1>s DEF Request
  <1>2. ASSUME NEW a \in Actors, Lock(a) PROVE Goal
    BY <1>2, <1>s DEF Lock
  <1>3. ASSUME NEW a \in Actors, Unlock(a) PROVE Goal
    <2>1. reply' = [reply EXCEPT ![a] = None] /\ UNCHANGED <<stored, late>>
      BY <1>3, <1>s DEF Unlock, Forget, TypeOK
    <2> QED
      BY <2>1 DEF Abstract!Next, Abstract!Over, Abstract!Answer
  <1>4. ASSUME NEW a \in Actors, Create(a) PROVE Goal
    <2>1. CASE File(a) = "none"
      <3>1. arg[a] \in Ids
        BY <1>4 DEF Create, TypeOK, Listing
      <3>2. UNCHANGED <<stored, late, reply>>
        BY <1>4, <2>1, <3>1, SameStored DEF Create, File
      <3> QED
        BY <3>2
    <2>2. CASE File(a) # "none"
      BY <1>4, <2>2, <1>f, <1>s DEF Create
    <2> QED
      BY <2>1, <2>2
  <1>5. ASSUME NEW a \in Actors, WriteFile(a) PROVE Goal
    <2>1. arg[a] \in Ids /\ arg[a] \notin stored
      BY <1>5 DEF WriteFile, At, TypeOK, LockInv, Listing, File, stored
    <2>2. stored' = stored \cup {arg[a]}
      BY <1>5, <2>1 DEF WriteFile, Becomes, TypeOK, stored
    <2>3. Abstract!Add(a, arg[a])
      BY <1>5, <2>1, <2>2 DEF WriteFile, Answer, Abstract!Add, Abstract!Answer
    <2> QED
      BY <2>1, <2>3 DEF Abstract!Next
  <1>6. ASSUME NEW a \in Actors, WriteFails(a) PROVE Goal
    <2>1. arg[a] \in Ids /\ file[arg[a]] # "whole"
      BY <1>6 DEF WriteFails, At, TypeOK, LockInv, Listing, File
    <2>2. UNCHANGED <<stored, late>>
      BY <1>6, <2>1, SameStored DEF WriteFails
    <2> QED
      BY <1>6, <2>2, <1>f DEF WriteFails
  <1>7. ASSUME NEW a \in Actors, Delete(a) PROVE Goal
    <2>1. arg[a] \in Ids
      BY <1>7 DEF Delete, TypeOK, Listing
    <2>2. stored' = stored \ {arg[a]}
      BY <1>7, <2>1 DEF Delete, Becomes, TypeOK, stored
    <2>3. Abstract!Remove(a, arg[a])
      BY <1>7, <2>2 DEF Delete, Answer, Abstract!Remove, Abstract!Answer
    <2> QED
      BY <2>1, <2>3 DEF Abstract!Next
  <1>8. ASSUME NEW a \in Actors, Open(a) PROVE Goal
    <2>1. CASE File(a) = "whole"
      <3>1. arg[a] \in Ids
        BY <1>8 DEF Open, TypeOK, Listing
      <3>2. Abstract!Get(a, arg[a])
        BY <1>8, <2>1, <3>1, <1>s DEF Open, File, Answer, stored, Abstract!Get, Abstract!Answer
      <3> QED
        BY <3>1, <3>2 DEF Abstract!Next
    <2>2. CASE File(a) # "whole"
      BY <1>8, <2>2, <1>f, <1>s DEF Open
    <2> QED
      BY <2>1, <2>2
  <1>9. ASSUME NEW a \in Actors, Stat(a) PROVE Goal
    <2>1. arg[a] \in Ids
      BY <1>9 DEF Stat, TypeOK, Listing
    <2>2. CASE File(a) = "none"
      <3>1. Abstract!Exists(a, arg[a])
        BY <1>9, <2>1, <2>2, <1>s DEF Stat, File, Answer, stored, Abstract!Exists, Abstract!Answer
      <3> QED
        BY <2>1, <3>1 DEF Abstract!Next
    <2>3. CASE File(a) # "none"
      <3>1. Abstract!Exists(a, arg[a])
        BY <1>9, <2>3, <1>s DEF Stat, File, Answer, Abstract!Exists, Abstract!Answer
      <3> QED
        BY <2>1, <3>1 DEF Abstract!Next
    <2> QED
      BY <2>2, <2>3
  <1>10. ASSUME NEW a \in Actors, ReadDir(a) PROVE Goal
    BY <1>10, <1>s DEF ReadDir
  <1>11. ASSUME NEW a \in Actors, ReadNext(a) PROVE Goal
    BY <1>11, <1>f, <1>s DEF ReadNext
  <1>12. ASSUME NEW a \in Actors, DropEmpty(a) PROVE Goal
    <2>1. PICK id \in todo[a] \cap empty[a] :
            IF file[id] = "none" THEN Error(a) /\ UNCHANGED file
            ELSE RemoveEmpty(id) /\ Answer(a, <<"listed", {}>>)
      BY <1>12 DEF DropEmpty
    <2>2. id \in Ids /\ file[id] # "whole" /\ UNCHANGED late
      BY <1>12 DEF DropEmpty, At, TypeOK, ListInv
    <2>3. CASE file[id] = "none"
      BY <2>1, <2>2, <2>3, <1>f, <1>s
    <2>4. CASE file[id] # "none"
      <3>1. UNCHANGED <<stored, late>>
        BY <2>1, <2>2, <2>4, SameStored DEF RemoveEmpty
      <3>2. Answer(a, <<"listed", {}>>)
        BY <2>1, <2>4
      <3>3. Abstract!GetExpired(a)
        BY <3>1, <3>2 DEF Answer, Abstract!GetExpired, Abstract!Answer
      <3> QED
        BY <3>3 DEF Abstract!Next
    <2> QED
      BY <2>3, <2>4
  <1>13. ASSUME NEW a \in Actors, Listed(a) PROVE Goal
    <2>0. UNCHANGED <<stored, late>> /\ op[a] \in Listing /\ list[a] \subseteq stored
      BY <1>13, <1>s DEF Listed, At, LockInv, ListInv
    <2>1. CASE op[a] = "Sync"
      <3>1. list[a] = stored
        BY <1>13, <2>1 DEF Listed, At, ListInv
      <3>2. Abstract!Sync(a)
        BY <1>13, <2>0, <2>1, <3>1 DEF Listed, Answer, Abstract!Sync, Abstract!Answer
      <3> QED
        BY <3>2 DEF Abstract!Next
    <2>2. CASE op[a] = "GetExpired"
      <3>1. list[a] \in SUBSET (stored \cap late)
        BY <1>13, <2>0, <2>2 DEF Listed, At, ListInv
      <3>2. Answer(a, <<"listed", list[a]>>)
        BY <1>13, <2>2 DEF Listed
      <3>3. Abstract!GetExpired(a)
        BY <2>0, <3>1, <3>2 DEF Answer, Abstract!GetExpired, Abstract!Answer
      <3> QED
        BY <3>3 DEF Abstract!Next
    <2> QED
      BY <2>0, <2>1, <2>2 DEF Listing
  <1>14. ASSUME NEW a \in Actors, AccessFails(a) PROVE Goal
    BY <1>14, <1>f, <1>s DEF AccessFails
  <1>15. ASSUME NEW id \in Ids, Expire(id) PROVE Goal
    BY <1>15, <1>s DEF Expire, Abstract!Next, Abstract!Expire
  <1>16. CASE Crash
    <2>1. UNCHANGED stored
      <3>1. ASSUME NEW a \in Actors, At(a, "write"), Becomes(arg[a], "cut") PROVE UNCHANGED stored
        <4>1. arg[a] \in Ids /\ file[arg[a]] # "whole"
          BY <3>1 DEF At, TypeOK, LockInv, Listing, File
        <4> QED
          BY <3>1, <4>1, SameStored
      <3> QED
        BY <1>16, <3>1, <1>s DEF Crash
    <2>2. reply' = [a \in Actors |-> None] /\ UNCHANGED late
      BY <1>16 DEF Crash, Forget
    <2> QED
      BY <2>1, <2>2 DEF Abstract!Next, Abstract!Crash
  <1>17. CASE UNCHANGED vars
    BY <1>17, <1>s DEF vars
  <1> QED
    BY <1>1, <1>2, <1>3, <1>4, <1>5, <1>6, <1>7, <1>8, <1>9, <1>10, <1>11, <1>12, <1>13, <1>14,
      <1>15, <1>16, <1>17 DEF Next, Step, Panics

(* Fs implements the abstract store: no answer tells of a state the store  *)
(* was never in, whatever crashes and failed writes leave behind.          *)
THEOREM StoreIsImplemented == Safety => Store
  <1>1. Init => Abstract!Init
    BY DEF Init, Abstract!Init, stored
  <1>2. IInv /\ [Next]_vars => [Abstract!Next]_(Abstract!vars)
    BY StoreStep
  <1> QED
    BY Invariance, <1>1, <1>2, PTL DEF Safety, Store, Abstract!Spec

=============================================================================
