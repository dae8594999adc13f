-------------------------- MODULE ReservationCache --------------------------
(***************************************************************************)
(* cache.Redis (src/cache/cache.go): the reservations the gateway carries  *)
(* out, in one redis hash, behind a sync.RWMutex and the connection pool   *)
(* of src/redis/pool.go.                                                   *)
(*                                                                         *)
(* The main goroutine reads the cache when the gateway starts (Sync, then  *)
(* ClearByType) and works on it from then on, as the engine; in between it *)
(* uses the pool for the managers of DNS and proxies.  The source of       *)
(* expired reservations lists the cache from a goroutine of its own.  All  *)
(* of them may hold one connection while they ask for a second one, and a  *)
(* lock while they ask for a connection.                                   *)
(***************************************************************************)
EXTENDS Naturals, FiniteSets

CONSTANTS
  Ids,           \* of reservations
  Types,         \* of reservations
  TypeOf,        \* the type of each reservation
  CountedTypes,  \* the types that have a counter
  ClearedTypes,  \* the types cleared at a start: 4to6, if it is enabled
  Unreadable,    \* reservations an earlier gateway left that "get" rejects
  Main,          \* the main goroutine
  Listers,       \* the goroutines that list expired reservations
  MaxActive,     \* connections of the pool
  Outcomes,      \* what can become of a redis write
  None           \* no operation, no reservation

Goroutines == {Main} \cup Listers

ASSUME IdsAssumption == IsFiniteSet(Ids) /\ TypeOf \in [Ids -> Types] /\ None \notin Ids
ASSUME TypesAssumption ==
  ClearedTypes \subseteq Types /\ CountedTypes \subseteq Types \ ClearedTypes
ASSUME GoroutinesAssumption == IsFiniteSet(Listers) /\ Main \notin Listers
ASSUME PoolAssumption == MaxActive \in Nat
ASSUME OutcomesAssumption == Outcomes \subseteq {"done", "refused", "lost"}

VARIABLES
  cached,   \* the reservations in the redis hash
  late,     \* the reservations whose time is over
  phase,    \* of the gateway: "down", "sync", "clear", "serving"
  count,    \* what Sync counted of each type
  op,       \* what each goroutine does,
  pc,       \* how far it got,
  id,       \* the reservation it is about,
  todo,     \* the listed reservations it has not read yet,
  found,    \* what it has found: expired ones, counted ones, the one asked for,
  asOf,     \* the ones that were late when it made the list,
  held,     \* and how many connections it holds
  readers,  \* who has the RWMutex for reading
  writer    \* "free"; or Main waits for the readers, or has it for writing

data == <<cached, late, count>>
locals == <<op, id, todo, found, asOf>>
lock == <<readers, writer>>
vars == <<data, phase, locals, pc, held, lock>>

-----------------------------------------------------------------------------
(* The operations by what they ask for first.  Manage stands for any       *)
(* operation of dns.Mgr or proxy.Mgr: it borrows a connection, and another *)
(* one before it gives the first one back, but does not use the cache.     *)
Listings == {"Sync", "ClearByType", "GetExpired"}
RLocking == {"Sync", "GetExpired", "Get", "Exists"}
Locking == {"Add", "Remove"}
Unlocked == {"ClearByType", "Manage"}
Operations == RLocking \cup Locking \cup Unlocked
ASSUME NoneAssumption == None \notin Operations

Entry(o) == IF o \in RLocking THEN "rlock" ELSE IF o \in Locking THEN "lock" ELSE "want"

Idle ==
  /\ op' = [g \in Goroutines |-> None]
  /\ pc' = [g \in Goroutines |-> "idle"]
  /\ id' = [g \in Goroutines |-> None]
  /\ todo' = [g \in Goroutines |-> {}]
  /\ found' = [g \in Goroutines |-> {}]
  /\ asOf' = [g \in Goroutines |-> {}]
  /\ held' = [g \in Goroutines |-> 0]
  /\ readers' = {}
  /\ writer' = "free"

Init ==
  /\ cached \in SUBSET Ids
  /\ late = {}
  /\ phase = "down"
  /\ count = [t \in CountedTypes |-> 0]
  /\ op = [g \in Goroutines |-> None]
  /\ pc = [g \in Goroutines |-> "idle"]
  /\ id = [g \in Goroutines |-> None]
  /\ todo = [g \in Goroutines |-> {}]
  /\ found = [g \in Goroutines |-> {}]
  /\ asOf = [g \in Goroutines |-> {}]
  /\ held = [g \in Goroutines |-> 0]
  /\ readers = {}
  /\ writer = "free"

(* Reservation.Expired is a matter of time.                                *)
Expire(i) ==
  /\ i \notin late
  /\ late' = late \cup {i}
  /\ UNCHANGED <<cached, count, phase, locals, pc, held, lock>>

Crash ==
  /\ phase # "down"
  /\ phase' = "down"
  /\ Idle
  /\ UNCHANGED data

-----------------------------------------------------------------------------
(* run: Sync first, on new counters.                                       *)
Start ==
  /\ phase = "down"
  /\ phase' = "sync"
  /\ count' = [t \in CountedTypes |-> 0]
  /\ op' = [op EXCEPT ![Main] = "Sync"]
  /\ pc' = [pc EXCEPT ![Main] = Entry("Sync")]
  /\ UNCHANGED <<cached, late, id, todo, found, asOf, held, lock>>

(* The deferred calls of an operation: its connection is closed, then the  *)
(* lock is released.  (A writer has released it with its write.)           *)
ClosedOnSuccess(g) == [held EXCEPT ![g] = IF pc[g] = "err" THEN @ ELSE 0]
Closed(g) == [held EXCEPT ![g] = 0]
Finish(g) ==
  /\ held' = Closed(g)
  /\ readers' = readers \ {g}
  /\ id' = [id EXCEPT ![g] = None]
  /\ todo' = [todo EXCEPT ![g] = {}]
  /\ found' = [found EXCEPT ![g] = {}]
  /\ asOf' = [asOf EXCEPT ![g] = {}]
  /\ UNCHANGED <<data, writer>>

(* An error of Sync or ClearByType ends the process.                       *)
StartFails ==
  /\ phase \in {"sync", "clear"}
  /\ pc[Main] = "err"
  /\ phase' = "down"
  /\ Idle
  /\ UNCHANGED data

(* Then ClearByType, if 4to6 is enabled, ...                               *)
Synced ==
  /\ phase = "sync" /\ ClearedTypes # {}
  /\ pc[Main] = "ok"
  /\ phase' = "clear"
  /\ op' = [op EXCEPT ![Main] = "ClearByType"]
  /\ pc' = [pc EXCEPT ![Main] = Entry("ClearByType")]
  /\ Finish(Main)

(* ... and the engine runs.                                                *)
Started ==
  /\ phase = "clear" \/ (phase = "sync" /\ ClearedTypes = {})
  /\ pc[Main] = "ok"
  /\ phase' = "serving"
  /\ op' = [op EXCEPT ![Main] = None]
  /\ pc' = [pc EXCEPT ![Main] = "idle"]
  /\ Finish(Main)

(* The engine calls an operation about one reservation, or a manager.      *)
Request(o, i) ==
  /\ phase = "serving"
  /\ pc[Main] = "idle"
  /\ op' = [op EXCEPT ![Main] = o]
  /\ pc' = [pc EXCEPT ![Main] = Entry(o)]
  /\ id' = [id EXCEPT ![Main] = i]
  /\ UNCHANGED <<data, phase, todo, found, asOf, held, lock>>

Requests == (({"Get", "Exists", "Remove"} \X Ids) \cup ({"Add"} \X (Ids \ Unreadable)))
              \cup {<<"Manage", None>>}

ListExpired(g) ==
  /\ phase = "serving"
  /\ pc[g] = "idle"
  /\ op' = [op EXCEPT ![g] = "GetExpired"]
  /\ pc' = [pc EXCEPT ![g] = Entry("GetExpired")]
  /\ UNCHANGED <<data, phase, id, todo, found, asOf, held, lock>>

Return(g) ==
  /\ phase = "serving"
  /\ pc[g] \in {"ok", "err"}
  /\ op' = [op EXCEPT ![g] = None]
  /\ pc' = [pc EXCEPT ![g] = "idle"]
  /\ Finish(g)
  /\ UNCHANGED phase

-----------------------------------------------------------------------------
(* sync.RWMutex.  A reader waits while a writer has the lock or waits for  *)
(* it, and is let in when that writer unlocks.                             *)
RLock(g) ==
  /\ pc[g] = "rlock"
  /\ \/ /\ writer = "free"
        /\ readers' = readers \cup {g}
        /\ pc' = [pc EXCEPT ![g] = "want"]
     \/ /\ writer # "free"
        /\ pc' = [pc EXCEPT ![g] = "queued"]
        /\ UNCHANGED readers
  /\ UNCHANGED <<data, phase, locals, held, writer>>

(* A writer announces itself and waits for the readers that are in.        *)
Announce ==
  /\ pc[Main] = "lock"
  /\ writer' = "waiting"
  /\ pc' = [pc EXCEPT ![Main] = "locking"]
  /\ UNCHANGED <<data, phase, locals, held, readers>>

LockAnyway == TRUE
LockFree == readers = {}
Lock ==
  /\ pc[Main] = "locking"
  /\ LockFree
  /\ writer' = "writing"
  /\ pc' = [pc EXCEPT ![Main] = "want"]
  /\ UNCHANGED <<data, phase, locals, held, readers>>

(* What a goroutine does with the next connection it gets.                 *)
Task(g) ==
  IF op[g] \in Listings /\ held[g] = 0 THEN "list"
  ELSE IF op[g] = "Manage" /\ held[g] = 0 THEN "want"
  ELSE IF op[g] \in {"Manage", "Exists"} THEN "use"
  ELSE IF g = Main /\ writer = "writing" THEN "write" ELSE "read"

(* pool.Get waits, in line, while all connections are lent.                *)
Holders == {g \in Goroutines : held[g] >= 1}
TwiceHolders == {g \in Goroutines : held[g] = 2}
FreeConnection == Cardinality(Holders) + Cardinality(TwiceHolders) < MaxActive

Borrow(g) ==
  /\ pc[g] = "want"
  /\ FreeConnection
  /\ held' = [held EXCEPT ![g] = @ + 1]
  /\ pc' = [pc EXCEPT ![g] = Task(g)]
  /\ UNCHANGED <<data, phase, locals, lock>>

(* HKEYS                                                                   *)
List(g) ==
  /\ pc[g] = "list"
  /\ \/ /\ todo' = [todo EXCEPT ![g] = cached]
        /\ asOf' = [asOf EXCEPT ![g] = late]
        /\ pc' = [pc EXCEPT ![g] = "next"]
     \/ /\ pc' = [pc EXCEPT ![g] = "err"]
        /\ UNCHANGED <<todo, asOf>>
  /\ UNCHANGED <<data, phase, op, id, found, held, lock>>

(* The loop over the listed IDs: each is read with "get", which takes no   *)
(* lock but borrows a connection of its own.                               *)
ReadWithLock == "rlock"
ReadWith == "want"
ReadNext(g) ==
  /\ pc[g] = "next"
  /\ \/ /\ todo[g] = {}
        /\ pc' = [pc EXCEPT ![g] = "ok"]
        /\ UNCHANGED id
     \/ \E i \in todo[g] :
          /\ id' = [id EXCEPT ![g] = i]
          /\ pc' = [pc EXCEPT ![g] = ReadWith]
  /\ UNCHANGED <<data, phase, op, todo, found, asOf, held, lock>>

NeverClose(g) == held
CloseOne(g) == [held EXCEPT ![g] = @ - 1]

(* "get" fails if redis does, for a missing field, and on what it cannot   *)
(* decode; ...                                                             *)
ReadFails(g) ==
  /\ pc[g] = "read"
  /\ pc' = [pc EXCEPT ![g] = "err"]
  /\ held' = CloseOne(g)
  /\ UNCHANGED <<data, phase, locals, lock>>

(* ... unless its version cannot be read either, for another reason than   *)
(* that there is none: then "get" goes on with a nil reader, and panics.   *)
ReadPanics(g) ==
  /\ pc[g] = "read"
  /\ id[g] \in cached \cap Unreadable
  /\ Crash

Counted(i) == IF TypeOf[i] \in CountedTypes
              THEN [count EXCEPT ![TypeOf[i]] = @ + 1] ELSE count
ClearsAll(i) == i \in Ids
Clears(i) == TypeOf[i] \in ClearedTypes

Collects(g) == op[g] = "Sync" \/ (op[g] = "GetExpired" /\ id[g] \in late)

Read(g) ==
  /\ pc[g] = "read"
  /\ id[g] \in cached \ Unreadable
  /\ todo' = [todo EXCEPT ![g] = @ \ {id[g]}]
  /\ found' = [found EXCEPT ![g] = IF Collects(g) THEN @ \cup {id[g]} ELSE @]
  /\ count' = IF op[g] = "Sync" THEN Counted(id[g]) ELSE count
  /\ pc' = [pc EXCEPT ![g] =
             IF op[g] = "Get" THEN "ok"
             ELSE IF op[g] = "ClearByType" /\ Clears(id[g]) THEN "lock" ELSE "next"]
  /\ held' = CloseOne(g)
  /\ UNCHANGED <<cached, late, phase, op, id, asOf, lock>>

(* Exists, and what a manager does with its second connection.             *)
Use(g) ==
  /\ pc[g] = "use"
  /\ \/ /\ pc' = [pc EXCEPT ![g] = "ok"]
        /\ found' = [found EXCEPT ![g] = IF op[g] = "Exists" THEN {id[g]} \cap cached ELSE @]
     \/ /\ pc' = [pc EXCEPT ![g] = "err"]
        /\ UNCHANGED found
  /\ held' = CloseOne(g)
  /\ UNCHANGED <<data, phase, op, id, todo, asOf, lock>>

(* HSET of Add, HDEL of Remove, the latter also for ClearByType, which     *)
(* goes on with its loop; the connection is closed and the lock released.  *)
Stored == IF op[Main] = "Add" THEN cached \cup {id[Main]} ELSE cached \ {id[Main]}
AfterWriteReturn(o) == IF o # "done" THEN "err" ELSE "ok"
AfterWriteAnyway(o) ==
  IF op[Main] = "ClearByType" THEN "next" ELSE IF o # "done" THEN "err" ELSE "ok"
AfterWrite(o) ==
  IF o # "done" THEN "err" ELSE IF op[Main] = "ClearByType" THEN "next" ELSE "ok"
Admitted == {g \in Goroutines : pc[g] = "queued"}
Write ==
  /\ pc[Main] = "write"
  /\ \E o \in Outcomes :
       /\ cached' = IF o = "refused" THEN cached ELSE Stored
       /\ pc' = [g \in Goroutines |-> IF g = Main THEN AfterWrite(o)
                                      ELSE IF g \in Admitted THEN "want" ELSE pc[g]]
  /\ held' = CloseOne(Main)
  /\ readers' = Admitted
  /\ writer' = "free"
  /\ UNCHANGED <<late, count, phase, locals>>

-----------------------------------------------------------------------------
(* What a goroutine does in the middle of an operation.                    *)
Step(g) ==
  \/ RLock(g) \/ Borrow(g) \/ List(g) \/ ReadNext(g)
  \/ Read(g) \/ ReadFails(g) \/ Use(g) \/ Return(g)
MainStep == Step(Main) \/ Announce \/ Lock \/ Write \/ Synced \/ Started \/ StartFails

Next ==
  \/ \E i \in Ids : Expire(i)
  \/ Crash \/ Start
  \/ \E g \in Goroutines : ReadPanics(g)
  \/ \E r \in Requests : Request(r[1], r[2])
  \/ \E g \in Listers : ListExpired(g)
  \/ \E g \in Listers : Step(g)
  \/ MainStep

(* Goroutines are scheduled, and redis answers or the connection breaks;   *)
(* the pool lends connections in the order they were asked for.            *)
Fairness ==
  /\ WF_vars(MainStep) /\ SF_vars(Borrow(Main))
  /\ \A g \in Listers : WF_vars(Step(g)) /\ SF_vars(Borrow(g))

Safety == Init /\ [][Next]_vars
Spec == Safety /\ Fairness

-----------------------------------------------------------------------------
Waiting == {"rlock", "queued", "lock", "locking"}
Points == Waiting \cup {"idle", "want", "list", "next", "read", "use", "write", "ok", "err"}

(* Every variable has its type; in particular no goroutine ever holds more *)
(* than two of the connections of the pool.                                *)
TypeOK ==
  /\ cached \in SUBSET Ids /\ late \in SUBSET Ids
  /\ phase \in {"down", "sync", "clear", "serving"}
  /\ count \in [CountedTypes -> Nat]
  /\ op \in [Goroutines -> Operations \cup {None}]
  /\ pc \in [Goroutines -> Points]
  /\ id \in [Goroutines -> Ids \cup {None}]
  /\ todo \in [Goroutines -> SUBSET Ids]
  /\ found \in [Goroutines -> SUBSET Ids]
  /\ asOf \in [Goroutines -> SUBSET Ids]
  /\ held \in [Goroutines -> 0..2]
  /\ readers \in SUBSET Goroutines
  /\ writer \in {"free", "waiting", "writing"}

Listed == {"next", "want", "read", "ok"}
ListingExpired(g) == op[g] = "GetExpired" /\ pc[g] \in Listed /\ held[g] >= 1

(* GetExpired reads the hash field by field while the engine adds and      *)
(* removes reservations, and still lists one moment: no ID it has yet to   *)
(* read disappears (which would fail the whole listing), what it has found *)
(* is still cached and expired, and nothing that was cached and expired    *)
(* when it made its list is left out.                                      *)
ListingExact == \A g \in Listers : ListingExpired(g) =>
  /\ todo[g] \subseteq cached
  /\ found[g] \subseteq cached \cap late
  /\ cached \cap asOf[g] \subseteq todo[g] \cup found[g]

(* Who waits for something only another goroutine can give.                *)
Blocked(g) ==
  \/ pc[g] = "queued"
  \/ pc[g] = "locking" /\ readers # {}
  \/ pc[g] = "want" /\ ~FreeConnection

(* The goroutines never all wait for each other's connections and locks,   *)
(* although they ask for both while they hold both.                        *)
NoDeadlock == (\E g \in Goroutines : pc[g] # "idle") =>
  \E g \in Goroutines : pc[g] # "idle" /\ ~Blocked(g)

(* The gateway serves only after every reservation of a type that does not *)
(* survive a restart was removed from the cache ("so they are always       *)
(* re-provisionned", main.go), whatever stopped earlier starts; and what   *)
(* it could not read keeps it from serving.                                *)
ClearedAtStart == [][phase' = "serving" /\ phase # "serving" =>
  \A i \in cached' : TypeOf[i] \notin ClearedTypes /\ i \notin Unreadable]_vars

(* The counters the gateway starts to serve with are those of its cache,   *)
(* although it clears reservations after it counted them.                  *)
CountersInSync == [][phase' = "serving" /\ phase # "serving" =>
  \A t \in CountedTypes : count'[t] = Cardinality({i \in cached' : TypeOf[i] = t})]_vars

(* Every operation on the cache, and every use of the pool, comes to an    *)
(* end, however the others keep using both.                                *)
OperationsEnd == \A g \in Goroutines : pc[g] # "idle" ~> pc[g] = "idle"

(* What an operation has told its caller when it returns, and ClearByType  *)
(* when it has removed a reservation.  A manager tells nothing of a        *)
(* reservation.                                                            *)
ReplyTo(g) ==
  IF pc[g] = "err" /\ op[g] # "Manage" THEN <<"error">>
  ELSE IF op[g] = "ClearByType"
       THEN IF pc[g] = "next" /\ id[g] \in Ids \ cached THEN <<"removed", id[g]>> ELSE None
  ELSE IF pc[g] # "ok" THEN None
  ELSE IF op[g] = "Add" THEN <<"added", id[g]>>
  ELSE IF op[g] = "Remove" THEN <<"removed", id[g]>>
  ELSE IF op[g] = "Get" THEN <<"got", id[g]>>
  ELSE IF op[g] = "Exists" THEN <<IF id[g] \in found[g] THEN "exists" ELSE "absent", id[g]>>
  ELSE IF op[g] = "Sync" THEN <<"counted", found[g]>>
  ELSE IF op[g] = "GetExpired" THEN <<"listed", found[g]>>
  ELSE None

(* cache.Redis implements the abstract store, whose reservations are the   *)
(* fields of the hash: although Sync and GetExpired read them one by one   *)
(* and ClearByType works without a lock, every answer tells of one moment  *)
(* of the store.  Add overwrites, and a write that fails may be done.      *)
reply == [g \in Goroutines |-> ReplyTo(g)]
Abstract == INSTANCE ReservationStore WITH
  Actors <- Goroutines, stored <- cached, Overwrites <- TRUE, Lossy <- "lost" \in Outcomes
Store == Abstract!Spec

-----------------------------------------------------------------------------
(* What the invariants rest on.                                            *)

(* Who does what: only the main goroutine writes, the others only list,    *)
(* and they rest until the gateway serves.                                 *)
ActorInv ==
  /\ \A g \in Listers :
       /\ op[g] \in {"GetExpired", None}
       /\ pc[g] \notin {"lock", "locking", "write"}
       /\ phase # "serving" => pc[g] = "idle"
  /\ op[Main] # "GetExpired"
  /\ op[Main] = "Sync" <=> phase = "sync"
  /\ op[Main] = "ClearByType" <=> phase = "clear"
  /\ phase = "down" => pc[Main] = "idle"
  /\ phase = "clear" => ClearedTypes # {}

(* How many connections are held at each point: the second one only        *)
(* where the holder needs nothing else to go on.                           *)
HeldAt(g) ==
  /\ pc[g] \in {"idle", "rlock", "queued"} => held[g] = 0
  /\ pc[g] \in {"lock", "locking"} => held[g] = IF op[g] = "ClearByType" THEN 1 ELSE 0
  /\ pc[g] = "want" => \/ held[g] = 0
                       \/ held[g] = 1 /\ op[g] \in Listings \cup {"Manage"}
  /\ pc[g] \in {"list", "next"} => held[g] = 1
  /\ pc[g] = "read" => held[g] = IF op[g] = "Get" THEN 1 ELSE 2
  /\ pc[g] = "use" => held[g] = IF op[g] = "Exists" THEN 1 ELSE 2
  /\ pc[g] = "write" => held[g] = IF op[g] = "ClearByType" THEN 2 ELSE 1
  /\ pc[g] \in {"ok", "err"} => held[g] <= 1
OpAt(g) ==
  /\ op[g] = None <=> pc[g] = "idle"
  /\ pc[g] \in {"rlock", "queued"} => op[g] \in RLocking
  /\ pc[g] \in {"lock", "locking", "write"} => op[g] \in Locking \cup {"ClearByType"}
  /\ pc[g] \in {"list", "next"} => op[g] \in Listings
  /\ pc[g] = "read" => op[g] \in Listings \cup {"Get"}
  /\ pc[g] = "use" => op[g] \in {"Exists", "Manage"}
  /\ op[g] \in Locking \cup {"Get", "Exists"} => id[g] \in Ids
HoldInv == \A g \in Goroutines : HeldAt(g) /\ OpAt(g)

(* The RWMutex: readers and the writer are where they say they are, and    *)
(* exclude each other.                                                     *)
LockInv ==
  /\ readers = {g \in Goroutines : op[g] \in RLocking
                                  /\ pc[g] \notin {"idle", "rlock", "queued"}}
  /\ writer = "waiting" <=> pc[Main] = "locking"
  /\ writer = "writing" => /\ pc[Main] \in {"want", "write"}
                           /\ op[Main] \in Locking \cup {"ClearByType"}
                           /\ op[Main] = "ClearByType" => held[Main] >= 1
  /\ pc[Main] = "write" \/ (pc[Main] = "want" /\ op[Main] \in Locking) =>
       writer = "writing"
  /\ writer = "writing" => readers = {}
  /\ \A g \in Goroutines : pc[g] = "queued" => writer # "free"

(* The start: what was read of the cache is readable and counted, and what *)
(* was read twice is of a type that stays.                                 *)
Behind == IF pc[Main] \in {"rlock", "queued", "list"}
             \/ (pc[Main] = "want" /\ held[Main] = 0)
          THEN cached ELSE todo[Main]
Reading == \/ pc[Main] = "read"
           \/ pc[Main] = "want" /\ held[Main] = 1 /\ writer # "writing"
Removing == pc[Main] \in {"lock", "locking", "write"} \/ writer = "writing"
Removed == IF Removing THEN {id[Main]} ELSE {}
CountOf(t, S) == Cardinality({i \in S : TypeOf[i] = t})
StartInv ==
  /\ phase = "sync" /\ pc[Main] # "err" =>
       /\ cached \cap Unreadable \subseteq Behind
       /\ Behind \subseteq cached
       /\ \A t \in CountedTypes : count[t] = CountOf(t, cached \ Behind)
  /\ phase = "clear" =>
       /\ cached \cap Unreadable = {}
       /\ \A t \in CountedTypes : count[t] = CountOf(t, cached)
       /\ \A i \in Removed : TypeOf[i] \in ClearedTypes
       /\ pc[Main] # "err" =>
            \A i \in cached : TypeOf[i] \in ClearedTypes => i \in Behind \cup Removed
  /\ phase \in {"sync", "clear"} =>
       /\ pc[Main] = "ok" => todo[Main] = {}
       /\ Reading => id[Main] \in todo[Main]

(* A listing that has no list yet has found nothing, and a list is as old  *)
(* as it says.                                                             *)
FreshInv == \A g \in Listers :
  /\ asOf[g] \subseteq late
  /\ pc[g] \in {"idle", "rlock", "queued", "list"} \/ (pc[g] = "want" /\ held[g] = 0) =>
       found[g] = {}

(* Sync has found what it has read, and who does nothing has found nothing. *)
FoundInv ==
  /\ op[Main] = None => found[Main] = {}
  /\ phase = "sync" /\ pc[Main] # "err" => found[Main] = cached \ Behind

(* ClearByType is about no reservation before it lists them, and about one *)
(* when it removes it.                                                     *)
Unlisted == pc[Main] = "list" \/ (pc[Main] = "want" /\ held[Main] = 0)
ClearInv == phase = "clear" =>
  /\ Unlisted => id[Main] = None
  /\ Removing => id[Main] \in Ids

(* The inductive invariant, without that of the start.                     *)
IInv == TypeOK /\ ActorInv /\ HoldInv /\ LockInv /\ FreshInv /\ ListingExact
=============================================================================
