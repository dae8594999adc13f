--------------------------- MODULE LifecycleProofs ---------------------------
(***************************************************************************)
(* Proofs about Lifecycle and WireGuard, for any command lines, zones,     *)
(* users, keys and addresses, and any number of crashes and failures.      *)
(***************************************************************************)
EXTENDS Lifecycle, TLAPS

USE HostsAssumption, NobodyAssumption, FlagsAssumption, LifeAssumption

(* Besides the process: what the stores are told of it.                    *)
Others == <<adopts, seed, holder, registered>>

(* The invariant holds before the first start.                             *)
LEMMA InitIInv == Init => IInv
<1> SUFFICES ASSUME Init PROVE IInv
  OBVIOUS
<1>1. WireGuardTypes /\ GivenWorks
  BY DEF Init, InitWireGuard, WireGuardTypes, GivenWorks
<1>2. TypeOK
  <2>1. flags \in [domains : SUBSET Zones, tunnels : BOOLEAN] /\ phase \in Phases
    BY DEF Init, Phases
  <2>2. todo \subseteq flags.domains /\ todo = {} /\ upsets \in 0 .. MaxUpsets
    BY DEF Init
  <2>3. TickerTypes
    BY DEF Init, TickerTypes
  <2> QED BY <1>1, <2>1, <2>2, <2>3 DEF Init, TypeOK
<1>3. OneIdentity /\ AdvertisedHeld
  BY DEF Init, InitWireGuard, OneIdentity, AdvertisedHeld
<1>4. identity = None /\ phase = "down" /\ flags.tunnels = FALSE
  BY DEF Init
<1>5. phase \notin Claiming
  BY <1>4 DEF Claiming
<1> QED BY <1>1, <1>2, <1>3, <1>4, <1>5 DEF IInv

(* The goroutine of the heartbeats begins when the gateway serves, and ends*)
(* with the process.                                                       *)
LEMMA TickerNext == TypeOK /\ [Next]_vars => TickerTypes'
<1> SUFFICES ASSUME TypeOK, [Next]_vars PROVE TickerTypes'
  OBVIOUS
<1>1. TickerTypes
  BY DEF TypeOK
<1>2. ASSUME End \/ UNCHANGED <<phase, ticker, tick>> PROVE TickerTypes'
  <2>1. CASE End
    BY <2>1, Zenon DEF End, TickerTypes
  <2>2. CASE UNCHANGED <<phase, ticker, tick>>
    BY <1>1, <2>2, Zenon DEF TickerTypes
  <2> QED BY <1>2, <2>1, <2>2
<1>3. CASE SeedUnread \/ GiveUpRegistration \/ CreateFails \/ StepFails \/ SaveFails \/ Stop \/ Crash
  BY <1>2, <1>3 DEF SeedUnread, GiveUpRegistration, CreateFails, StepFails, Failed, SaveFails, Stop, Crash
<1>4. ASSUME phase # "serve", UNCHANGED beats PROVE TickerTypes'
  BY <1>1, <1>4 DEF beats, TickerTypes
<1>5. CASE Start \/ Identify \/ Prepare \/ Claim
  BY <1>2, <1>4, <1>5 DEF Start, Identify, Prepare, Claim, Refuse
<1>6. CASE Claimed \/ Register \/ RegisterUnconfirmed \/ Clear \/ SetUpInterface
  BY <1>4, <1>6 DEF Claimed, Register, RegisterUnconfirmed, Clear, SetUpInterface, SetUpFrom,
                    GoTo, process
<1>7. CASE Announce \/ TenMinutes \/ Heartbeat
  BY <1>1, <1>7 DEF Announce, TenMinutes, Heartbeat, TakeTick, Beat, GiveUpBeat, AfterBackoff,
                    TickerTypes
<1>8. CASE UNCHANGED process
  BY <1>2, <1>8 DEF process, beats
<1>9. ASSUME NEW user \in Users, NEW z \in Zones, Delegate(user, z) PROVE UNCHANGED process
  BY <1>9 DEF Delegate
<1>10. ASSUME NEW user \in Users, NEW key \in Keys, Tunnel(user, key) PROVE UNCHANGED process
  BY <1>10 DEF Tunnel
<1>11. Outage \/ Recover \/ UNCHANGED vars => UNCHANGED process
  BY DEF Outage, Recover, vars
<1> QED BY <1>3, <1>5, <1>6, <1>7, <1>8, <1>9, <1>10, <1>11 DEF Next, Run

(* The peers keep their types and what they were given, in every call of   *)
(* the manager and at its end.                                             *)
LEMMA PeersKept ==
  ASSUME TypeOK, GivenWorks, identity # None,
         \/ \E user \in Users, key \in Keys : AddPeer(user, key) \/ RemovePeer(key)
         \/ \E stage \in Stages : SetUp(stage)
         \/ Close \/ UNCHANGED wireguard
  PROVE  /\ WireGuardTypes' /\ GivenWorks'
         /\ \A k \in Keys : \A a \in peers'[k] : a \in peers[k] \/ a[1] = identity
<1>1. WireGuardTypes /\ identity \in Ids
  BY DEF TypeOK
<1>2. ASSUME NEW user \in Users, NEW key \in Keys, AddPeer(user, key)
      PROVE  /\ WireGuardTypes' /\ GivenWorks'
             /\ \A k \in Keys : \A a \in peers'[k] : a \in peers[k] \/ a[1] = identity
  <2>1. Get(user) \in Addresses /\ Get(user)[1] = identity
    BY <1>1 DEF Get, Subnet, Addresses
  <2>2. /\ peers' = Allow(key, Get(user)) /\ link' = link
        /\ given' = [given EXCEPT ![Get(user)] = key]
    BY <1>2 DEF AddPeer
  <2>3. WireGuardTypes'
    BY <1>1, <2>1, <2>2 DEF WireGuardTypes, Allow
  <2>4. ASSUME NEW a \in Addresses, given'[a] # None
        PROVE  a \in peers'[given'[a]]
    <3>1. CASE a = Get(user)
      BY <1>1, <2>1, <2>2, <3>1 DEF WireGuardTypes, Allow
    <3>2. CASE a # Get(user)
      <4>1. given'[a] = given[a] /\ given[a] \in Keys /\ a \in peers[given[a]]
        BY <1>1, <2>1, <2>2, <2>4, <3>2 DEF WireGuardTypes, GivenWorks
      <4> QED BY <2>2, <3>2, <4>1 DEF Allow
    <3> QED BY <3>1, <3>2
  <2> QED BY <2>1, <2>2, <2>3, <2>4 DEF GivenWorks, Allow
<1>3. ASSUME NEW key \in Keys, RemovePeer(key)
      PROVE  /\ WireGuardTypes' /\ GivenWorks'
             /\ \A k \in Keys : \A a \in peers'[k] : a \in peers[k] \/ a[1] = identity
  BY <1>1, <1>3 DEF RemovePeer, WireGuardTypes, GivenWorks
<1>4. ASSUME (\E stage \in Stages : SetUp(stage)) \/ UNCHANGED wireguard
      PROVE  /\ WireGuardTypes' /\ GivenWorks'
             /\ \A k \in Keys : \A a \in peers'[k] : a \in peers[k] \/ a[1] = identity
  BY <1>1, <1>4 DEF SetUp, wireguard, WireGuardTypes, GivenWorks
<1>5. CASE Close
  BY <1>1, <1>5 DEF Close, WireGuardTypes, GivenWorks
<1> QED BY <1>2, <1>3, <1>4, <1>5

(* Starts and stops, and what leaves redis, the seed and the explorer's    *)
(* knowledge alone.                                                        *)
LEMMA QuietNext ==
  ASSUME IInv, UNCHANGED Others, WireGuardTypes', GivenWorks', TickerTypes',
         reachable' \in BOOLEAN, heard' \in BOOLEAN, upsets' \in 0 .. MaxUpsets,
         \/ UNCHANGED <<phase, flags, todo, identity>>
         \/ End
         \/ flags' \in Flags /\ phase' = "identify" /\ phase = "down" /\ UNCHANGED <<todo, identity>>
         \/ phase' \in {"register", "clear", "create", "address", "configure", "raise", "announce", "serve"}
              /\ phase \in Claiming /\ todo = {} /\ UNCHANGED <<flags, todo, identity>>,
         flags'.tunnels => SetUpBy(phase') \subseteq link',
         \A k \in Keys : \A a \in peers'[k] : a \in peers[k] \/ a[1] = seed
  PROVE  IInv'
<1>1. TypeOK /\ OneIdentity /\ AdvertisedHeld
  BY DEF IInv
<1>2. /\ phase' \in Phases /\ flags' \in [domains : SUBSET Zones, tunnels : BOOLEAN]
      /\ todo' \subseteq flags'.domains /\ (todo' # {} => phase' = "claim")
      /\ identity' \in {identity, None}
      /\ (identity' = None) <=> (phase' \in {"down", "identify"})
  BY <1>1 DEF TypeOK, process, End, Phases, Claiming
<1>3. TypeOK'
  BY <1>1, <1>2 DEF TypeOK, Others
<1>4. OneIdentity' /\ AdvertisedHeld'
  BY <1>1 DEF OneIdentity, AdvertisedHeld, Others
<1>5. identity' # None => identity' = seed'
  BY <1>2 DEF IInv, Others
<1>6. ASSUME phase' \in Claiming
      PROVE  /\ flags'.domains \subseteq ValidZones
             /\ \A z \in flags'.domains \ todo' : holder'[z] = identity'
  BY <1>6 DEF IInv, Claiming, End, process, Others
<1> QED BY <1>3, <1>4, <1>5, <1>6 DEF IInv

(* What a claim did not change, and that the zone it takes was free.       *)
LEMMA ClaimNext == IInv /\ Claim /\ TickerTypes' => IInv'
<1> SUFFICES ASSUME IInv, Claim, TickerTypes' PROVE IInv'
  OBVIOUS
<1>1. TypeOK /\ OneIdentity /\ AdvertisedHeld /\ GivenWorks
  BY DEF IInv
<1>2. UNCHANGED <<wireguard, adopts, seed, explorer, upsets>>
  BY DEF Claim
<1>3. WireGuardTypes' /\ GivenWorks'
  BY <1>1, <1>2 DEF wireguard, TypeOK, WireGuardTypes, GivenWorks
<1>4. PICK z \in todo :
        \/ /\ holder[z] \in {None, identity} /\ holder' = [holder EXCEPT ![z] = identity]
           /\ todo' = todo \ {z} /\ UNCHANGED <<phase, flags, identity>>
        \/ End /\ UNCHANGED holder
  BY DEF Claim, MayClaim, Refuse
<1>5. CASE End /\ UNCHANGED holder
  BY <1>1, <1>2, <1>3, <1>5, QuietNext
     DEF Others, explorer, wireguard, IInv, SetUpBy, End, TypeOK
<1>6. CASE /\ holder[z] \in {None, identity} /\ holder' = [holder EXCEPT ![z] = identity]
           /\ todo' = todo \ {z} /\ UNCHANGED <<phase, flags, identity>>
  <2>1. phase = "claim" /\ identity = seed /\ identity \in Ids /\ z \in Zones /\ z \in flags.domains
    BY <1>1 DEF Claim, TypeOK, IInv
  <2>2. \A y \in Zones : holder'[y] = IF y = z THEN seed ELSE holder[y]
    BY <1>1, <1>6, <2>1 DEF TypeOK
  <2>3. holder' \in [Zones -> Ids \cup Users \cup {None}]
    BY <1>1, <1>6, <2>1 DEF TypeOK
  <2>4. TypeOK'
    BY <1>1, <1>2, <1>3, <1>6, <2>1, <2>3 DEF TypeOK, explorer
  <2>5. OneIdentity'
    BY <1>1, <1>2, <2>2 DEF OneIdentity, explorer, wireguard
  <2>6. AdvertisedHeld'
    <3>1. registered' = registered
      BY <1>2 DEF explorer
    <3>2. registered # None => registered.domains \subseteq Zones
      BY <1>1 DEF TypeOK
    <3> QED BY <1>1, <2>2, <3>1, <3>2 DEF AdvertisedHeld, OneIdentity
  <2>7. /\ flags'.domains \subseteq ValidZones
        /\ \A y \in flags'.domains \ todo' : holder'[y] = identity'
    BY <1>1, <1>6, <2>1, <2>2 DEF IInv, Claiming, TypeOK
  <2>8. flags'.tunnels => SetUpBy(phase') \subseteq link'
    BY <1>6, <2>1 DEF SetUpBy
  <2> QED BY <1>2, <1>3, <1>6, <2>1, <2>4, <2>5, <2>6, <2>7, <2>8 DEF IInv
<1> QED BY <1>4, <1>5, <1>6

(* Registrations are made when all domains are claimed.                    *)
LEMMA RegisterNext == IInv /\ (Register \/ RegisterUnconfirmed) /\ TickerTypes' => IInv'
<1> SUFFICES ASSUME IInv, Register \/ RegisterUnconfirmed, TickerTypes' PROVE IInv'
  OBVIOUS
<1>1. TypeOK /\ OneIdentity /\ AdvertisedHeld /\ GivenWorks
  BY DEF IInv
<1>2. phase = "register" /\ todo = {} /\ identity = seed /\ identity \in Ids
  BY <1>1 DEF Register, RegisterUnconfirmed, TypeOK, IInv
<1>3. /\ registered' = Registration /\ UNCHANGED <<wireguard, seed, adopts, holder, reachable, heard>>
      /\ UNCHANGED <<flags, todo, identity>> /\ phase' \in {"register", "clear", "announce"}
      /\ (phase' = "announce" => ~flags.tunnels) /\ upsets' \in 0 .. MaxUpsets
  BY <1>1, <1>2 DEF Register, RegisterUnconfirmed, process, GoTo, TypeOK, Upset
<1>4. WireGuardTypes' /\ GivenWorks'
  BY <1>1, <1>3 DEF wireguard, TypeOK, WireGuardTypes, GivenWorks
<1>5. Registration \in [id : Ids, domains : SUBSET Zones] /\ Registration.id = seed
      /\ Registration.domains = flags.domains
  BY <1>1, <1>2 DEF Registration, TypeOK
<1>6. TypeOK'
  BY <1>1, <1>2, <1>3, <1>4, <1>5 DEF TypeOK, Phases
<1>7. /\ flags.domains \subseteq ValidZones
      /\ \A z \in flags.domains : holder[z] = identity
  BY <1>2 DEF IInv, Claiming
<1>8. OneIdentity' /\ AdvertisedHeld'
  BY <1>1, <1>2, <1>3, <1>5, <1>7 DEF OneIdentity, AdvertisedHeld, wireguard
<1>9. flags'.tunnels => SetUpBy(phase') \subseteq link'
  BY <1>3 DEF SetUpBy
<1> QED BY <1>2, <1>3, <1>4, <1>6, <1>7, <1>8, <1>9 DEF IInv

(* A user takes and gives back only zones that are nobody's or its own.    *)
LEMMA DelegateNext ==
  ASSUME IInv, NEW user \in Users, NEW z \in Zones, Delegate(user, z), TickerTypes'
  PROVE  IInv'
<1>1. TypeOK /\ OneIdentity /\ AdvertisedHeld /\ GivenWorks
  BY DEF IInv
<1>2. UNCHANGED <<process, wireguard, adopts, seed, explorer, upsets>>
  BY DEF Delegate
<1>3. WireGuardTypes' /\ GivenWorks'
  BY <1>1, <1>2 DEF wireguard, TypeOK, WireGuardTypes, GivenWorks
<1>4. /\ holder[z] \notin Ids /\ holder' \in [Zones -> Ids \cup Users \cup {None}]
      /\ \A y \in Zones : y # z => holder'[y] = holder[y]
      /\ holder'[z] \notin Ids
  BY <1>1 DEF Delegate, TypeOK
<1>5. TypeOK'
  BY <1>1, <1>2, <1>3, <1>4 DEF TypeOK, process, explorer
<1>6. OneIdentity'
  BY <1>1, <1>2, <1>4 DEF OneIdentity, explorer, wireguard
<1>7. AdvertisedHeld'
  <2>1. registered # None => registered.domains \subseteq Zones /\ registered.id \in Ids
    BY <1>1 DEF TypeOK
  <2> QED BY <1>1, <1>2, <1>4, <2>1 DEF AdvertisedHeld, explorer
<1>8. phase' \in Claiming =>
        /\ flags'.domains \subseteq ValidZones
        /\ \A y \in flags'.domains \ todo' : holder'[y] = identity'
  <2>1. identity \in Ids /\ flags.domains \subseteq Zones
    BY <1>1 DEF TypeOK, Delegate, Serving
  <2> QED BY <1>2, <1>4, <2>1 DEF IInv, process
<1> QED BY <1>2, <1>3, <1>5, <1>6, <1>7, <1>8 DEF IInv, process, wireguard, SetUpBy

(* The first start makes the identity that all later ones read.            *)
LEMMA IdentifyNext == IInv /\ (Identify \/ SaveFails) /\ TickerTypes' => IInv'
<1> SUFFICES ASSUME IInv, Identify \/ SaveFails, TickerTypes' PROVE IInv'
  OBVIOUS
<1>1. TypeOK /\ OneIdentity /\ AdvertisedHeld /\ GivenWorks
  BY DEF IInv
<1>2. UNCHANGED <<flags, wireguard, adopts, holder, explorer>> /\ todo' \subseteq todo
      /\ phase = "identify" /\ upsets' \in 0 .. MaxUpsets
  BY <1>1 DEF Identify, SaveFails, End, TypeOK, Upset
<1>3. WireGuardTypes' /\ GivenWorks'
  BY <1>1, <1>2 DEF wireguard, TypeOK, WireGuardTypes, GivenWorks
<1>4. \/ phase' = "prepare" /\ identity' \in Ids /\ seed' = identity'
      \/ phase' = "down" /\ identity' = None /\ seed' \in {None, Cut}
  BY <1>1 DEF Identify, SaveFails, SeedFor, End, TypeOK
<1>5. seed' = seed \/ seed = None
  BY DEF Identify, SaveFails, SeedFor
<1>6. TypeOK'
  BY <1>1, <1>2, <1>3, <1>4 DEF TypeOK, Phases, explorer
<1>7. OneIdentity'
  <2>1. CASE seed' = seed
    BY <1>1, <1>2, <2>1 DEF OneIdentity, explorer, wireguard
  <2>2. CASE seed = None
    <3>1. \A z \in Zones : holder[z] \notin Ids
      BY <1>1, <2>2 DEF OneIdentity
    <3>2. registered = None
      BY <1>1, <2>2 DEF OneIdentity, TypeOK
    <3>3. \A k \in Keys : peers[k] = {}
      BY <1>1, <2>2 DEF OneIdentity, TypeOK, WireGuardTypes, Addresses
    <3> QED BY <1>2, <3>1, <3>2, <3>3 DEF OneIdentity, explorer, wireguard
  <2> QED BY <1>5, <2>1, <2>2
<1>8. AdvertisedHeld'
  BY <1>1, <1>2 DEF AdvertisedHeld, explorer
<1> QED BY <1>2, <1>3, <1>4, <1>6, <1>7, <1>8 DEF IInv, Claiming, SetUpBy

(* Every other step is quiet.                                              *)
LEMMA OtherNext ==
  ASSUME IInv, [Next]_vars, TickerTypes', ~Claim, ~Register, ~RegisterUnconfirmed, ~Identify, ~SaveFails,
         \A user \in Users, z \in Zones : ~Delegate(user, z)
  PROVE  IInv'
<1>1. TypeOK /\ GivenWorks /\ (identity # None => identity = seed)
      /\ (flags.tunnels => SetUpBy(phase) \subseteq link)
  BY DEF IInv
<1>2. ASSUME UNCHANGED wireguard
      PROVE  WireGuardTypes' /\ GivenWorks' /\ link' = link
             /\ \A k \in Keys : \A a \in peers'[k] : a \in peers[k] \/ a[1] = seed
  BY <1>1, <1>2 DEF wireguard, TypeOK, WireGuardTypes, GivenWorks
<1>3. CASE Start \/ SeedUnread \/ GiveUpRegistration \/ CreateFails \/ StepFails \/ Crash
  <2>1. /\ UNCHANGED <<wireguard, adopts, seed, holder, explorer>>
        /\ upsets' \in 0 .. MaxUpsets
    BY <1>1, <1>3 DEF Start, SeedUnread, GiveUpRegistration, CreateFails, StepFails, Crash, Upset, TypeOK
  <2>2. \/ End
        \/ flags' \in Flags /\ phase' = "identify" /\ phase = "down" /\ UNCHANGED <<todo, identity>>
    BY <1>3 DEF Start, SeedUnread, GiveUpRegistration, CreateFails, StepFails, Failed, Crash
  <2>3. SetUpBy(phase') = {}
    BY <2>2 DEF SetUpBy, End
  <2> QED BY <1>1, <1>2, <2>1, <2>2, <2>3, QuietNext DEF Others, explorer, TypeOK
<1>4. CASE Stop
  <2>1. /\ UNCHANGED <<adopts, seed, holder, explorer>> /\ End /\ identity # None
        /\ upsets' \in 0 .. MaxUpsets /\ (UNCHANGED wireguard \/ Close)
    BY <1>1, <1>4 DEF Stop, Serving, Upset, TypeOK
  <2>2. SetUpBy(phase') = {}
    BY <2>1 DEF SetUpBy, End
  <2> QED BY <1>1, <2>1, <2>2, PeersKept, QuietNext DEF Others, explorer, TypeOK
<1>5. CASE Prepare
  <2>1. UNCHANGED <<wireguard, adopts, seed, holder, explorer, upsets>>
    BY <1>5 DEF Prepare
  <2>2. CASE End
    BY <1>1, <1>2, <2>1, <2>2, QuietNext DEF Others, explorer, TypeOK, SetUpBy, End
  <2>3. CASE flags.domains \subseteq ValidZones /\ phase' = "claim" /\ todo' = flags.domains
             /\ UNCHANGED <<flags, identity>>
    <3>1. WireGuardTypes' /\ GivenWorks' /\ phase = "prepare"
      BY <1>2, <1>5, <2>1 DEF Prepare
    <3>2. TypeOK'
      BY <1>1, <2>1, <2>3, <3>1 DEF TypeOK, Phases, explorer
    <3>3. OneIdentity' /\ AdvertisedHeld'
      BY <2>1 DEF IInv, OneIdentity, AdvertisedHeld, explorer, wireguard
    <3> QED BY <1>1, <2>1, <2>3, <3>1, <3>2, <3>3 DEF IInv, SetUpBy
  <2> QED BY <1>5, <2>2, <2>3 DEF Prepare
<1>6. CASE Claimed \/ Clear \/ Announce
  <2>1. /\ UNCHANGED <<wireguard, adopts, seed, holder, registered, reachable, upsets>>
        /\ heard' \in BOOLEAN /\ UNCHANGED <<flags, todo, identity>>
        /\ \/ phase = "claim" /\ phase' = "register" /\ todo = {}
           \/ phase = "clear" /\ phase' = "create"
           \/ phase = "announce" /\ phase' = "serve"
    BY <1>1, <1>6 DEF Claimed, Clear, Announce, GoTo, explorer, TypeOK
  <2>2. todo = {} /\ phase \in Claiming
    BY <1>1, <2>1 DEF TypeOK, Claiming
  <2>3. flags'.tunnels => SetUpBy(phase') \subseteq link
    BY <1>1, <2>1 DEF SetUpBy
  <2> QED BY <1>1, <1>2, <2>1, <2>2, <2>3, QuietNext DEF Others, TypeOK
<1>7. CASE SetUpInterface
  <2>1. PICK stage \in Stages :
          /\ SetUp(stage) /\ UNCHANGED <<adopts, seed, holder, explorer, upsets>>
          /\ UNCHANGED <<flags, todo, identity>>
          /\ \/ phase = "create" /\ stage = "created" /\ phase' = "address"
             \/ phase = "address" /\ stage = "addressed" /\ phase' = "configure"
             \/ phase = "configure" /\ stage = "configured" /\ phase' = "raise"
             \/ phase = "raise" /\ stage = "raised" /\ phase' = "announce"
    BY <1>7 DEF SetUpInterface, SetUpFrom, GoTo, Stages
  <2>2. link' = link \cup {stage}
    BY <2>1 DEF SetUp
  <2>3. flags'.tunnels => SetUpBy(phase') \subseteq link'
    BY <1>1, <2>1, <2>2 DEF SetUpBy, Stages
  <2>4. todo = {} /\ phase \in Claiming /\ identity # None
    BY <1>1, <2>1 DEF TypeOK, Claiming
  <2> QED BY <1>1, <2>1, <2>3, <2>4, PeersKept, QuietNext DEF Others, explorer, TypeOK
<1>8. ASSUME NEW user \in Users, NEW key \in Keys, Tunnel(user, key) PROVE IInv'
  <2>1. /\ UNCHANGED <<process, adopts, seed, holder, explorer, upsets>> /\ identity # None
        /\ AddPeer(user, key) \/ RemovePeer(key)
    BY <1>1, <1>8 DEF Tunnel, Tunnels, Serving, TypeOK
  <2>2. link' = link
    BY <2>1 DEF AddPeer, RemovePeer
  <2> QED BY <1>1, <2>1, <2>2, PeersKept, QuietNext DEF Others, explorer, process, TypeOK, SetUpBy
<1>9. CASE TenMinutes \/ Heartbeat \/ Outage \/ Recover \/ UNCHANGED vars
  <2>1. /\ UNCHANGED <<phase, flags, todo, identity, wireguard, adopts, seed, holder, registered>>
        /\ reachable' \in BOOLEAN /\ heard' \in BOOLEAN /\ upsets' \in 0 .. MaxUpsets
    <3>1. CASE TenMinutes \/ Heartbeat \/ Recover
      BY <1>1, <3>1 DEF TenMinutes, Heartbeat, TakeTick, Beat, GiveUpBeat, Recover, TypeOK, process, explorer
    <3>2. CASE Outage
      <4>1. upsets \in 0 .. MaxUpsets /\ upsets < MaxUpsets /\ upsets' = upsets + 1
        BY <1>1, <3>2 DEF Outage, Upset, TypeOK
      <4>2. upsets' \in 0 .. MaxUpsets
        BY <4>1
      <4> QED BY <1>1, <3>2, <4>2 DEF Outage, TypeOK, process
    <3>3. CASE UNCHANGED vars BY <1>1, <3>3 DEF vars, explorer, process, TypeOK
    <3> QED BY <1>9, <3>1, <3>2, <3>3
  <2> QED BY <1>1, <1>2, <2>1, QuietNext DEF Others, process, SetUpBy
<1> QED BY <1>3, <1>4, <1>5, <1>6, <1>7, <1>8, <1>9 DEF Next, Run

-----------------------------------------------------------------------------
(* Theorems                                                                *)

(* The inductive invariant, over any number of starts.                     *)
THEOREM Invariance == Safety => []IInv
<1>1. IInv /\ [Next]_vars => TickerTypes'
  BY TickerNext DEF IInv
<1>2. IInv /\ [Next]_vars => IInv'
  BY <1>1, ClaimNext, RegisterNext, IdentifyNext, DelegateNext, OtherNext
<1> QED BY <1>2, InitIInv, PTL DEF Safety

(* The type invariant, with what the process knows at which point.         *)
THEOREM TypeCorrect == Safety => []TypeOK
<1>1. IInv => TypeOK
  BY DEF IInv
<1> QED BY <1>1, Invariance, PTL

(* What the gateway left anywhere is of the identity in its seed file.     *)
THEOREM IdentityIsOne == Safety => []OneIdentity
<1>1. IInv => OneIdentity
  BY DEF IInv
<1> QED BY <1>1, Invariance, PTL

(* What the explorer advertises is valid and held by the gateway.          *)
THEOREM AdvertisedIsHeld == Safety => []AdvertisedHeld
<1>1. IInv => AdvertisedHeld
  BY DEF IInv
<1> QED BY <1>1, Invariance, PTL

(* Tunnels are served on an interface that is set up.                      *)
THEOREM InterfaceIsSetUp == Safety => []ServesWithLink
<1>1. IInv => ServesWithLink
  BY DEF IInv, TypeOK, WireGuardTypes, ServesWithLink, Tunnels, Serving, SetUpBy, Stages
<1> QED BY <1>1, Invariance, PTL

(* A configuration given to a user works until a later call about it.      *)
THEOREM GivenStaysGood == Safety => []GivenWorks
<1>1. IInv => GivenWorks
  BY DEF IInv
<1> QED BY <1>1, Invariance, PTL

=============================================================================
