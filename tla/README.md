# TLA+ specifications of the threefold gateway (tfgateway)

The gateway sells network primitives: names in a zone of its own, names in
zones delegated to it, TCP proxies, reverse TCP tunnels, and IPv6 tunnels over
wireguard. It polls an explorer for reservations, carries each one out by
writing the configuration of another server into redis (CoreDNS, the TCP
router) or the kernel (wireguard), remembers it in a cache, and undoes it when
it is cancelled or expires. These modules say what the parts promise, follow
the code step by step, and show by model checking (TLC) and by proof (TLAPS)
how far it keeps the promises.

## Inventory

| part | source | state | operations | what makes it correct |
|---|---|---|---|---|
| CoreDNS manager `dns.Mgr` | `dns/` | redis hashes `zone` (owners), `managed_domains` (reservations), `<zone>.` (records) | AddSubdomain, RemoveSubdomain, AddDomainDelagate, RemoveDomainDelagate, Cleanup | one holder per zone and per free name; only it changes what is published; nothing published under a free name; managed zones stay the gateway's |
| TCP router manager `proxy.Mgr` | `proxy/`, `reserse_proxy.go` | redis key per domain: user and route | AddProxy, RemoveProxy, AddReverseProxy, RemoveReverseProxy | one holder and one route per domain; tunnels only to the holder's client |
| reservation cache `cache.Redis` | `cache/cache.go` | redis hash of reservations, RWMutex | Add, Remove, Get, Exists, GetExpired, Sync, ClearByType | a listing is consistent, no deadlock with the pool |
| redis pool | `redis/pool.go` | at most 3 connections, waiting callers | Get, Close, PING on borrow | nested borrowers never wait for each other in a circle |
| engine (zos `provision`, external) with `Provisioner` | `provision.go` and one file per primitive | the job under way, what the sources of jobs handed over | provision, decommission, expire | what is cached is deployed, what was cancelled is deleted in the end and leaves nothing, answers stand |
| counters | `counters.go` | one counter per type | Increment, Decrement, CurrentWorkloads | agree with the cache |
| feedback, conversions | `feedback.go`, `provision.go` | none | Feedback, Deleted, UpdateStats, WorkloadToProvisionType, ResultToSchemaType | a lost result or deletion does no harm to what is deployed |
| 4to6 | `wg/`, `4to6.go` | peers of the kernel interface | AddPeer, RemovePeer, New, Close | the configuration a user was given works; peers are rebuilt after a restart |
| process | `cmd/tfgateway/main.go` | phase of `run`, flags, seed file | sync, Cleanup, claim domains, register, clear 4to6, run; uptime ticker | one identity; advertises only zones it holds; serves again after crashes and outages; is heard |
| reservation cache on files `Fs` | `reservation_cache.go` (unused by the program) | a directory | as `cache.Redis` | implements an abstract store, whatever crashes leave in the directory |

Interactions. One engine goroutine calls the provisioners and decommissioners,
one call at a time; a second goroutine lists expired reservations in the cache;
both share the mutex of the cache and the pool. The managers do not call each
other, but their writes are read by CoreDNS and the TCP router at once. redis
survives the gateway, which its supervisor restarts.

What is hard. Every operation is several redis commands with no transaction: it
can fail in the middle, and the process can die in the middle. The pool hands
out connections that may have been idle for up to ten seconds without a test,
so a command can be refused, or executed and its answer lost. Three stores say
something about one name (owner of the zone, reservation, records) and only the
order of the writes keeps them consistent. The engine has no transaction
either: it deploys, answers, stores and counts in steps, skips at the next start
what the cache holds, and gets its jobs from two sources, a poller and a list of
what has expired, which may both hand over one workload.

## Modules

| module | what it is |
|---|---|
| `Registry` | the abstract specification: keys have at most one holder, that alone gives them up; a taken key is never taken over |
| `CoreDNS` | `dns.Mgr` with the part of the start that uses it |
| `MCCoreDNS` | its instances for TLC |
| `CoreDNSProofs` | theorems about `CoreDNS` |
| `TCPRouter` | `proxy.Mgr` with the validation of reverse proxies |
| `MCTCPRouter`, `TCPRouterProofs` | its instance and theorems |
| `ReservationCache` | `cache.Redis` with its RWMutex and the connection pool, under the two goroutines of the program, from the start on |
| `MCReservationCache`, `ReservationCacheProofs` | its instances and theorems |
| `Gateway` | the composition: explorer, poller, expiry, engine, cache, counters, and the managers of all five types of workloads, over restarts |
| `MCGateway`, `GatewayProofs`, `GatewayDeletedProofs`, `GatewayReportProofs` | its instances and theorems |
| `WireGuard` | `wg.Mgr` and `wg.IPPool` over the kernel's interface |
| `Lifecycle` | the process from its start to its end (`run`), with `WireGuard` (it EXTENDS it) |
| `MCLifecycle`, `LifecycleProofs` | its instance and theorems |
| `ReservationStore` | the abstract specification of a reservation cache: a set, each operation at one moment; implemented by `ReservationCache` and by `FileCache` |
| `FileCache` | `Fs`, file access by file access; it implements `ReservationStore` |
| `MCFileCache`, `FileCacheProofs` | its instance and theorems |

`CoreDNS`, `TCPRouter`, `ReservationCache` and `WireGuard` are one component
each, in full detail. `Gateway` puts them together with a call of a manager as
one step, and the stores a call may leave, when it fails or is cut short, as
the detailed modules find them: `CutShortAdd`, `FailedAdd` and `CutShortRemove`
enumerate the outcomes of the writes of AddSubdomain and RemoveSubdomain, and
the other calls are one write. Three simplifications of the composition: the
owner record of a delegation is in `CoreDNS` only; a name reserved without
records, and a name with records, are the two cases of `holder` and `content`;
a managed zone is the gateway's from the start on (`ManagedZonesHeld`).

### CoreDNS

Variables. `zone`, `managed` and `hash` are the three kinds of redis hashes; a
missing field is `None`. The key of a hash of records is `Dotted(z)` when it
went through `setZoneRecords` and its siblings, which append the final dot, and
`Bare(z)` when it did not. A record is the address it holds, or the owner in an
owner record; the lists of the JSON are sets, because `Zone.Remove` drops every
record equal to its argument and nothing else observes duplicates; addresses of
both families are treated alike, as `recordFromIP` is injective. `mode`, `todo`,
`call` and `pc` are the process: whether it runs, which `--domains` are still to
be claimed, the call under way and the next write of it.

Steps. One action per redis write, together with the reads that decide it: the
calls come from one goroutine, so nothing else can change the stores between a
read and the write after it. Each write has an outcome from `Outcomes`: `done`,
`refused` (an error and no effect), `lost` (an effect and an error). A read that
fails is `ReadFails`, or, after the first write of AddSubdomain, the same as a
refused write; a malformed domain name is rejected before any read and leaves
nothing, as `ReadFails` does. `Crash` can happen between any two steps, and
right after a write. `Start` is `Cleanup`, which may fail on any field;
the claims of the managed domains then are calls of AddDomainDelagate by the
gateway itself, whose error ends the process. The set of managed domains is the
same at every start. A label with no name in front of a two-part domain
(`splitDomain` returns "") is a label like any other.

| property | what it says |
|---|---|
| `ManagedZonesHeld` | while serving, every managed zone is the gateway's |
| `OwnerTxtPublished` | ... and its owner record is published, whatever users do with the label `__owner__` |
| `SuccessAssures` | what a caller may rely on after success: an addition is in both stores it writes; a zone given back is free; addresses taken back are gone and nobody else has their name reserved |
| `RecordsGuarded` | addresses of a name change only in a call about it by a user entitled to it; Cleanup and delegations change none |
| `NoOrphanRecords` | no address under a free name of a managed zone (for acknowledged or ineffective writes) |
| `ZoneRegistry`, `NameRegistry` | zones, and the names of managed zones, implement `Registry` |
| `DelegationLeavesNothing`, `ClearedNameIsFree` | what two comments of the code say; violated, see below |

`SuccessAssures` claims less of the two removals than one would expect of them,
because the code does less: RemoveDomainDelagate reports success with the
records of the zone still there, and RemoveSubdomain of a name without records
reports success with the reservation still there. Those are the two violated
properties, and the property that passes does not hide them.

Names of delegated zones are not a registry, and are not claimed to be one:
the owner of the zone may take a name that another user reserved when the zone
was that user's.

### TCPRouter

`service` maps a domain to the value of its redis key: user, address, secret.
The base64 wrapping is left out: it is undone by the reader. The check
(`canUseDomain`) and the write are separate steps, as they use separate
connections. A secret is known by the user before its first colon
(`SecretUser`); `Valid` is `ReverseProxy.validate`, and a secret that cannot be
decrypted is `ReadFails`. A Proxy is not validated in the code: an empty domain or an
empty address is accepted, and the model accepts them.

`Routes` says that a domain goes to one place and to a client only if its
secret names the holder of the domain; `DomainRegistry` that domains implement
`Registry`, proxies and reverse proxies together; `ReplyMeansDone` that after success
the one key a call writes is what it was asked to be.

### ReservationCache

The other two modules take one call at a time and leave the connections out;
here the calls interleave and the data is left out. `cached` is the redis hash,
a set of IDs: type and contents of a reservation are those of its ID (`TypeOf`,
`Unreadable`), and `late` are the IDs whose time is over. Per goroutine there
are the operation, the next step, the ID in hand, the list under way and the
number of connections held; `readers` and `writer` are the RWMutex. `Main`
starts the gateway (`Sync`, then `ClearByType` if 4to6 is enabled) and is the
engine from then on; a lister calls `GetExpired`, as the decommission source
given to the engine in main.go does. `Manage` stands for the operations of the
two managers, by what they do with the pool: a connection, and a second one
while they hold it. (A manager borrows the second connection several times in a
row; once is enough, as it comes back to the same state.) What the start does
between `Sync` and `ClearByType` is alone and uses neither lock nor cache.

The engine and the decommission source are a library; the model only says that
each makes its calls one after the other, with any operation and any ID. The RWMutex
of Go and the pool are modelled by their rules: a writer that waits holds back
new readers, an unlocking writer lets in the readers that queue, and `Get` of
the pool waits while all connections are lent. A read or write on a connection
can fail at any time, a write with or without effect. A reservation that cannot
be decoded makes `get` fail (`ReadFails`), or panic: when its version cannot be
read, for another reason than that there is none, `get` goes on with a nil
reader. Which of the two is up to the library that reads versions, so
`ReadPanics` is the death of the process at that point. Closing the connection
and releasing the lock at the end of an operation are one step, as neither
waits. `count` is what `Sync` counts; the later increments and decrements are
the engine's and are in `Gateway`.

| property | what it says |
|---|---|
| `ListingExact` | GetExpired, read field by field, is the list of one moment |
| `NoDeadlock` | the goroutines never all wait for each other |
| `OperationsEnd` | every operation ends |
| `ClearedAtStart` | the gateway serves only when nothing is left of the types to clear, and nothing it cannot read |
| `CountersInSync` | it then serves with counters that agree with the cache |
| `Store` | it implements `ReservationStore`: every answer is that of one moment of the hash |

### Gateway

`wanted` is what the explorer wants of each workload (deploy, delete, deleted)
and `answer` the result it was told. `holder` and `content` are what redis and
the kernel hold of each domain, name, zone and key. `cached`, `ending` and
`late` are the cache, its entries with a duration, and those whose time is over:
a polled workload never expires (`Duration: math.MaxInt64`), so only what an
older gateway left (`Old`) does. `count` are the counters on `Word` values, of
which `Reported` shows `Cut`. `seen`, `batch` and `due` are what the two sources
have handed over; `job`, `pc` and `left` the engine.

The engine and the poller are libraries. What the model says of them is what
this repository needs: the engine takes one job at a time from either source,
skips a workload whose type has no provisioner and one that is cached, answers
and stores a deployed one in any order, then counts it; it decommissions a
cached one, forgets it, uncounts it and tells the explorer; an error ends the
job. The poller hands over a batch sorted by `ProvisionOrder`, everything new to
the process and everything to be deleted, perhaps more.

`Stop` is a signal between two jobs; `Close` then deletes the wireguard
interface. `Crash` may come between any two steps, `CrashInCall` in a call of a
manager. Each failure of redis has the outcomes that the detailed modules have,
and `FeedbackFails` loses a report to the explorer.

| property | what it says |
|---|---|
| `CachedIsDeployed` | with every failure: a cached workload is deployed, so the engine is right to skip it |
| `DeletedLeavesNothing` | what the explorer was told is deleted is not deployed |
| `CountersMatchCache` | between jobs the reported counters are those of the cache |
| `AnswerStands` | "ok" is never followed by "error" for a wanted workload, restarts or not |
| `DelegationFirst` | a subdomain is not refused for want of a delegation that came with it |
| `CancelledIsDeleted` | a cancelled workload is deleted in the end |
| `TunnelsComeBack` | tunnels are configured again after a restart |

What they do not claim, because the code does not do it. `Contested`: two
workloads of one user for one domain share a key of redis, and removing one
removes what the other needs; peers of one key, or of one user, likewise.
`Lasting`: a name of a delegated zone goes with its zone. A workload whose
expiry is listed while the poller offers it may be undone and deployed again.
With crashes, a workload deployed and not yet cached is deployed twice, and a
subdomain then fails as its name is taken, by itself; a workload cancelled
between those two steps is reported deleted and stays deployed. So the
other properties than `CachedIsDeployed` are checked without failures. Two of
them, `CountersMatchCache` and `DelegationFirst`, are proved for crashes too, as
long as redis and the explorer answer: a cache that fails, or a result that does
not reach the explorer, ends a job before the counter moves; and a call that
fails refuses a subdomain, whatever its delegation.

### WireGuard and Lifecycle

`link`, `peers` and `given` outlive the process: the stages of the interface the
kernel has, the allowed addresses of each peer, and (for the property) the peer
each address was last given to. An address is the identity, which stands for the
hashed /64 prefix, and a hash of identity and user; the hashes are assumed
injective. `Lifecycle` runs `WireGuard` from the phases of `run`: seed file,
counters and location, claims, registration, clearing of tunnels, the four
stages of `setupWGNamespace`, first heartbeat, service. Flags may change from
start to start. What a library does with an interface that a crash left is not
in this repository, so `adopts` chooses once per behaviour: take it over, or
refuse every start.

The heartbeats are `uptimeTicker.Start`. `Announce` tries the first one, and
starts the clock and the goroutine whether it got through or not. `ticker` is
where that goroutine is: it waits for the clock, or sends one heartbeat, again
and again (`Beat`), until it arrives or the backoff is exhausted after a quarter
of an hour (`GiveUpBeat`). `tick` is the channel of the clock, which holds one
tick and loses those that come while it is full: `TenMinutes` may pass several
times while a heartbeat is retried. `heard` is whether the explorer heard of the
gateway since the last ten minutes began. That a heartbeat is given up must not
end the loop: the mutant of `HeartbeatsGoOn` is a goroutine that returns then.

The gateway comes back in three ways that `Start` does not tell apart: its unit
has `Restart=on-failure`, so a crash and a failed start are followed by another
start; after a signal `run` returns without an error, and the next start is the
operator's. One thing that stops every start is outside this module: a cached
reservation that cannot be read (`ReservationCache`, `ClearedAtStart`), as here
a failure of `Prepare` is not permanent.

| property | what it says |
|---|---|
| `OneIdentity` | zones, registration and addresses are of the identity in the seed file |
| `AdvertisedHeld` | what the explorer offers are valid zones the gateway holds, over changes of `--domains` and starts that end half-way |
| `ServesWithLink` | tunnels are served only on an interface with address, key and state |
| `GivenWorks` | the configuration a user was given works until a call about its address or key, or the interface's end |
| `EventuallyServes` | after any crashes, failures and outages it serves again, or its operator or the seed file or a left interface is in the way |
| `HeartbeatsGoOn` | while it serves and the explorer answers, the explorer keeps hearing of it, however many heartbeats were given up in outages |

### ReservationStore and its two caches

The program uses the redis cache; `Fs` is the older implementation of the same
interface. A file is absent, empty, cut short or whole: O_EXCL creates it empty,
one write fills it, and a crash or a failed write leaves it in between. `Sync`
and `GetExpired` read the directory once and then each file; `GetExpired`
deletes an empty file under the read lock and returns. `stored`, the whole
files, is the refinement mapping to `ReservationStore`, in which every answer
is true of one moment: what was counted was the store, what was listed was in
it and late, a reservation was added once. Lists may be incomplete in
the abstract store, since those of `Fs` are (see Findings). `Panics` is
the nil reader of `get`, as in `ReservationCache`. `ListingsRecover`:
listings are complete again after any crashes, unless a file cut short stays.

`ReservationCache` implements the same store. Two parameters tell the caches
apart: redis overwrites a reservation that is added again (`Overwrites`), and a
write whose answer is lost may have been done (`Lossy`), where a file whose
writing failed is no reservation. `cached` is the refinement mapping, and
`ReplyTo` what an operation answers when it returns; `ClearByType`, which works
without a lock, answers with each removal.

## Runs

| run | bounds | result |
|---|---|---|
| `coredns_faults` | 2 users, a managed and a delegated zone, a name in each and the owner label in the managed one, 2 addresses, lists {}, {1}, {1,2}; every outcome; crashes | passes, 2.9 million states |
| `coredns_clean` | the same without lost answers | passes, 1.5 million states |
| `coredns_undelegate` | one address; all writes acknowledged | violation of `DelegationLeavesNothing` |
| `coredns_release` | one address; all writes acknowledged; crashes | violation of `ClearedNameIsFree` |
| `tcprouter` | 2 users, 2 domains (one empty), 2 addresses, 3 secrets; every outcome; crashes | passes, 5616 states |
| `reservation_cache` | one lister, 3 connections; a proxy, a tunnel and an undecodable reservation; every outcome; crashes | passes, 136 thousand states |
| `reservation_cache_live` | the same with the two decodable reservations | passes |
| `gateway_faults` | six pairs out of nine workloads: proxy and reverse proxy of one user, proxies of two users for one domain, subdomains of two users with one name, a delegation and a subdomain of it, two peers with one key, a subdomain and a tunnel; a proxy left by an older gateway; `MaxUpsets` = 3 stops, crashes and failures; starts with and without 4to6 | passes, 1.4 million states |
| `gateway_live` | three workloads for one domain (one left by an older gateway), a delegation with a subdomain, a subdomain, a tunnel; one stop | passes, 180 thousand states |
| `lifecycle` | 2 identities, 2 users, 3 keys (one malformed), 3 zones (one invalid), 4 command lines; `MaxUpsets` = 3 stops, crashes, failures and outages | passes, 230 thousand states |
| `filecache` | an engine with every operation, a lister, 2 reservations; `MaxUpsets` = 2 crashes and failures | passes, 106 thousand states |
| `filecache_listing` | the same with one | violation of `ListsAllExpired` |

Bounds. Two users are enough for one to act on what is another's, as no rule
compares three. One managed and one delegated zone are the two kinds there are;
zones and names interact only through the zone they belong to. Two addresses
make removals that leave something; the empty list is legal and leaves an empty
field, which only Cleanup removes. The first three modules bound nothing: all
values come from the constants, and there are no counters.

`MaxUpsets` bounds what goes wrong in one behaviour of the others, stops
included. Three in `gateway_faults` are a failure within a call, a crash of the
next attempt and a failure of the third; two in `filecache` leave an empty file
and one cut short. `Scenarios` bounds which workloads users reserve in one
behaviour: pairs that touch each other, as no rule of the code compares three,
and for liveness three, so that two users and both types contend for a domain.
`Word` = 8 and `Cut` = 2 stand for 2^64 and 2^16: the counters wrap and the
reported ones are cut more often than in the program, with the same arithmetic.
In `gateway_live`, 4to6 is enabled at every start; without failures a stop is
the one upset left, and the cached state before and after it is what its
properties are about.

Deadlock is checked in every run: a process that is down can always start.

The goroutines and connections of `reservation_cache` are the program's own
numbers. They are not generous: with two listers and three connections TLC
finds a deadlock, each of the three goroutines holding one connection and
waiting for its second.

Fairness. `OperationsEnd`: each goroutine that can take a step
eventually does (weak fairness): the Go scheduler runs it, and a command on a
connection is answered or fails. That redis answers is an assumption; the pool
sets no timeouts. Borrowing is strongly fair, since the pool hands connections
to its callers in line; with weak fairness alone TLC shows the engine taking
the connection a listing waits for again and again. Nothing is assumed about
requests, starts or crashes.

`gateway_live`: the supervisor starts the gateway again, the poller polls, the
expired are listed, the engine goes on with its job (weak fairness); taking a
job is strongly fair per source, as the engine selects among the sources that
wait and Go's select chooses at random. Users and time owe nothing. `lifecycle`:
the process goes on and is started again (after a crash by systemd, after a
signal by the operator), outages end, ten minutes pass, and the goroutine of the
heartbeats takes its ticks and gets through or gives up (weak fairness, as the
Go scheduler runs it and every attempt returns); failures and crashes are bounded by `MaxUpsets`.
`filecache`: listers ask again, each call goes on (weak fairness), and the
RWMutex lets everybody in in the end (strong fairness of `Lock`).

## Findings

* `coredns_undelegate`: RemoveDomainDelagate deletes the key `domain`, while the
  records are under `domain.`, so they stay published (coredns.go:431 against
  the comments at 430 and 319). If the zone is delegated again, by whomever,
  the old records are served with the new ones.
* `coredns_release`: RemoveSubdomain returns early when there are no records
  and keeps the reservation (coredns.go:339 against the comment at 352). The
  counterexample TLC prints is a crash in AddSubdomain; a crash between the two
  deletions of RemoveSubdomain, followed by the removal being repeated, leads
  to the same state.

* `filecache_listing`: GetExpired of the file cache returns at the first empty
  file, with no list and no error, while its comment promises "all"
  (reservation_cache.go:137 against 116). The next listing is complete again.

With lost answers `NoOrphanRecords` fails too: AddSubdomain takes a lost answer
for a failure and frees the name whose records it has published. No document of
the repository promises otherwise, so it is a limit of the property and no
finding.

## Proofs

All theorems hold for every value of the constants that satisfies the named
assumptions: managed zones are zones, users are not the gateway, `None` is
nothing else, addresses are not owners, writes have the three outcomes.

`CoreDNSProofs`. `ManagedZonesHeld` is not inductive: a claim in progress at a
start, and what a delegation checked before its second write, must be known.
`IInv` is the conjunction of

* `TypeOK`;
* `CallInv`: who the caller is in each mode, and which operation is at which
  point;
* `ProgressInv`: what a call made sure of before its next write (the name it
  reserved is still the caller's, the zone it will give up is the caller's or
  free, the name it will free has no records);
* `ManagedInv`: managed zones are free or the gateway's, and those already
  claimed are the gateway's and published;
* `SuccessAssures`.

Four lemmas say what a step can do to each store (`ZoneStep`, `ManagedStep`,
`RecordsStep`, and `CallNext` for the control); the invariants and the step
properties are read off them. `Invariance` is `Spec => []IInv`; `TypeCorrect`,
`ManagedZonesAreHeld`, `OwnerTxtIsPublished` and `SuccessIsAssured` follow.
`RecordsAreGuarded` is the action property, `ZonesAreRegistered` and
`NamesAreRegistered` the refinements: each step is a claim, a release, or
leaves the holders alone. `NoOrphans` assumes that no answer is lost, and adds
`OrphanInv`: in a managed zone a name without reservation has no address, and
neither has one just reserved or about to be freed.

`TCPRouterProofs`. `IInv` adds to the properties that a call past its check
still may use its domain and still has a valid secret. From it `RoutesAreSafe`
and `DomainsAreRegistered`.

`ReservationCacheProofs`. The theorems are about `Safety`, the specification
without fairness, for any number of listers, reservations and connections.
`IInv` says who does what (`ActorInv`), how many connections are held at each
point (`HoldInv`), that `readers` and `writer` are where the goroutines say they
are and exclude each other (`LockInv`), and that lists are as old as they say
(`FreshInv`), with `TypeOK` and `ListingExact`. `NeverDeadlocked` assumes fewer
goroutines than connections, and is a counting argument on top of `IInv`: if
every connection is lent, some goroutine holds two, and `HoldInv` says that such
a goroutine waits for nothing; if one is free, whoever waits for the lock waits
for a reader or a writer that can go on. `StartInv` relates what the start has
not read yet to the cache and to the counters; `ServesCleared` and
`ServesCounted` follow. They assume that the types to clear have no counter,
which is so in counters.go.

`StoreIsImplemented` is the refinement of `ReservationStore`: each of the steps
of `cache.Redis` is one operation of the store, or answers with nothing. It adds
two invariants to `IInv`. `FoundInv` says what the listing under way has read: at
the end of `Sync` all of the hash, as the start is alone; for `GetExpired`
`ListingExact` says it. `ClearInv` says that `ClearByType` has no reservation in
hand before it lists, and has one whenever it removes, so each of its removals
is one of the store. It holds for every value of the constants, with any number
of listers and any failures.

`GatewayProofs`, about `Safety`. That the cache holds only deployed workloads is
not inductive: a workload is cached some steps after it was deployed, and in
between another source may hand over a workload of the same key. `IInv` adds to
`TypeOK` that all that is cached, late or due was reserved and a batch asks to
delete only what is not wanted (`UnderWay`); that the engine provisions only
what is not cached and removes only what is not wanted or late (`Progress`);
that managed zones stay the gateway's; and that not only the cache but also the
workload about to be stored is deployed (`Kept`). The proof then goes call by
call: what the calls for one workload change of another one's domain, name, zone
or key, given that the two are no rivals. It holds for any number of workloads,
users, resources and failures; the assumptions are that old workloads are
proxies with a domain each and that two users do not share an address.

Two more theorems assume `Faults = {}`: stops and restarts, but no crash and no
failed call. `AnswersStand` adds `AnswerInv` to `IInv`: a workload that was
answered "ok" and is wanted is cached, or is a tunnel (which nothing refuses),
or is the job between its deployment and its storing, or between its removal and
the word of it; so the engine never provisions it again with another result.
`DeletedIsGone`, in `GatewayDeletedProofs`, is about `DeletedLeavesNothing`. An
unwanted workload that is not cached is told deleted without any call, so the
proof needs that nothing uncached is deployed (`DeployedInv`), hence that a
workload just reserved finds nothing of its own in redis or on the interface
(`OriginInv`: what is held is held for a reservation, and no peer is there
without an interface, which is why clearing the tunnels at a start loses none),
and that what was deleted is neither handed over nor cached again (`GoneInv`).

`GatewayReportProofs` allows crashes in and between any steps, but no failing
redis and no lost report (`Faults \subseteq {"crash"}`). `CountersAreOfTheCache`
rests on `CountInv`: in each state of a gateway that is up, the counter of a type
is the number of its cached reservations, less the job that is stored and not
yet counted, more the one that is forgotten and not yet uncounted. A crash
breaks no more than that, as the next start counts anew. `CachedOf` counts a
finite set, so the proof takes the reservation that comes or goes out of it
(`CachedOfSets`, `CountersKeepUp`). The theorem assumes fewer workloads than
`Word`, which is 2^64 in the code, so that no counter wraps; the cut to 16 bits
is in it. `DelegationsFirst` is an implication between two temporal formulas,
for each delegation and each of its subdomains. `Upheld` is the hypothesis on
the delegation, `OrderInv` what it keeps true: a delegation the poller has
handed over is in the batch, is the job, or is cached; its subdomain is in the
batch only when the delegation has been handed over; and since `First` takes the
delegation before it, the subdomain is the job only when the delegation is
cached, hence deployed by `IInv`, and is not refused.

`LifecycleProofs`, about `Safety`. `IInv` ties the phase to what has been done
by then: from `Identify` on, the identity of the process is the seed; from the
claims on, the domains of the flags are valid and those no longer in `todo` are
held; and the interface has the stages that precede the phase. Zones are given
back by users only, which are no identities, so what was advertised stays held.

`FileCacheProofs`, about `Safety`. `LockInv` says who is inside the lock and that
a file being written is not whole; `ListInv` what a listing has found so far: a
subset of the whole files, for `Sync` all those passed, and that the files it
saw empty are empty or gone. So a listing's answer is true when it is given,
and what the read lock lets change is no reservation. `StoreIsImplemented` is
the refinement: every step is one of `ReservationStore` or a stutter.

Only model-checked: the six liveness properties (`OperationsEnd`,
`CancelledIsDeleted`, `TunnelsComeBack`, `EventuallyServes`, `HeartbeatsGoOn`,
`ListingsRecover`), as they need fairness, which is out of the prover's reach.
Every other property of the passing runs has a theorem.

## Not modelled

* The engine, the poller, the decommission source and the explorer's own code:
  libraries and services, modelled from how this repository uses them. What the
  engine does after a failure is assumed to be no more than ending the job.
* The contents of workloads: the converters of `provision.go` copy fields, and
  results are reduced to their state. That an ID, or the reference of a migrated
  workload, names one workload is assumed (`Workloads`).
* Cryptography: decryption of secrets, signatures and key pairs; md5 hashes are
  injective. Users whose addresses collide are excluded by `AddressAssumption`.
* The system calls of `setupWGNamespace` beyond their order and their failure;
  the kernel's wireguard is modelled by how it treats peers and addresses.
* Dialling and idle times of the redis pool: they are why an access can fail.
* Durability: a crash is that of the process, and what redis, the file system
  and the kernel acknowledged stays.
* Log lines, metrics of the host, geolocation, build and deployment scripts and
  the archived tests: no behaviour that a property is about.
