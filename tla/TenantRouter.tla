---------------------------- MODULE TenantRouter ----------------------------
(***************************************************************************)
(* One connection pool per tenant: the TenantConnectionRouter of           *)
(* tenantStrategy "database" (src/src/core/TenantConnectionRouter.ts), the *)
(* pools it opens and closes through DatabaseClient and                    *)
(* ConnectionLifecycle, and MultiTenantEntityManager, which resolves every *)
(* call through it and shuts it down.                                      *)
(*                                                                         *)
(* A provisioning is known by its number. So are the EntityManager it      *)
(* makes, the router entry that holds it, its eviction timer and, unless   *)
(* the tenant is mapped to a connection the user registered, its pool.     *)
(* A pool that is opened runs the continuations of everyone who awaits it  *)
(* before any other event, so Provisioned is one step.                     *)
(***************************************************************************)
EXTENDS Naturals, FiniteSets

CONSTANTS
    Tenants,
    Mapped,           \* tenants that use a connection the user registered
    Requests,         \* calls, each resolves one tenant, once
    Ttl,              \* idleTtlMs, in ticks; 0 disables eviction
    MaxReleases,      \* bound: calls of release() by the application
    CloseConnections, \* option of propagateShutdown()
    None              \* no entry, timer or provisioning

ASSUME TenantRouterAssumption ==
    /\ Mapped \subseteq Tenants
    /\ IsFiniteSet(Requests)
    /\ Ttl \in Nat /\ MaxReleases \in Nat
    /\ CloseConnections \in BOOLEAN
    /\ None \notin Nat

(* Every provisioning is started by a request of its own. *)
Ids == 1 .. Cardinality(Requests)

VARIABLES
    started,    \* provisionings so far
    tenantOf,   \* tenantOf[n]
    place,      \* how far provision() has come
    pool,       \* pool[n]: the pool n opened
    userOpen,   \* mapped tenants whose connection DatabaseClient holds
    entry,      \* entries: entry[t]
    inFlight,   \* inFlight[t]
    age,        \* age[n]: ticks since lastUsedAt
    timer,      \* timer[n]: ticks until evictTimer fires
    pc,         \* requests
    em,         \* em[r]: the EntityManager r awaits or was given
    leaked,     \* history: pools whose set-up, or whose close, failed
    releases,   \* calls of release() so far
    stopping    \* how far propagateShutdown() has come

routerVars == <<started, tenantOf, place, pool, userOpen, entry, inFlight, age, timer, pc, em,
          leaked, releases, stopping>>

Places == {"none", "resolving", "connecting", "setup", "attaching", "ready", "failed"}
Running(n) == place[n] \in {"resolving", "connecting", "setup", "attaching"}
Owned(n) == tenantOf[n] \notin Mapped

RouterInit ==
    /\ started = 0
    /\ tenantOf = [n \in Ids |-> None]
    /\ place = [n \in Ids |-> "none"]
    /\ pool = [n \in Ids |-> "none"]
    /\ userOpen = Mapped
    /\ entry = [t \in Tenants |-> None]
    /\ inFlight = [t \in Tenants |-> None]
    /\ age = [n \in Ids |-> 0]
    /\ timer = [n \in Ids |-> None]
    /\ pc = [r \in Requests |-> "idle"]
    /\ em = [r \in Requests |-> None]
    /\ leaked = {}
    /\ releases = 0
    /\ stopping = "no"

-----------------------------------------------------------------------------
(* lastUsedAt = Date.now(), and scheduleEviction(). *)
Touch(n) ==
    /\ age' = [age EXCEPT ![n] = 0]
    /\ timer' = [timer EXCEPT ![n] = IF Ttl > 0 THEN Ttl ELSE None]

(* resolve() of a tenant that has an entry. *)
ResolveCached(r, t) ==
    /\ pc[r] = "idle"
    /\ entry[t] # None
    /\ Touch(entry[t])
    /\ pc' = [pc EXCEPT ![r] = "given"]
    /\ em' = [em EXCEPT ![r] = entry[t]]
    /\ UNCHANGED <<started, tenantOf, place, pool, userOpen, entry, inFlight, leaked, releases, stopping>>

(* resolve() while the tenant is being provisioned. *)
ResolveShared(r, t) ==
    /\ pc[r] = "idle"
    /\ entry[t] = None /\ inFlight[t] # None
    /\ pc' = [pc EXCEPT ![r] = "waiting"]
    /\ em' = [em EXCEPT ![r] = inFlight[t]]
    /\ UNCHANGED <<started, tenantOf, place, pool, userOpen, entry, inFlight, age, timer, leaked,
                   releases, stopping>>

StartProvision(r, t, n) ==
    /\ started' = n
    /\ tenantOf' = [tenantOf EXCEPT ![n] = t]
    /\ place' = [place EXCEPT ![n] = "resolving"]
    /\ inFlight' = [inFlight EXCEPT ![t] = n]
    /\ pc' = [pc EXCEPT ![r] = "waiting"]
    /\ em' = [em EXCEPT ![r] = n]
    /\ UNCHANGED <<pool, userOpen, entry, age, timer, leaked, releases, stopping>>

(* Faulty variant: the provisioning in flight is not looked up. *)
ResolveFirst_NotShared(r, t) ==
    /\ pc[r] = "idle"
    /\ entry[t] = None
    /\ StartProvision(r, t, started + 1)

(* resolve() that starts provision(), which asks the resolver. *)
ResolveFirst(r, t) ==
    /\ pc[r] = "idle"
    /\ entry[t] = None /\ inFlight[t] = None
    /\ StartProvision(r, t, started + 1)

(* The resolver answers. With options, register() connects a new pool;     *)
(* with the name of a connection that exists, attach() uses that one.      *)
Target(n) ==
    /\ place[n] = "resolving"
    /\ ~Owned(n) => tenantOf[n] \in userOpen
    /\ place' = [place EXCEPT ![n] = IF Owned(n) THEN "connecting" ELSE "attaching"]
    /\ pool' = [pool EXCEPT ![n] = IF Owned(n) THEN "opening" ELSE @]
    /\ UNCHANGED <<started, tenantOf, userOpen, entry, inFlight, age, timer, pc, em, leaked,
                   releases, stopping>>

(* DatabaseClient.connect() returns; register() goes on to check and       *)
(* synchronize the schema.                                                 *)
Connected(n) ==
    /\ place[n] = "connecting"
    /\ place' = [place EXCEPT ![n] = "setup"]
    /\ pool' = [pool EXCEPT ![n] = "open"]
    /\ UNCHANGED <<started, tenantOf, userOpen, entry, inFlight, age, timer, pc, em, leaked,
                   releases, stopping>>

(* Faulty variant: a failure stays in the map. *)
Settle_FailureKept(n, outcome) ==
    /\ inFlight' = [inFlight EXCEPT ![tenantOf[n]] = IF outcome = "failed" THEN @ ELSE None]
    /\ pc' = [r \in Requests |-> IF pc[r] = "waiting" /\ em[r] = n THEN outcome ELSE pc[r]]

(* The promise of provisioning n settles for everyone who awaits it. *)
Settle(n, outcome) ==
    /\ inFlight' = [inFlight EXCEPT ![tenantOf[n]] = None]
    /\ pc' = [r \in Requests |-> IF pc[r] = "waiting" /\ em[r] = n THEN outcome ELSE pc[r]]

(* provision() throws: the resolver failed or named an unknown connection, *)
(* the pool could not be opened, or the set-up after it failed. Nobody     *)
(* closes what had been opened.                                            *)
ProvisionFails(n) ==
    /\ Running(n)
    /\ place' = [place EXCEPT ![n] = "failed"]
    /\ pool' = [pool EXCEPT ![n] = IF place[n] = "connecting" THEN "none" ELSE @]
    /\ leaked' = IF place[n] = "setup" THEN leaked \cup {n} ELSE leaked
    /\ Settle(n, "failed")
    /\ UNCHANGED <<started, tenantOf, userOpen, entry, age, timer, em, releases, stopping>>

(* provision() returns: the entry is there, its eviction scheduled. *)
Provisioned(n) ==
    /\ place[n] \in {"setup", "attaching"}
    /\ place' = [place EXCEPT ![n] = "ready"]
    /\ entry' = [entry EXCEPT ![tenantOf[n]] = n]
    /\ Touch(n)
    /\ Settle(n, "given")
    /\ UNCHANGED <<started, tenantOf, pool, userOpen, em, leaked, releases, stopping>>

-----------------------------------------------------------------------------
(* propagateShutdown({closeConnections: true}) of the EntityManagers of    *)
(* the entries N: DatabaseClient closes their connections.                 *)
ClosePools(N) ==
    pool' = [n \in Ids |-> IF n \in N /\ Owned(n) /\ pool[n] = "open" THEN "closing" ELSE pool[n]]

(* Faulty variants: the timer is left running; the entry stays until the   *)
(* pool is closed; no pool is closed.                                      *)
Drop_TimerKept(T, fired) ==
    LET N == {entry[t] : t \in T} IN
    /\ entry' = [t \in Tenants |-> IF t \in T THEN None ELSE entry[t]]
    /\ timer' = [n \in Ids |-> IF n \in fired THEN None ELSE timer[n]]
    /\ ClosePools(N)
    /\ UNCHANGED userOpen
Drop_EntryKept(T, fired) ==
    LET N == {entry[t] : t \in T} IN
    /\ timer' = [n \in Ids |-> IF n \in N \cup fired THEN None ELSE timer[n]]
    /\ ClosePools(N)
    /\ UNCHANGED <<entry, userOpen>>
Drop_NotClosed(T, fired) ==
    LET N == {entry[t] : t \in T} IN
    /\ entry' = [t \in Tenants |-> IF t \in T THEN None ELSE entry[t]]
    /\ timer' = [n \in Ids |-> IF n \in N \cup fired THEN None ELSE timer[n]]
    /\ UNCHANGED <<pool, userOpen>>

(* release() of the tenants T, up to its first await: the entries and      *)
(* their timers go, and the pools the router owns begin to close. "fired"  *)
(* is the timer that called it, if one did.                                *)
Drop(T, fired) ==
    LET N == {entry[t] : t \in T} IN
    /\ entry' = [t \in Tenants |-> IF t \in T THEN None ELSE entry[t]]
    /\ timer' = [n \in Ids |-> IF n \in N \cup fired THEN None ELSE timer[n]]
    /\ ClosePools(N)
    /\ UNCHANGED userOpen

(* getRouter().release(t) by the application. *)
Release(t) ==
    /\ entry[t] # None
    /\ releases < MaxReleases
    /\ releases' = releases + 1
    /\ Drop({t}, {})
    /\ UNCHANGED <<started, tenantOf, place, inFlight, age, pc, em, leaked, stopping>>

(* The pool's connections are closed, or closing them fails: a warning.    *)
PoolCloses(n) ==
    /\ pool[n] = "closing"
    /\ \/ /\ pool' = [pool EXCEPT ![n] = "closed"]
          /\ UNCHANGED leaked
       \/ /\ pool' = [pool EXCEPT ![n] = "open"]
          /\ leaked' = leaked \cup {n}
    /\ UNCHANGED <<started, tenantOf, place, userOpen, entry, inFlight, age, timer, pc, em,
                   releases, stopping>>

(* The eviction timer fires; it releases the tenant, by its id. *)
Evict(n) ==
    /\ timer[n] = 0
    /\ Drop({t \in Tenants : t = tenantOf[n] /\ entry[t] # None /\ age[n] >= Ttl}, {n})
    /\ UNCHANGED <<started, tenantOf, place, inFlight, age, pc, em, leaked, releases, stopping>>

(* Time passes; a busy event loop runs a timer late, never early. *)
Tick ==
    /\ \E n \in Ids : timer[n] # None /\ timer[n] # 0
    /\ timer' = [n \in Ids |-> IF timer[n] \in {None, 0} THEN timer[n] ELSE timer[n] - 1]
    /\ age' = [n \in Ids |-> IF place[n] = "ready" /\ age[n] < Ttl THEN age[n] + 1 ELSE age[n]]
    /\ UNCHANGED <<started, tenantOf, place, pool, userOpen, entry, inFlight, pc, em, leaked,
                   releases, stopping>>

-----------------------------------------------------------------------------
Held == {entry[t] : t \in Tenants} \ {None}

(* MultiTenantEntityManager.propagateShutdown() begins: every              *)
(* EntityManager the router holds now is shut down with the caller's       *)
(* options, attached ones included.                                        *)
Shutdown ==
    /\ stopping = "no"
    /\ stopping' = "closing"
    /\ IF CloseConnections
       THEN /\ ClosePools(Held)
            /\ userOpen' = {t \in userOpen : entry[t] = None}
       ELSE UNCHANGED <<pool, userOpen>>
    /\ UNCHANGED <<started, tenantOf, place, entry, inFlight, age, timer, pc, em, leaked, releases>>

(* They are down: releaseAll(). *)
ReleaseAll ==
    /\ stopping = "closing"
    /\ CloseConnections => \A n \in Held : pool[n] # "closing"
    /\ stopping' = "released"
    /\ Drop({t \in Tenants : entry[t] # None}, {})
    /\ UNCHANGED <<started, tenantOf, place, inFlight, age, pc, em, leaked, releases>>

(* What follows on its own: answers of the resolver, the databases and the *)
(* clock.                                                                  *)
Proceeds(n) ==
    \/ Target(n) \/ Connected(n) \/ ProvisionFails(n) \/ Provisioned(n)
    \/ PoolCloses(n) \/ Evict(n)

RouterNext ==
    \/ \E r \in Requests, t \in Tenants :
          ResolveCached(r, t) \/ ResolveShared(r, t) \/ ResolveFirst(r, t)
    \/ \E n \in Ids : Proceeds(n)
    \/ \E t \in Tenants : Release(t)
    \/ Tick \/ Shutdown \/ ReleaseAll

RouterSpec == RouterInit /\ [][RouterNext]_routerVars

(* Connecting, closing and the resolver end, one way or the other; timers  *)
(* fire.                                                                   *)
RouterFairSpec ==
    /\ RouterSpec
    /\ WF_routerVars(Tick) /\ WF_routerVars(ReleaseAll)
    /\ \A n \in Ids : WF_routerVars(Proceeds(n))

-----------------------------------------------------------------------------
RouterTypeOK ==
    /\ started \in Nat
    /\ tenantOf \in [Ids -> Tenants \cup {None}]
    /\ place \in [Ids -> Places]
    /\ pool \in [Ids -> {"none", "opening", "open", "closing", "closed"}]
    /\ userOpen \subseteq Mapped
    /\ entry \in [Tenants -> Ids \cup {None}]
    /\ inFlight \in [Tenants -> Ids \cup {None}]
    /\ age \in [Ids -> 0 .. Ttl]
    /\ timer \in [Ids -> 0 .. Ttl \cup {None}]
    /\ pc \in [Requests -> {"idle", "waiting", "given", "failed"}]
    /\ em \in [Requests -> Ids \cup {None}]
    /\ leaked \subseteq Ids
    /\ releases \in 0 .. MaxReleases
    /\ stopping \in {"no", "closing", "released"}

(* One provisioning per tenant, none while it has an entry, and whoever    *)
(* waits is waiting for that one: "concurrent first-time resolves for the  *)
(* same tenant share a single resolver call" (resolve, inFlight).          *)
OneProvision ==
    /\ RouterTypeOK
    /\ \A n \in Ids : Running(n) =>
          inFlight[tenantOf[n]] = n /\ entry[tenantOf[n]] = None
    /\ \A r \in Requests : pc[r] = "waiting" => Running(em[r])

(* The router loses sight of no pool: one that is open is held by an       *)
(* entry or being set up, but for those whose set-up or close failed       *)
(* (provision, release; DatabaseClient keeps those until close()).         *)
NoOrphan == \A n \in Ids : pool[n] = "open" => n \in Held \/ place[n] = "setup" \/ n \in leaked

(* Until a shutdown, a request is given an EntityManager whose connection  *)
(* is open, however its resolve() meets a release or an eviction (resolve, *)
(* release: the entry is deleted before anything is awaited).              *)
GivenLivePool ==
    [][\A r \in Requests :
          pc[r] # "given" /\ pc'[r] = "given" /\ stopping = "no" =>
              IF Owned(em[r])' THEN pool'[em'[r]] = "open" ELSE tenantOf'[em'[r]] \in userOpen]_routerVars

(* Only a tenant that nobody resolved for the whole TTL is evicted, also   *)
(* when its entry has replaced one whose timer was running                 *)
(* (scheduleEviction; the timer releases by tenant id).                    *)
EvictedOnlyIdle ==
    [][\A t \in Tenants :
          entry[t] # None /\ entry'[t] = None /\ releases' = releases /\ stopping' = stopping =>
              age[entry[t]] >= Ttl]_routerVars

(* Every resolve() is answered (the promise in inFlight settles).          *)
ResolvesAnswered == \A r \in Requests : pc[r] = "waiting" ~> pc[r] \in {"given", "failed"}

(* With a TTL, every pool the router opened is closed in the end, those    *)
(* that come up during a shutdown included (scheduleEviction).             *)
IdlePoolsClose ==
    Ttl > 0 => <>[](\A n \in Ids : pool[n] \in {"none", "closed"} \/ n \in leaked)

(* However provisionings fail, releases, evictions and a shutdown meet:    *)
(* nobody waits for ever for a tenant, not even for one whose provisioning *)
(* failed before, and no pool outlives its use (resolve, scheduleEviction).*)
RouterSettles == ResolvesAnswered /\ IdlePoolsClose
=============================================================================
