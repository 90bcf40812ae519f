----------------------------- MODULE DHCPLeases -----------------------------
(***************************************************************************)
(* The address pool of the full DHCP mode: leasePool of                    *)
(* src/internal/pxe/lease.go and the parts of Server in                    *)
(* src/internal/pxe/dhcp.go that build, replace and query it.              *)
(*                                                                         *)
(* A request is handled in two steps, because the handler reads the pool   *)
(* and the lease time under the server's lock (Receive) and allocates      *)
(* after releasing it (Answer).  Every change of a lease is persisted by a *)
(* goroutine of its own: writes holds the ones still under way, and they   *)
(* land in any order, fail, or die with the process.  Two identical writes *)
(* are one element of the set: the second landing repeats the first.       *)
(*                                                                         *)
(* bound is what the clients rely on: the address each was last granted    *)
(* and until when.  excused collects the clients whose grant the pool was  *)
(* made to forget by one of the events the code does not guard against: a  *)
(* write lost or overtaken before the pool is rebuilt, a table that cannot *)
(* be read then, a range that moved, a lease time that was shortened, and  *)
(* a request that straddled a rebuild.                                     *)
(***************************************************************************)
EXTENDS Naturals, Sequences, FiniteSets, Functions, FiniteSetsExt

CONSTANTS
    MACs,            \* the clients
    Ranges,          \* the PXE address ranges an operator may configure
    LeaseTimes,      \* the lease times an operator may configure, 0: none
    DefaultLeaseTime,\* what a client is promised when none is configured
    Reservations,    \* the reservation maps the inventory may produce
    MaxNow,          \* bound on the clock
    MaxWrites,       \* bound on the store writes under way
    MaxPools,        \* bound on the pools built by one process
    MaxUpsets        \* bound on the operator's actions and the restarts

(* Addresses and times are numbers, a reservation map gives clients addresses. *)
ASSUME LeaseAssumption ==
    /\ Ranges \subseteq [lo : Nat, hi : Nat]
    /\ LeaseTimes \subseteq Nat /\ DefaultLeaseTime \in Nat
    /\ \A r \in Reservations : DOMAIN r \subseteq MACs /\ r \in [DOMAIN r -> Nat]

VARIABLES pools,     \* the pools built by this process, the last one newest
          serving,   \* whether the newest pool is the server's current one
          config,    \* the subnet specification the server was given
          reserve,   \* the reservations the inventory asks for
          store,     \* the table dhcp_leases
          writes,    \* the store writes still running in their goroutines
          asked,     \* the requests between the two steps of the handler
          now,       \* the clock
          bound,     \* what each client was last granted
          excused,   \* the clients the pool was made to forget
          upsets     \* how many operator actions and restarts so far

leaseVars == <<pools, serving, config, reserve, store, writes, asked, now,
               bound, excused, upsets>>

NoMap == [m \in {} |-> 0]

(* A map with one entry written, as Go's m[k] = v. *)
Put(map, k, v) == [j \in DOMAIN map \cup {k} |-> IF j = k THEN v ELSE map[j]]

InRange(range, ip) == range.lo <= ip /\ ip <= range.hi

(* How long the pool honours a lease; 0 means for ever. *)
Expired(ttl, lease) == ttl > 0 /\ now - lease.at > ttl

(* The lease time the handler advertises. *)
Promise(lease) == IF lease > 0 THEN lease ELSE DefaultLeaseTime

-----------------------------------------------------------------------------
(* What restore keeps of the table: the leases in range and not expired.   *)
Restorable(range, ttl) ==
    {m \in DOMAIN store : InRange(range, store[m].ip) /\ ~Expired(ttl, store[m])}

(* newLeasePool: a table that cannot be listed leaves the pool empty. *)
NewPool(range, ttl, reserved, list) ==
    [range |-> range, ttl |-> ttl, reserved |-> reserved,
     leases |-> Restrict(store, IF list = "ok" THEN Restorable(range, ttl) ELSE {})]

(* The table once restore has deleted the records it did not keep; each of *)
(* the deletions may fail.                                                 *)
Purged(range, ttl) ==
    {Restrict(store, DOMAIN store \ gone) : gone \in SUBSET (DOMAIN store \ Restorable(range, ttl))}

(* The pool the server answers from now, if it has one. *)
Current == pools[Len(pools)]

(* The pools once a new one is current: a superseded pool lives on only in *)
(* the requests that copied it.                                            *)
Superseded(new) == IF DOMAIN asked = {} THEN <<new>> ELSE Append(pools, new)

(* Clients whose grant a new pool cannot know: their record in the table is *)
(* not what memory held, or their address is outside the new range, or the  *)
(* new lease time is shorter than what they were promised.                  *)
Held(m) == IF pools # <<>> /\ m \in DOMAIN Current.leases
           THEN {Current.leases[m]} ELSE {}
Stored(m) == IF m \in DOMAIN store THEN {store[m]} ELSE {}
Unsaved == {m \in MACs : Held(m) # Stored(m)}
Displaced(range) == {m \in DOMAIN bound : ~InRange(range, bound[m].ip)}
Shortened(ttl) ==
    {m \in DOMAIN bound : ttl > 0 /\ bound[m].until > bound[m].at + ttl}

(* What building a pool does to the table, and whom the pool has forgotten. *)
Restore(range, ttl, list) ==
    /\ store' \in IF list = "ok" THEN Purged(range, ttl) ELSE {store}
    /\ excused' = excused \cup IF list = "ok" THEN Unsaved \cup Displaced(range) \cup Shortened(ttl)
                               ELSE DOMAIN bound

-----------------------------------------------------------------------------
(* Allocate.  Own and expired leases that are dropped first: *)
Dropped(pool, m) ==
    {k \in DOMAIN pool.leases : k = m \/ Expired(pool.ttl, pool.leases[k])}

Used(pool, m) ==
    {pool.leases[k].ip : k \in DOMAIN pool.leases \ Dropped(pool, m)}
        \cup Range(pool.reserved)

(* Bug: every lease of another client counts as reclaimable. *)
FreeIgnoringLeases(pool, m) ==
    {n \in pool.range.lo .. pool.range.hi : n \notin Range(pool.reserved)}
Free(pool, m) ==
    {n \in pool.range.lo .. pool.range.hi : n \notin Used(pool, m)}

OwnIsGood(pool, m) ==
    /\ m \in DOMAIN pool.leases
    /\ InRange(pool.range, pool.leases[m].ip)
    /\ ~Expired(pool.ttl, pool.leases[m])

Upsert(m, lease) == [op |-> "upsert", mac |-> m, lease |-> {lease}]
Delete(m) == [op |-> "delete", mac |-> m, lease |-> {}]

(* The outcomes of Allocate: the pool after it, the writes it starts and    *)
(* the lease it returns, none when the pool is exhausted.                   *)
Grant(pool, m, lease, dropped) ==
    [pool   |-> [pool EXCEPT !.leases =
                    Put(Restrict(pool.leases, DOMAIN pool.leases \ dropped), m, lease)],
     writes |-> {Delete(k) : k \in dropped} \cup {Upsert(m, lease)},
     lease  |-> {lease}]

Allocate(pool, m) ==
    CASE m \in DOMAIN pool.reserved ->
           Grant(pool, m, [ip |-> pool.reserved[m], at |-> now, static |-> TRUE], {})
      [] m \notin DOMAIN pool.reserved /\ OwnIsGood(pool, m) ->
           Grant(pool, m, [pool.leases[m] EXCEPT !.at = now], {})
      [] m \notin DOMAIN pool.reserved /\ ~OwnIsGood(pool, m) ->
           IF Free(pool, m) = {}
           THEN [pool   |-> [pool EXCEPT !.leases =
                               Restrict(@, DOMAIN @ \ Dropped(pool, m))],
                 writes |-> {Delete(k) : k \in Dropped(pool, m)},
                 lease  |-> {}]
           ELSE Grant(pool, m, [ip |-> Min(Free(pool, m)), at |-> now,
                                static |-> FALSE], Dropped(pool, m))

-----------------------------------------------------------------------------
LeaseInit ==
    /\ config \in [range : Ranges, lease : LeaseTimes]
    /\ reserve = NoMap
    /\ store = NoMap
    /\ now = 0
    /\ pools = <<[range |-> config.range, ttl |-> config.lease,
                  reserved |-> reserve, leases |-> NoMap]>>
    /\ serving = TRUE
    /\ writes = {}
    /\ asked = NoMap
    /\ bound = NoMap
    /\ excused = {}
    /\ upsets = 0

(* An action of the operator or a restart uses up one of MaxUpsets, but for *)
(* a release while no server runs, which always follows one.                *)
Upset == upsets < MaxUpsets /\ upsets' = upsets + 1

(* A DISCOVER or REQUEST of m arrives: the handler copies the pool and the  *)
(* specification under the read lock.                                       *)
Receive(m) ==
    /\ serving
    /\ m \notin DOMAIN asked
    /\ asked' = Put(asked, m, [pool |-> Len(pools), lease |-> config.lease])
    /\ UNCHANGED <<pools, serving, config, reserve, store, writes, now, bound, excused, upsets>>

(* The handler allocates from the pool it copied and answers.  A grant from *)
(* a pool, or for a lease time, that was replaced meanwhile is excused.     *)
Answer(m) ==
    /\ m \in DOMAIN asked
    /\ LET req == asked[m]
           out == Allocate(pools[req.pool], m)
           stale == ~serving \/ req.pool # Len(pools) \/ req.lease # config.lease
       IN /\ pools' = [pools EXCEPT ![req.pool] = out.pool]
          /\ writes' = writes \cup out.writes
          /\ bound' = IF out.lease = {} THEN bound
                      ELSE LET l == CHOOSE l \in out.lease : TRUE
                           IN Put(bound, m, [ip |-> l.ip, at |-> now, static |-> l.static,
                                             until |-> now + Promise(req.lease)])
          /\ excused' = IF stale /\ out.lease # {} THEN excused \cup {m} ELSE excused
    /\ Cardinality(writes') <= MaxWrites
    /\ asked' = Restrict(asked, DOMAIN asked \ {m})
    /\ UNCHANGED <<serving, config, reserve, store, now, upsets>>

(* A goroutine's write reaches the table, or fails and is only logged. *)
WriteLands(w) ==
    /\ w \in writes
    /\ writes' = writes \ {w}
    /\ store' = IF w.op = "upsert" THEN Put(store, w.mac, CHOOSE l \in w.lease : TRUE)
                ELSE Restrict(store, DOMAIN store \ {w.mac})
    /\ UNCHANGED <<pools, serving, config, reserve, asked, now, bound, excused, upsets>>
WriteFails(w) ==
    /\ w \in writes
    /\ writes' = writes \ {w}
    /\ UNCHANGED <<pools, serving, config, reserve, store, asked, now, bound, excused, upsets>>

(* ReleaseLease, for a deleted virtual machine: through the pool when the   *)
(* server runs, directly in the table otherwise, where it may fail.  The    *)
(* client is gone.                                                          *)
ReleaseLease(m) ==
    /\ m \in DOMAIN bound
    /\ bound' = Restrict(bound, DOMAIN bound \ {m})
    /\ IF serving
       THEN /\ Upset
            /\ pools' = [pools EXCEPT ![Len(pools)].leases = Restrict(@, DOMAIN @ \ {m})]
            /\ writes' = writes \cup {Delete(m)}
            /\ Cardinality(writes') <= MaxWrites
            /\ UNCHANGED store
       ELSE /\ store' \in {store, Restrict(store, DOMAIN store \ {m})}
            /\ UNCHANGED <<pools, writes, upsets>>
    /\ UNCHANGED <<serving, config, reserve, asked, now, excused>>

(* Reconfigure with another subnet specification: another range builds a    *)
(* new pool from the table, without reservations until the next             *)
(* UpdateReservations; another lease time alone is set in place.            *)
Reconfigure(range, lease) ==
    /\ Upset
    /\ serving
    /\ [range |-> range, lease |-> lease] # config
    /\ config' = [range |-> range, lease |-> lease]
    /\ IF range # config.range
       THEN /\ Len(pools) < MaxPools
            /\ \E list \in {"ok", "error"} :
                  /\ pools' = Append(pools, NewPool(range, lease, NoMap, list))
                  /\ Restore(range, lease, list)
       ELSE /\ pools' = [pools EXCEPT ![Len(pools)].ttl = lease]
            /\ excused' = excused \cup Shortened(lease)
            /\ UNCHANGED store
    /\ UNCHANGED <<serving, reserve, writes, asked, now, bound>>

(* The inventory changes its reservations; UpdateReservations installs them.*)
Reserve(r) ==
    /\ Upset
    /\ r # reserve
    /\ reserve' = r
    /\ UNCHANGED <<pools, serving, config, store, writes, asked, now, bound, excused>>
UpdateReservations ==
    /\ serving
    /\ Current.reserved # reserve
    /\ pools' = [pools EXCEPT ![Len(pools)].reserved = reserve]
    /\ UNCHANGED <<serving, config, reserve, store, writes, asked, now, bound, excused, upsets>>

(* stopPXE and startPXE: the manager gives up the server and later builds a *)
(* new one; the reservations are installed before it serves.                *)
StopServer ==
    /\ Upset
    /\ serving
    /\ serving' = FALSE
    /\ UNCHANGED <<pools, config, reserve, store, writes, asked, now, bound, excused>>
StartServer ==
    /\ ~serving
    /\ \E list \in {"ok", "error"} :
          /\ pools' = Superseded(NewPool(config.range, config.lease, reserve, list))
          /\ Restore(config.range, config.lease, list)
    /\ Len(pools') <= MaxPools
    /\ serving' = TRUE
    /\ UNCHANGED <<config, reserve, writes, asked, now, bound, upsets>>

(* The process dies and starts again: requests and writes under way are     *)
(* lost, the pool is restored from the table.                               *)
Restart ==
    /\ Upset
    /\ serving
    /\ \E list \in {"ok", "error"} :
          /\ pools' = <<NewPool(config.range, config.lease, reserve, list)>>
          /\ Restore(config.range, config.lease, list)
    /\ writes' = {}
    /\ asked' = NoMap
    /\ UNCHANGED <<serving, config, reserve, now, bound>>

Tick ==
    /\ now < MaxNow
    /\ now' = now + 1
    /\ UNCHANGED <<pools, serving, config, reserve, store, writes, asked, bound, excused, upsets>>

LeaseNext ==
    \/ \E m \in MACs : Receive(m) \/ Answer(m) \/ ReleaseLease(m)
    \/ \E w \in writes : WriteLands(w) \/ WriteFails(w)
    \/ \E range \in Ranges, lease \in LeaseTimes : Reconfigure(range, lease)
    \/ \E r \in Reservations : Reserve(r)
    \/ UpdateReservations \/ StopServer \/ StartServer \/ Restart \/ Tick
LeaseSpec == LeaseInit /\ [][LeaseNext]_leaseVars

-----------------------------------------------------------------------------
(* Two clients that were granted the same address, and may both still be    *)
(* using it, include one that got it by static reservation (which Allocate  *)
(* hands out without looking who else has the address) or one the pool was  *)
(* made to forget: a write lost or overtaken before a rebuild, a table that *)
(* could not be read then, a shrunk range, a shortened lease time, or a     *)
(* request that straddled a rebuild.                                        *)
NoAddressConflict ==
    \A m1, m2 \in DOMAIN bound :
        /\ m1 # m2
        /\ bound[m1].ip = bound[m2].ip
        /\ now <= bound[m1].until
        /\ now <= bound[m2].until
        => \/ bound[m1].static \/ bound[m2].static
           \/ m1 \in excused \/ m2 \in excused
=============================================================================
