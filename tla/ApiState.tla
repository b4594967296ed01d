------------------------------- MODULE ApiState -------------------------------
(***************************************************************************)
(* What the HTTP middleware and the tenant and key handlers keep: the      *)
(* tables tenants and api_keys, and in memory the auth cache, the          *)
(* idempotency store and the registration limiter. Each operator is one    *)
(* SQL statement, one transaction or one critical section.                 *)
(***************************************************************************)
EXTENDS Naturals, FiniteSets

CONSTANTS
  Tenants, Keys,                 \* identifiers (random: never reused)
  IPs, Marks, Bodies,            \* addresses; method+URI+Idempotency-Key; bodies
  Lifetimes,                     \* expires_in of new keys; None: no expiry
  None,
  AuthTTL, CacheMax,             \* auth cache: 30 s, 5000
  MaxKeys, MaxTenants,           \* API keys of a tenant: 20, tenants: 1000
  IdemTTL, IdemMax, IdemPerTenant,   \* idempotency store: 10 min, 500, 50
  RegWindow, RegGlobal, RegPerIP, RegMaxEntries, \* 1 h, 20, 5, 10000
  MaxClock                       \* bound

ASSUME ApiAssumption ==
  /\ None \notin Tenants \cup Keys \cup Marks \cup Bodies \cup IPs \cup Nat
  /\ IsFiniteSet(Tenants) /\ IsFiniteSet(Keys)
  /\ Lifetimes \subseteq (Nat \ {0}) \cup {None}
  /\ {AuthTTL, IdemTTL, RegWindow, MaxClock, MaxTenants} \subseteq Nat
  /\ {CacheMax, MaxKeys, IdemMax, IdemPerTenant} \subseteq Nat \ {0}
  /\ {RegGlobal, RegPerIP, RegMaxEntries} \subseteq Nat \ {0}

VARIABLES
  now,
  tenant,     \* tenants.status
  key,        \* api_keys
  cache,      \* authCache.entries
  store,      \* IdempotencyStore.entries
  reg         \* regLimiter

apiVars == <<now, tenant, key, cache, store, reg>>

----------------------------------------------------------------------------
(* Tables *)

Key == [st: {"absent", "live", "revoked"}, tenant: Tenants \cup {None},
        exp: Nat \cup {None}]

NoKey == [st |-> "absent", tenant |-> None, exp |-> None]

LiveKeys(t) == {k \in Keys : key[k].st = "live" /\ key[k].tenant = t}

Active == {t \in Tenants : tenant[t] = "active"}

InsertKey(k, t, exp) ==
  key' = [key EXCEPT ![k] = [st |-> "live", tenant |-> t, exp |-> exp]]

\* The registration transaction: tenant, quotas and default key.
InsertTenant(t, k) ==
  /\ tenant[t] = "absent" /\ key[k].st = "absent"
  /\ tenant' = [tenant EXCEPT ![t] = "active"]
  /\ InsertKey(k, t, None)

\* Mutant of SuspendAndRevoke: a status outside the vocabulary.
DeleteAndRevoke(t) ==
  /\ tenant' = [tenant EXCEPT ![t] = "deleted"]
  /\ key' = [k \in Keys |-> IF k \in LiveKeys(t)
                              THEN [key[k] EXCEPT !.st = "revoked"] ELSE key[k]]

\* The deletion transaction: the tenant is suspended, its keys revoked.
SuspendAndRevoke(t) ==
  /\ tenant' = [tenant EXCEPT ![t] = "suspended"]
  /\ key' = [k \in Keys |-> IF k \in LiveKeys(t)
                              THEN [key[k] EXCEPT !.st = "revoked"] ELSE key[k]]

\* What the lookup of a cache miss returns: revoked_at IS NULL AND
\* (expires_at IS NULL OR expires_at > now), joined with the tenant.
Selectable(k) ==
  key[k].st = "live" /\ ~(key[k].exp # None /\ key[k].exp <= now)

----------------------------------------------------------------------------
(* Maps with a capacity. A missing entry is None; "at" orders the entries. *)

Present(map) == {x \in DOMAIN map : map[x] # None}

\* The least "at"; one of several as old as each other.
Oldest(map) == {x \in Present(map) : \A y \in Present(map) : map[x].at <= map[y].at}

\* The maps that are left when the oldest entry is evicted at capacity.
Trimmed(map, capacity) ==
  IF Cardinality(Present(map)) < capacity
    THEN {map}
    ELSE {[map EXCEPT ![o] = None] : o \in Oldest(map)}

----------------------------------------------------------------------------
(* authCache *)

CacheEntry == [tenant: Tenants, status: {"active", "suspended"},
               exp: Nat \cup {None}, at: Nat]

\* get: the entry is used while it is at most AuthTTL old.
Fresh(k) == cache[k] # None /\ now <= cache[k].at + AuthTTL

\* set: evicts at capacity even if the key is in the map already.
CacheSet(k, e) ==
  cache' \in {[c EXCEPT ![k] = e] : c \in Trimmed(cache, CacheMax)}

InvalidateKey(k) == cache' = [cache EXCEPT ![k] = None]

InvalidateTenant(t) ==
  cache' = [k \in Keys |-> IF cache[k] # None /\ cache[k].tenant = t
                             THEN None ELSE cache[k]]

----------------------------------------------------------------------------
(* IdempotencyStore; the full key is the tenant with a mark *)

IdemEntry == [body: Bodies, at: Nat]

Unexpired(f) == store[f] # None /\ now < store[f].at + IdemTTL

\* Entries of the tenant, expired ones included, against the tenant's limit;
\* then the capacity of the whole store.
StoreResponse(f, body) ==
  IF Cardinality({g \in Present(store) : g[1] = f[1]}) < IdemPerTenant
    THEN store' \in {[m EXCEPT ![f] = [body |-> body, at |-> now]] :
                       m \in Trimmed(store, IdemMax)}
    ELSE UNCHANGED store

----------------------------------------------------------------------------
(* registrationLimiter: fixed windows, one for all and one per address. An
   entry's "at" is its windowAt; windowAt is None before the first request. *)

RegEntry == [count: Nat, at: Nat]

NoReg == [count |-> 0, at |-> None, entries |-> [ip \in IPs |-> None]]

Over(at) == IF at = None THEN TRUE ELSE now > at

\* Mutant of Allow: a known address does not count for all.
AllowKnown(ip, ok) ==
  LET count == IF Over(reg.at) THEN 0 ELSE reg.count
      at    == IF Over(reg.at) THEN now + RegWindow ELSE reg.at
      Enter(entries, e) ==
        reg' = [count |-> count + 1, at |-> at, entries |-> [entries EXCEPT ![ip] = e]]
  IN IF count >= RegGlobal
       THEN ~ok /\ reg' = [reg EXCEPT !.count = count, !.at = at]
       ELSE \E entries \in Trimmed(reg.entries, RegMaxEntries) :
         LET e == entries[ip]
             open == e # None /\ ~Over(e.at)
         IN \/ /\ ~open /\ ok
               /\ Enter(entries, [count |-> 1, at |-> now + RegWindow])
            \/ /\ open /\ ok /\ e.count < RegPerIP
               /\ reg' = [count |-> count, at |-> at, entries |-> [entries EXCEPT ![ip].count = @ + 1]]
            \/ /\ open /\ ~ok /\ e.count >= RegPerIP
               /\ reg' = [count |-> count, at |-> at, entries |-> entries]

\* allow(ip): ok is the answer. The oldest entry is evicted at capacity before
\* the address is looked up; a refused attempt is not counted.
Allow(ip, ok) ==
  LET count == IF Over(reg.at) THEN 0 ELSE reg.count
      at    == IF Over(reg.at) THEN now + RegWindow ELSE reg.at
      Enter(entries, e) ==
        reg' = [count |-> count + 1, at |-> at, entries |-> [entries EXCEPT ![ip] = e]]
  IN IF count >= RegGlobal
       THEN ~ok /\ reg' = [reg EXCEPT !.count = count, !.at = at]
       ELSE \E entries \in Trimmed(reg.entries, RegMaxEntries) :
         LET e == entries[ip]
             open == e # None /\ ~Over(e.at)
         IN \/ /\ ~open /\ ok
               /\ Enter(entries, [count |-> 1, at |-> now + RegWindow])
            \/ /\ open /\ ok /\ e.count < RegPerIP
               /\ Enter(entries, [e EXCEPT !.count = @ + 1])
            \/ /\ open /\ ~ok /\ e.count >= RegPerIP
               /\ reg' = [count |-> count, at |-> at, entries |-> entries]
=============================================================================
