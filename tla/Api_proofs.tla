------------------------------ MODULE Api_proofs ------------------------------
(***************************************************************************)
(* Proofs about module Api: its types, what the auth cache may hold of a   *)
(* revoked key, what the idempotency store promises a request, and how far *)
(* the limits of keys, tenants and registrations can be exceeded.         *)
(***************************************************************************)
EXTENDS Api, FiniteSetTheorems, TLAPS

----------------------------------------------------------------------------
(* The inductive invariant *)

\* Before and after authentication: the requests that carry a key.
Entering == {"auth", "fill"}
Admitted == {"idem", "handle", "save", "count", "insert", "revoke", "evict", "suspend",
             "evictAll"}
Keyed == Entering \cup Admitted

\* A key that was issued belongs to a tenant that was registered.
KeyFits(k) ==
  key[k].st # "absent" => key[k].tenant \in Tenants /\ tenant[key[k].tenant] # "absent"

\* A cached key was issued, to the tenant the cache names.
CacheFits(k) ==
  cache[k] # None => key[k].st # "absent" /\ cache[k].tenant = key[k].tenant

\* A request acts for the tenant of its key; an idempotent one has a mark.
Fits(r) ==
  /\ r.pc \in Keyed => r.key \in Keys /\ key[r.key].st # "absent"
  /\ r.pc \in Entering => r.op \in Ops \ {"Register"}
  /\ r.pc = "fill" => r.entry \in CacheEntry /\ r.entry.tenant = key[r.key].tenant
  /\ r.pc \in Admitted => r.tenant = key[r.key].tenant
  /\ r.pc \in {"idem", "handle", "save"} => r.op = "Post"
  /\ r.op = "Post" => r.pc \in Keyed /\ r.mark \in Marks /\ r.body \in Bodies
  /\ r.pc = "allow" => r.ip \in IPs
  /\ r.due # None => r.op = "Post"

ReqFits(q) == Fits(req[q])

\* The answer a request was promised is kept in the store, or has run out.
Owed(r) ==
  LET f == <<key[r.key].tenant, r.mark>>
  IN r.due # None =>
       /\ r.pc \in {"auth", "fill", "idem"} =>
            now >= r.due \/ (store[f] # None /\ r.due <= store[f].at + IdemTTL)
       /\ r.pc = "handle" => now >= r.due

DueFits(q) == Owed(req[q])

StoreFits(f) == store[f] # None => store[f].at <= now

\* The key is good, or something stands between it and the next request.
Excused(k) == Valid(k) \/ EvictionToCome(k) \/ k \in raced

StaleFits(k) == cache[k] # None /\ cache[k].status = "active" => Excused(k)

\* What a request has read and is about to cache.
Fills(r) == r.pc = "fill" /\ r.entry.status = "active" => Excused(r.key)

FillFits(q) == Fills(req[q])

IndInv ==
  /\ TypeOK
  /\ \A k \in Keys : KeyFits(k) /\ CacheFits(k) /\ StaleFits(k)
  /\ \A q \in Reqs : ReqFits(q) /\ DueFits(q) /\ FillFits(q)
  /\ \A f \in FullKeys : StoreFits(f)
  /\ QuotaOvershoot
----------------------------------------------------------------------------
(* Types *)

LEMMA Constants ==
  /\ None \notin Tenants /\ None \notin Keys /\ None \notin Marks /\ None \notin Bodies
  /\ None \notin IPs /\ None \notin Nat
  /\ IsFiniteSet(Tenants) /\ IsFiniteSet(Keys) /\ IsFiniteSet(Reqs) /\ Reqs # {}
  /\ AuthTTL \in Nat /\ IdemTTL \in Nat /\ RegWindow \in Nat /\ MaxClock \in Nat
  /\ MaxTenants \in Nat /\ MaxKeys \in Nat \ {0} /\ MaxRestarts \in Nat
  /\ Lifetimes \subseteq (Nat \ {0}) \cup {None}
  BY ApiAssumption, MixesAssumption

\* The sets the variables range over, under names of their own.
Rows == [Keys -> Key]
Statuses == [Tenants -> {"absent", "active", "suspended"}]
Caches == [Keys -> CacheEntry \cup {None}]
Stores == [FullKeys -> IdemEntry \cup {None}]
Limiter == [count: Nat, at: Nat \cup {None}, entries: [IPs -> RegEntry \cup {None}]]

LEMMA Types ==
  TypeOK <=> /\ now \in Nat /\ restarts \in Nat /\ ops \in Mixes
             /\ tenant \in Statuses /\ key \in Rows /\ cache \in Caches
             /\ store \in Stores /\ reg \in Limiter /\ req \in [Reqs -> Req]
             /\ raced \subseteq Keys /\ allowed \in Seq(Allowed)
  BY Zenon DEF TypeOK, Rows, Statuses, Caches, Stores, Limiter

LEMMA TypesNext ==
  TypeOK' <=> /\ now' \in Nat /\ restarts' \in Nat /\ ops' \in Mixes
              /\ tenant' \in Statuses /\ key' \in Rows /\ cache' \in Caches
              /\ store' \in Stores /\ reg' \in Limiter /\ req' \in [Reqs -> Req]
              /\ raced' \subseteq Keys /\ allowed' \in Seq(Allowed)
  BY Zenon DEF TypeOK, Rows, Statuses, Caches, Stores, Limiter

LEMMA IdleTypes ==
  /\ IdleReq \in Req
  /\ IdleReq.pc = "idle" /\ IdleReq.op = "none" /\ IdleReq.due = None
  BY DEF IdleReq, Req, Pcs
----------------------------------------------------------------------------
(* What a step leaves alone *)

\* Keys and tenants are never forgotten, and a key keeps its tenant.
Grow ==
  /\ \A k \in Keys : key[k].st # "absent" =>
       key'[k].st # "absent" /\ key'[k].tenant = key[k].tenant
  /\ \A t \in Tenants : tenant[t] # "absent" => tenant'[t] # "absent"

\* An answer leaves the store when it has run out.
StoreKeeps ==
  /\ now' >= now
  /\ \A f \in FullKeys : store[f] # None =>
       \/ store'[f] # None /\ store'[f].at >= store[f].at
       \/ now' >= store[f].at + IdemTTL

LEMMA ReqTypes ==
  ASSUME TypeOK, NEW q \in Reqs
  PROVE  /\ req[q] \in Req /\ req[q].pc \in Pcs /\ req[q].op \in Ops \cup {"none"}
         /\ req[q].key \in Keys \cup {None} /\ req[q].target \in Keys \cup {None}
         /\ req[q].tenant \in Tenants \cup {None} /\ req[q].due \in Nat \cup {None}
         /\ req[q].mark \in Marks \cup {None} /\ req[q].entry \in CacheEntry \cup {None}
         /\ req[q].body \in Bodies \cup {None} /\ req[q].ip \in IPs \cup {None}
<1>1. req[q] \in Req
  BY DEF TypeOK
<1>2. QED
  BY <1>1 DEF Req

\* A request the step does not touch, or only stops owing an answer.
LEMMA OthersFit ==
  ASSUME IndInv, Grow, NEW p \in Reqs,
         req'[p] = req[p] \/ req'[p] = [req[p] EXCEPT !.due = None]
  PROVE  ReqFits(p)'
<1>1. req[p] \in Req /\ ReqFits(p)
  BY ReqTypes DEF IndInv
<1>2. /\ req'[p].pc = req[p].pc /\ req'[p].op = req[p].op /\ req'[p].key = req[p].key
      /\ req'[p].entry = req[p].entry /\ req'[p].tenant = req[p].tenant
      /\ req'[p].mark = req[p].mark /\ req'[p].body = req[p].body /\ req'[p].ip = req[p].ip
      /\ req'[p].due = req[p].due \/ req'[p].due = None
  BY <1>1, SMT DEF Req
<1>3. QED
  BY <1>1, <1>2, SMT DEF ReqFits, Fits, Grow, Keyed, Entering, Admitted

LEMMA OthersDue ==
  ASSUME IndInv, Grow, StoreKeeps, now' \in Nat, NEW p \in Reqs, req'[p] = req[p],
         store' \in Stores
  PROVE  DueFits(p)'
<1> SUFFICES ASSUME req[p].due # None
             PROVE  DueFits(p)'
  BY DEF DueFits, Owed
<1>1. /\ ReqFits(p) /\ DueFits(p) /\ now \in Nat /\ store \in Stores /\ IdemTTL \in Nat
      /\ \A k \in Keys : KeyFits(k)
  BY Types, Constants DEF IndInv
<1>2. /\ req[p].due \in Nat /\ req[p].op = "Post" /\ req[p].mark \in Marks
      /\ req[p].key \in Keys /\ key[req[p].key].st # "absent"
      /\ key[req[p].key].tenant \in Tenants
  BY <1>1, ReqTypes DEF IndInv, ReqFits, Fits, KeyFits
<1>3. PICK f \in FullKeys : f = <<key[req[p].key].tenant, req[p].mark>>
  BY <1>2 DEF FullKeys
<1>4. f = <<key'[req'[p].key].tenant, req'[p].mark>>
  BY <1>2, <1>3 DEF Grow
<1>5. CASE req[p].pc \in {"auth", "fill", "idem"}
  <2>1. now >= req[p].due \/ (store[f] # None /\ req[p].due <= store[f].at + IdemTTL)
    BY <1>1, <1>3, <1>5 DEF DueFits, Owed
  <2>2. CASE now >= req[p].due
    BY <1>1, <1>2, <1>5, <2>2 DEF DueFits, Owed, StoreKeeps
  <2>3. CASE store[f] # None /\ req[p].due <= store[f].at + IdemTTL
    <3>1. store[f].at \in Nat /\ (store'[f] # None => store'[f].at \in Nat)
      BY <1>1, <2>3 DEF Stores, IdemEntry
    <3>2. \/ store'[f] # None /\ req[p].due <= store'[f].at + IdemTTL
          \/ now' >= req[p].due
      BY <1>1, <1>2, <2>3, <3>1 DEF StoreKeeps
    <3>3. QED
      BY <1>4, <1>5, <3>2 DEF DueFits, Owed
  <2>4. QED
    BY <2>1, <2>2, <2>3
<1>6. CASE req[p].pc \notin {"auth", "fill", "idem"}
  BY <1>1, <1>2, <1>6 DEF DueFits, Owed, StoreKeeps
<1>7. QED
  BY <1>5, <1>6

----------------------------------------------------------------------------
(* The limits *)

Inserting(t) == {q \in Reqs : At(q, "insert") /\ req[q].tenant = t}
Creating == {q \in Reqs : At(q, "create")}

LEMMA Finite ==
  /\ \A t : IsFiniteSet(LiveKeys(t)) /\ IsFiniteSet(LiveKeys(t)')
  /\ \A t : IsFiniteSet(Inserting(t)) /\ IsFiniteSet(Inserting(t)')
  /\ IsFiniteSet(Active) /\ IsFiniteSet(Active')
  /\ IsFiniteSet(Creating) /\ IsFiniteSet(Creating')
<1>1. \A t : LiveKeys(t) \subseteq Keys /\ LiveKeys(t)' \subseteq Keys
  BY DEF LiveKeys
<1>2. \A t : Inserting(t) \subseteq Reqs /\ Inserting(t)' \subseteq Reqs
  BY DEF Inserting
<1>3. Active \subseteq Tenants /\ Active' \subseteq Tenants
  BY DEF Active
<1>4. Creating \subseteq Reqs /\ Creating' \subseteq Reqs
  BY DEF Creating
<1>5. IsFiniteSet(Tenants) /\ IsFiniteSet(Keys) /\ IsFiniteSet(Reqs)
  BY Constants
<1>6. QED
  BY <1>1, <1>2, <1>3, <1>4, <1>5, FS_Subset

LEMMA SomeReq == Cardinality(Reqs) \in Nat /\ Cardinality(Reqs) >= 1
  BY Constants, FS_CardinalityType, FS_EmptySet

\* Each limit by itself, so that a step is only asked about what it changes.
KeysLimited(t) ==
  Cardinality(LiveKeys(t)) + Cardinality(Inserting(t)) <= MaxKeys + Cardinality(Reqs) - 1
TenantsLimited ==
  Cardinality(Active) + Cardinality(Creating) <= MaxTenants + Cardinality(Reqs) - 1

LEMMA Limits ==
  /\ QuotaOvershoot <=> (\A t \in Tenants : KeysLimited(t)) /\ TenantsLimited
  /\ QuotaOvershoot' <=> (\A t \in Tenants : KeysLimited(t)') /\ TenantsLimited'
  BY DEF QuotaOvershoot, KeysLimited, TenantsLimited, Inserting, Creating

LEMMA KeysStayLimited ==
  ASSUME NEW t, KeysLimited(t), LiveKeys(t)' \subseteq LiveKeys(t),
         Inserting(t)' \subseteq Inserting(t)
  PROVE  KeysLimited(t)'
<1>1. /\ Cardinality(LiveKeys(t)') <= Cardinality(LiveKeys(t))
      /\ Cardinality(Inserting(t)') <= Cardinality(Inserting(t))
  BY Finite, FS_Subset
<1>2. /\ Cardinality(LiveKeys(t)') \in Nat /\ Cardinality(LiveKeys(t)) \in Nat
      /\ Cardinality(Inserting(t)') \in Nat /\ Cardinality(Inserting(t)) \in Nat
  BY Finite, FS_CardinalityType
<1>3. QED
  BY <1>1, <1>2, SomeReq, Constants DEF KeysLimited

LEMMA TenantsStayLimited ==
  ASSUME TenantsLimited, Active' \subseteq Active, Creating' \subseteq Creating
  PROVE  TenantsLimited'
<1>1. Cardinality(Active') <= Cardinality(Active) /\ Cardinality(Creating') <= Cardinality(Creating)
  BY Finite, FS_Subset
<1>2. /\ Cardinality(Active') \in Nat /\ Cardinality(Active) \in Nat
      /\ Cardinality(Creating') \in Nat /\ Cardinality(Creating) \in Nat
  BY Finite, FS_CardinalityType
<1>3. QED
  BY <1>1, <1>2, SomeReq, Constants DEF TenantsLimited

\* A request that counts enters when the limit is not reached: whatever the others
\* do, they are at most all the requests.
LEMMA KeysCounted ==
  ASSUME NEW t, LiveKeys(t)' = LiveKeys(t), Cardinality(LiveKeys(t)) < MaxKeys
  PROVE  KeysLimited(t)'
<1>1. Inserting(t)' \subseteq Reqs
  BY DEF Inserting
<1>2. /\ Cardinality(Inserting(t)') <= Cardinality(Reqs)
      /\ Cardinality(LiveKeys(t)) \in Nat /\ Cardinality(Inserting(t)') \in Nat
  BY <1>1, Finite, Constants, FS_Subset, FS_CardinalityType
<1>3. QED
  BY <1>2, SomeReq, Constants DEF KeysLimited

LEMMA TenantsCounted ==
  ASSUME Active' = Active, Cardinality(Active) < MaxTenants
  PROVE  TenantsLimited'
<1>1. Creating' \subseteq Reqs
  BY DEF Creating
<1>2. /\ Cardinality(Creating') <= Cardinality(Reqs)
      /\ Cardinality(Active) \in Nat /\ Cardinality(Creating') \in Nat
  BY <1>1, Finite, Constants, FS_Subset, FS_CardinalityType
<1>3. QED
  BY <1>2, SomeReq, Constants DEF TenantsLimited

LEMMA OneMore ==
  ASSUME NEW S, IsFiniteSet(S), NEW x
  PROVE  IsFiniteSet(S \cup {x}) /\ Cardinality(S \cup {x}) <= Cardinality(S) + 1
<1>1. Cardinality(S) \in Nat
  BY FS_CardinalityType
<1>2. /\ IsFiniteSet(S \cup {x})
      /\ Cardinality(S \cup {x}) = Cardinality(S) \/ Cardinality(S \cup {x}) = Cardinality(S) + 1
  BY FS_AddElement, Zenon
<1>3. QED
  BY <1>1, <1>2

\* The row that is inserted takes the place of the request that inserts it.
LEMMA KeysInserted ==
  ASSUME NEW t, NEW k, NEW q, KeysLimited(t), LiveKeys(t)' \subseteq LiveKeys(t) \cup {k},
         q \in Inserting(t), Inserting(t)' \subseteq Inserting(t) \ {q}
  PROVE  KeysLimited(t)'
<1>1. /\ IsFiniteSet(LiveKeys(t) \cup {k})
      /\ Cardinality(LiveKeys(t) \cup {k}) <= Cardinality(LiveKeys(t)) + 1
  BY Finite, OneMore
<1>2. /\ IsFiniteSet(Inserting(t) \ {q})
      /\ Cardinality(Inserting(t) \ {q}) = Cardinality(Inserting(t)) - 1
  BY Finite, FS_RemoveElement
<1>3. /\ Cardinality(LiveKeys(t)') <= Cardinality(LiveKeys(t) \cup {k})
      /\ Cardinality(Inserting(t)') <= Cardinality(Inserting(t) \ {q})
  BY <1>1, <1>2, FS_Subset
<1>4. /\ Cardinality(LiveKeys(t)') \in Nat /\ Cardinality(LiveKeys(t)) \in Nat
      /\ Cardinality(Inserting(t)') \in Nat /\ Cardinality(Inserting(t)) \in Nat
      /\ Cardinality(LiveKeys(t) \cup {k}) \in Nat
  BY <1>1, Finite, FS_CardinalityType
<1>5. QED
  BY <1>1, <1>2, <1>3, <1>4, SomeReq, Constants DEF KeysLimited

LEMMA TenantsInserted ==
  ASSUME NEW t, NEW q, TenantsLimited, Active' \subseteq Active \cup {t},
         q \in Creating, Creating' \subseteq Creating \ {q}
  PROVE  TenantsLimited'
<1>1. /\ IsFiniteSet(Active \cup {t})
      /\ Cardinality(Active \cup {t}) <= Cardinality(Active) + 1
  BY Finite, OneMore
<1>2. /\ IsFiniteSet(Creating \ {q})
      /\ Cardinality(Creating \ {q}) = Cardinality(Creating) - 1
  BY Finite, FS_RemoveElement
<1>3. /\ Cardinality(Active') <= Cardinality(Active \cup {t})
      /\ Cardinality(Creating') <= Cardinality(Creating \ {q})
  BY <1>1, <1>2, FS_Subset
<1>4. /\ Cardinality(Active') \in Nat /\ Cardinality(Active) \in Nat
      /\ Cardinality(Creating') \in Nat /\ Cardinality(Creating) \in Nat
      /\ Cardinality(Active \cup {t}) \in Nat
  BY <1>1, Finite, FS_CardinalityType
<1>5. QED
  BY <1>1, <1>2, <1>3, <1>4, SomeReq, Constants DEF TenantsLimited

----------------------------------------------------------------------------
(* Steps of a request *)

Evicting(p) == At(p, "evict") \/ At(p, "evictAll")

\* A key stays excused while those who are about to evict it are left alone.
LEMMA ExcusedStays ==
  ASSUME NEW k, Excused(k), raced \subseteq raced', key'[k].tenant = key[k].tenant,
         Valid(k) => Excused(k)',
         \A p \in Reqs : Evicting(p) => /\ req'[p].pc = req[p].pc
                                        /\ req'[p].target = req[p].target
                                        /\ req'[p].tenant = req[p].tenant
  PROVE  Excused(k)'
  BY DEF Excused, EvictionToCome, Evicting, At

\* Request q goes on as r while the tables and the store stay as they are.
Moves(q, r) ==
  /\ r \in Req /\ req' = [req EXCEPT ![q] = r] /\ ~Evicting(q)
  /\ UNCHANGED <<now, tenant, key, store, raced>>

\* What is in the cache afterwards was there, or may be.
CacheMoves ==
  \A k \in Keys : \/ cache'[k] = cache[k] \/ cache'[k] = None
                  \/ CacheFits(k)' /\ (cache'[k].status = "active" => Excused(k))

\* Who counts has seen the limit.
Counted(r) ==
  /\ r.pc = "insert" => Cardinality(LiveKeys(r.tenant)) < MaxKeys
  /\ r.pc = "create" => Cardinality(Active) < MaxTenants

LEMMA MoveOK ==
  ASSUME IndInv, NEW q \in Reqs, NEW r, Moves(q, r), TypeOK', CacheMoves,
         Fits(r), Owed(r), Fills(r), Counted(r)
  PROVE  IndInv'
<1>1. /\ req \in [Reqs -> Req] /\ req'[q] = r /\ TypeOK
      /\ \A p \in Reqs : p # q => req'[p] = req[p]
      /\ now \in Nat /\ store' \in Stores /\ store \in Stores
  BY Types, TypesNext DEF IndInv, Moves
<1>2. UNCHANGED <<now, tenant, key, store, raced>>
  BY DEF Moves
<1>3. Grow
  BY <1>2 DEF Grow
<1>4. StoreKeeps
  <2>1. \A f \in FullKeys : store[f] # None => store[f].at \in Nat
    BY <1>1 DEF Stores, IdemEntry
  <2>2. QED
    BY <1>1, <1>2, <2>1 DEF StoreKeeps
<1>5. ASSUME NEW p \in Reqs PROVE ReqFits(p)' /\ DueFits(p)'
  <2>1. CASE p = q
    BY <1>1, <1>2, <2>1 DEF ReqFits, Fits, DueFits, Owed
  <2>2. CASE p # q
    BY <1>1, <1>2, <1>3, <1>4, <2>2, OthersFit, OthersDue
  <2>3. QED
    BY <2>1, <2>2
<1>6. ASSUME NEW k, Excused(k) PROVE Excused(k)'
  <2>1. Valid(k) => Excused(k)'
    BY <1>2 DEF Valid, Excused
  <2>2. \A p \in Reqs : Evicting(p) => req'[p] = req[p]
    BY <1>1 DEF Moves
  <2>3. QED
    BY <1>2, <1>6, <2>1, <2>2, ExcusedStays
<1>7. ASSUME NEW p \in Reqs PROVE FillFits(p)'
  <2>1. CASE p = q
    BY <1>1, <1>6, <2>1 DEF FillFits, Fills
  <2>2. CASE p # q
    <3>1. Fills(req[p])
      BY DEF IndInv, FillFits
    <3>2. QED
      BY <1>1, <1>6, <2>2, <3>1 DEF FillFits, Fills
  <2>3. QED
    BY <2>1, <2>2
<1>8. ASSUME NEW k \in Keys PROVE KeyFits(k)' /\ CacheFits(k)' /\ StaleFits(k)'
  <2>1. KeyFits(k) /\ CacheFits(k) /\ StaleFits(k)
    BY DEF IndInv
  <2>2. KeyFits(k)'
    BY <1>2, <2>1 DEF KeyFits
  <2>3. CASE cache'[k] = cache[k]
    BY <1>2, <1>6, <2>1, <2>2, <2>3 DEF CacheFits, StaleFits
  <2>4. CASE cache'[k] = None
    BY <2>2, <2>4 DEF CacheFits, StaleFits
  <2>5. CASE CacheFits(k)' /\ (cache'[k].status = "active" => Excused(k))
    BY <1>6, <2>2, <2>5 DEF StaleFits
  <2>6. QED
    BY <2>3, <2>4, <2>5 DEF CacheMoves
<1>9. \A f \in FullKeys : StoreFits(f)'
  BY <1>2 DEF IndInv, StoreFits
<1>10. ASSUME NEW t \in Tenants PROVE KeysLimited(t)'
  <2>1. KeysLimited(t) /\ LiveKeys(t)' = LiveKeys(t)
    BY <1>2, Limits DEF IndInv, LiveKeys
  <2>2. CASE r.pc = "insert" /\ r.tenant = t
    BY <2>1, <2>2, KeysCounted DEF Counted
  <2>3. CASE ~(r.pc = "insert" /\ r.tenant = t)
    <3>1. Inserting(t)' \subseteq Inserting(t)
      BY <1>1, <2>3 DEF Inserting, At
    <3>2. QED
      BY <2>1, <3>1, KeysStayLimited
  <2>4. QED
    BY <2>2, <2>3
<1>11. TenantsLimited'
  <2>1. TenantsLimited /\ Active' = Active
    BY <1>2, Limits DEF IndInv, Active
  <2>2. CASE r.pc = "create"
    BY <2>1, <2>2, TenantsCounted DEF Counted
  <2>3. CASE r.pc # "create"
    <3>1. Creating' \subseteq Creating
      BY <1>1, <2>3 DEF Creating, At
    <3>2. QED
      BY <2>1, <3>1, TenantsStayLimited
  <2>4. QED
    BY <2>2, <2>3
<1>12. QED
  BY <1>5, <1>7, <1>8, <1>9, <1>10, <1>11, Limits DEF IndInv

LEMMA MoveTypes ==
  ASSUME TypeOK, NEW q \in Reqs, NEW r, Moves(q, r), UNCHANGED bounds,
         cache' \in Caches, reg' \in Limiter, allowed' \in Seq(Allowed)
  PROVE  TypeOK'
<1>1. /\ req' \in [Reqs -> Req] /\ UNCHANGED <<now, tenant, key, store, raced>>
      /\ UNCHANGED <<ops, restarts>>
  BY Types DEF Moves, bounds
<1>2. QED
  BY <1>1, Types, TypesNext

LEMMA QuietOK ==
  ASSUME IndInv, NEW q \in Reqs, NEW r \in Req, req' = [req EXCEPT ![q] = r],
         ~Evicting(q), UNCHANGED <<apiVars, bounds, histories>>,
         Fits(r), Owed(r), Fills(r), Counted(r)
  PROVE  IndInv'
<1>1. Moves(q, r) /\ UNCHANGED <<cache, reg, allowed, bounds>>
  BY DEF Moves, apiVars, histories
<1>2. CacheMoves
  BY <1>1 DEF CacheMoves
<1>3. TypeOK'
  BY <1>1, Types, MoveTypes DEF IndInv
<1>4. QED
  BY <1>1, <1>2, <1>3, MoveOK

\* A request that has been answered owes nothing.
LEMMA IdleFits ==
  /\ IdleReq \in Req /\ Fits(IdleReq) /\ Owed(IdleReq) /\ Fills(IdleReq) /\ Counted(IdleReq)
  BY IdleTypes DEF Fits, Owed, Fills, Counted, Keyed, Entering, Admitted

LEMMA ReplyOK ==
  ASSUME IndInv, NEW q \in Reqs, Reply(q), ~Evicting(q),
         UNCHANGED <<apiVars, bounds, histories>>
  PROVE  IndInv'
<1>1. req' = [req EXCEPT ![q] = IdleReq]
  BY DEF Reply
<1>2. QED
  BY <1>1, IdleFits, QuietOK

\* A request that goes on within the handlers, at label l.
LEMMA GoesFit ==
  ASSUME IndInv, NEW q \in Reqs, NEW l \in Pcs, Goto(q, l)
  PROVE  \E r \in Req : /\ req' = [req EXCEPT ![q] = r]
                        /\ r = [req[q] EXCEPT !.pc = l]
                        /\ r.pc = l /\ r.op = req[q].op /\ r.key = req[q].key
                        /\ r.tenant = req[q].tenant /\ r.mark = req[q].mark
                        /\ r.body = req[q].body /\ r.due = req[q].due /\ r.ip = req[q].ip
                        /\ r.target = req[q].target
<1> DEFINE r == [req[q] EXCEPT !.pc = l]
<1>1. req[q] \in Req
  BY ReqTypes DEF IndInv
<1>2. /\ r \in Req /\ r.pc = l /\ r.op = req[q].op /\ r.key = req[q].key
      /\ r.tenant = req[q].tenant /\ r.mark = req[q].mark
      /\ r.body = req[q].body /\ r.due = req[q].due /\ r.ip = req[q].ip
      /\ r.target = req[q].target
  BY <1>1 DEF Req
<1>3. req' = [req EXCEPT ![q] = r]
  BY DEF Goto
<1>4. QED
  BY <1>2, <1>3

LEMMA SendRegisterOK ==
  ASSUME IndInv, NEW q \in Reqs, NEW ip \in IPs, SendRegister(q, ip)
  PROVE  IndInv'
<1> DEFINE r == [IdleReq EXCEPT !.op = "Register", !.pc = "allow", !.ip = ip]
<1>1. r \in Req /\ r.pc = "allow" /\ r.op = "Register" /\ r.due = None /\ r.ip = ip
  BY DEF Req, IdleReq, Pcs, Ops
<1>2. /\ req' = [req EXCEPT ![q] = r] /\ At(q, "idle")
      /\ UNCHANGED <<apiVars, bounds, histories>>
  BY Zenon DEF SendRegister, Send
<1> HIDE DEF r
<1>3. Fits(r) /\ Owed(r) /\ Fills(r) /\ Counted(r)
  BY <1>1 DEF Fits, Owed, Fills, Counted, Keyed, Entering, Admitted
<1>4. ~Evicting(q)
  BY <1>2 DEF Evicting, At
<1>5. QED
  BY <1>1, <1>2, <1>3, <1>4, QuietOK

LEMMA SendKeyedOK ==
  ASSUME IndInv, NEW q \in Reqs, NEW op \in ops \ {"Register", "Post"}, NEW k \in Keys,
         NEW x \in Keys \cup {None}, SendKeyed(q, op, k, x)
  PROVE  IndInv'
<1> DEFINE r == [IdleReq EXCEPT !.op = op, !.pc = "auth", !.key = k, !.target = x]
<1>1. op \in Ops
  BY MixesAssumption, Types DEF IndInv
<1>2. r \in Req /\ r.pc = "auth" /\ r.op = op /\ r.due = None /\ r.key = k
  BY <1>1 DEF Req, IdleReq, Pcs
<1>3. /\ req' = [req EXCEPT ![q] = r] /\ At(q, "idle") /\ key[k].st # "absent"
      /\ UNCHANGED <<apiVars, bounds, histories>>
  BY Zenon DEF SendKeyed, Send
<1> HIDE DEF r
<1>4. Fits(r) /\ Owed(r) /\ Fills(r) /\ Counted(r)
  BY <1>1, <1>2, <1>3 DEF Fits, Owed, Fills, Counted, Keyed, Entering, Admitted
<1>5. ~Evicting(q)
  BY <1>3 DEF Evicting, At
<1>6. QED
  BY <1>2, <1>3, <1>4, <1>5, QuietOK

LEMMA SendPostOK ==
  ASSUME IndInv, NEW q \in Reqs, NEW k \in Keys, NEW m \in Marks, NEW b \in Bodies,
         SendPost(q, k, m, b)
  PROVE  IndInv'
<1>1. /\ key[k].st # "absent" /\ At(q, "idle") /\ KeyFits(k)
      /\ store \in Stores /\ IdemTTL \in Nat /\ now \in Nat
  BY Types, Constants DEF SendPost, Send, IndInv
<1>2. PICK f \in FullKeys : f = <<key[k].tenant, m>>
  BY <1>1 DEF KeyFits, FullKeys
<1>3. PICK d : d = KeptUntil(f)
  OBVIOUS
<1>4. /\ d \in Nat \cup {None}
      /\ d # None => store[f] # None /\ d = store[f].at + IdemTTL
  <2>1. store[f] # None => store[f].at \in Nat
    BY <1>1 DEF Stores, IdemEntry
  <2>2. QED
    BY <1>1, <1>3, <2>1 DEF KeptUntil, Unexpired
<1> DEFINE r == [IdleReq EXCEPT !.op = "Post", !.pc = "auth", !.key = k, !.mark = m,
                                !.body = b, !.due = d]
<1>5. /\ r \in Req /\ r.pc = "auth" /\ r.op = "Post" /\ r.due = d /\ r.key = k
      /\ r.mark = m /\ r.body = b
  BY <1>4 DEF Req, IdleReq, Pcs, Ops
<1>6. req' = [req EXCEPT ![q] = r] /\ UNCHANGED <<apiVars, bounds, histories>>
  BY <1>2, <1>3, Zenon DEF SendPost, Send
<1> HIDE DEF r
<1>7. Fits(r) /\ Fills(r) /\ Counted(r)
  BY <1>1, <1>5 DEF Fits, Fills, Counted, Keyed, Entering, Admitted, Ops
<1>8. Owed(r)
  <2>1. store[f] # None => store[f].at \in Nat
    BY <1>1 DEF Stores, IdemEntry
  <2>2. QED
    BY <1>1, <1>2, <1>4, <1>5, <2>1 DEF Owed
<1>9. ~Evicting(q)
  BY <1>1 DEF Evicting, At
<1>10. QED
  BY <1>5, <1>6, <1>7, <1>8, <1>9, QuietOK

LEMMA AdmitFits ==
  ASSUME IndInv, NEW q \in Reqs, req[q].pc \in Entering, NEW e \in CacheEntry,
         e.tenant = key[req[q].key].tenant, Admit(q, e)
  PROVE  \E r \in Req : /\ req' = [req EXCEPT ![q] = r]
                        /\ Fits(r) /\ Owed(r) /\ Fills(r) /\ Counted(r)
<1>1. CASE Reply(q)
  BY <1>1, IdleFits DEF Reply
<1>2. CASE req' = [req EXCEPT ![q].pc = Handler(req[q].op), ![q].tenant = e.tenant,
                              ![q].entry = None]
  <2>1. req[q] \in Req /\ Fits(req[q]) /\ Owed(req[q]) /\ req \in [Reqs -> Req]
    BY ReqTypes, Types DEF IndInv, ReqFits, DueFits
  <2>2. PICK l : l = Handler(req[q].op)
    OBVIOUS
  <2>3. /\ l \in {"idem", "count", "revoke", "suspend"}
        /\ l = "idem" => req[q].op = "Post"
        /\ req[q].op = "Post" => l = "idem"
    BY <2>1, <2>2 DEF Handler, Fits, Ops
  <2>4. PICK t \in Tenants : t = e.tenant
    BY DEF CacheEntry
  <2> DEFINE r == [req[q] EXCEPT !.pc = l, !.tenant = t, !.entry = None]
  <2>5. /\ r \in Req /\ r.pc = l /\ r.tenant = t /\ r.op = req[q].op /\ r.key = req[q].key
        /\ r.mark = req[q].mark /\ r.body = req[q].body /\ r.due = req[q].due
    <3>1. l \in Pcs /\ t \in Tenants \cup {None} /\ None \in CacheEntry \cup {None}
      BY <2>3 DEF Pcs
    <3>2. r \in Req
      BY <2>1, <3>1, ZenonT(30) DEF Req
    <3>3. /\ r.pc = l /\ r.tenant = t /\ r.op = req[q].op /\ r.key = req[q].key
          /\ r.mark = req[q].mark /\ r.body = req[q].body /\ r.due = req[q].due
      BY <2>1 DEF Req
    <3>4. QED
      BY <3>2, <3>3, Zenon
  <2>6. req' = [req EXCEPT ![q] = r]
    BY <1>2, <2>1, <2>2, <2>4
  <2> HIDE DEF r
  <2>7. Fits(r)
    BY <2>1, <2>3, <2>4, <2>5 DEF Fits, Keyed, Entering, Admitted
  <2>8. Owed(r)
    BY <2>1, <2>3, <2>5 DEF Owed, Entering
  <2>9. Fills(r) /\ Counted(r)
    BY <2>3, <2>5 DEF Fills, Counted
  <2>10. QED
    BY <2>5, <2>6, <2>7, <2>8, <2>9
<1>3. QED
  BY <1>1, <1>2 DEF Admit

LEMMA UseCachedOK ==
  ASSUME IndInv, NEW q \in Reqs, UseCached(q)
  PROVE  IndInv'
<1>1. PICK k \in Keys : k = req[q].key /\ key[k].st # "absent"
  BY DEF UseCached, At, IndInv, ReqFits, Fits, Keyed, Entering
<1>2. /\ cache[k] # None /\ cache[k] \in CacheEntry /\ cache[k].tenant = key[k].tenant
      /\ cache \in Caches
  BY <1>1, Types DEF UseCached, Fresh, IndInv, CacheFits, Caches
<1>3. /\ req[q].pc \in Entering /\ ~Evicting(q) /\ TypeOK
      /\ UNCHANGED <<now, tenant, key, store, raced>>
      /\ UNCHANGED <<reg, allowed, bounds>>
  BY DEF UseCached, At, Entering, Evicting, IndInv, histories
<1>4. CASE InvalidateKey(k) /\ Reply(q)
  <2>1. Moves(q, IdleReq)
    BY <1>3, <1>4, IdleFits DEF Moves, Reply
  <2>2. cache' \in Caches /\ CacheMoves
    BY <1>2, <1>4 DEF InvalidateKey, Caches, CacheMoves
  <2>3. TypeOK'
    BY <1>3, <2>1, <2>2, MoveTypes, Types
  <2>4. QED
    BY <2>1, <2>2, <2>3, IdleFits, MoveOK
<1>5. CASE Admit(q, cache[k]) /\ UNCHANGED cache
  <2>1. PICK r \in Req : /\ req' = [req EXCEPT ![q] = r]
                         /\ Fits(r) /\ Owed(r) /\ Fills(r) /\ Counted(r)
    <3>1. PICK e \in CacheEntry : e = cache[k]
      BY <1>2
    <3>2. e.tenant = key[req[q].key].tenant /\ Admit(q, e)
      BY <1>1, <1>2, <1>5, <3>1
    <3>3. QED
      BY <1>3, <3>2, AdmitFits
  <2>2. Moves(q, r) /\ CacheMoves /\ cache' \in Caches
    BY <1>2, <1>3, <1>5, <2>1 DEF Moves, CacheMoves
  <2>3. TypeOK'
    BY <1>3, <2>2, MoveTypes, Types
  <2>4. QED
    BY <2>1, <2>2, <2>3, MoveOK
<1>6. QED
  BY <1>1, <1>4, <1>5 DEF UseCached

LEMMA LookUpKeyOK ==
  ASSUME IndInv, NEW q \in Reqs, LookUpKey(q)
  PROVE  IndInv'
<1>1. PICK k \in Keys : k = req[q].key /\ key[k].st # "absent"
  BY DEF LookUpKey, At, IndInv, ReqFits, Fits, Keyed, Entering
<1>2. /\ req[q].pc = "auth" /\ ~Evicting(q) /\ KeyFits(k) /\ key[k] \in Key
      /\ tenant \in Statuses /\ UNCHANGED <<apiVars, bounds, histories>>
  BY Types DEF LookUpKey, At, Evicting, IndInv, Rows
<1>3. CASE Reply(q)
  BY <1>2, <1>3, ReplyOK
<1>4. CASE /\ Selectable(k)
           /\ req' = [req EXCEPT ![q].pc = "fill", ![q].entry =
                [tenant |-> key[k].tenant, status |-> tenant[key[k].tenant],
                 exp |-> key[k].exp, at |-> 0]]
  <2>1. PICK t \in Tenants : t = key[k].tenant /\ tenant[t] \in {"active", "suspended"}
    BY <1>1, <1>2 DEF KeyFits, Statuses
  <2>2. PICK e \in CacheEntry : /\ e = [tenant |-> t, status |-> tenant[t],
                                        exp |-> key[k].exp, at |-> 0]
                                /\ e.tenant = t /\ e.status = tenant[t]
    <3>1. PICK x \in Nat \cup {None}, st \in {"active", "suspended"} :
            x = key[k].exp /\ st = tenant[t]
      BY <1>2, <2>1 DEF Key
    <3>2. [tenant |-> t, status |-> st, exp |-> x, at |-> 0] \in CacheEntry
      BY DEF CacheEntry
    <3>3. QED
      BY <3>1, <3>2
  <2>3. req[q] \in Req /\ Fits(req[q]) /\ Owed(req[q]) /\ req \in [Reqs -> Req]
    BY ReqTypes, Types DEF IndInv, ReqFits, DueFits
  <2> DEFINE r == [req[q] EXCEPT !.pc = "fill", !.entry = e]
  <2>4. /\ r \in Req /\ r.pc = "fill" /\ r.entry = e /\ r.op = req[q].op /\ r.key = req[q].key
        /\ r.mark = req[q].mark /\ r.body = req[q].body /\ r.due = req[q].due
    <3>1. "fill" \in Pcs /\ e \in CacheEntry \cup {None}
      BY DEF Pcs
    <3>2. r \in Req
      BY <2>3, <3>1, ZenonT(30) DEF Req
    <3>3. /\ r.pc = "fill" /\ r.entry = e /\ r.op = req[q].op /\ r.key = req[q].key
          /\ r.mark = req[q].mark /\ r.body = req[q].body /\ r.due = req[q].due
      BY <2>3 DEF Req
    <3>4. QED
      BY <3>2, <3>3, Zenon
  <2>5. req' = [req EXCEPT ![q] = r]
    BY <1>4, <2>1, <2>2, <2>3
  <2> HIDE DEF r
  <2>6. Fits(r)
    BY <1>1, <1>2, <2>1, <2>2, <2>3, <2>4 DEF Fits, Keyed, Entering, Admitted
  <2>7. Owed(r) /\ Counted(r)
    BY <1>2, <2>3, <2>4 DEF Owed, Counted
  <2>8. Fills(r)
    BY <1>1, <1>4, <2>1, <2>2, <2>4 DEF Fills, Excused, Valid, Selectable
  <2>9. QED
    BY <1>2, <2>4, <2>5, <2>6, <2>7, <2>8, QuietOK
<1>5. QED
  BY <1>1, <1>3, <1>4 DEF LookUpKey

LEMMA LookUpMarkOK ==
  ASSUME IndInv, NEW q \in Reqs, LookUpMark(q)
  PROVE  IndInv'
<1>1. /\ req[q].pc = "idem" /\ ~Evicting(q) /\ UNCHANGED <<apiVars, bounds, histories>>
      /\ Fits(req[q]) /\ Owed(req[q]) /\ now \in Nat /\ store \in Stores /\ IdemTTL \in Nat
      /\ req[q].due \in Nat \cup {None}
  BY ReqTypes, Types, Constants DEF LookUpMark, At, Evicting, IndInv, ReqFits, DueFits
<1>2. CASE Reply(q)
  BY <1>1, <1>2, ReplyOK
<1>3. CASE ~Unexpired(Full(q)) /\ Goto(q, "handle")
  <2>1. PICK r \in Req : /\ req' = [req EXCEPT ![q] = r]
                         /\ r.pc = "handle" /\ r.op = req[q].op /\ r.key = req[q].key
                         /\ r.tenant = req[q].tenant /\ r.mark = req[q].mark
                         /\ r.body = req[q].body /\ r.due = req[q].due
    <3>1. "handle" \in Pcs
      BY DEF Pcs
    <3>2. QED
      BY <1>3, <3>1, GoesFit
  <2>2. Fits(r) /\ Fills(r) /\ Counted(r)
    BY <1>1, <2>1 DEF Fits, Fills, Counted, Keyed, Entering, Admitted
  <2>3. Owed(r)
    <3> SUFFICES ASSUME r.due # None
                 PROVE  now >= r.due
      BY <2>1 DEF Owed
    <3>1. PICK f \in FullKeys : f = Full(q) /\ f = <<key[req[q].key].tenant, req[q].mark>>
      BY <1>1 DEF Fits, Admitted, Keyed, Full, FullKeys, IndInv, KeyFits
    <3>2. now >= r.due \/ (store[f] # None /\ r.due <= store[f].at + IdemTTL)
      BY <1>1, <2>1, <3>1 DEF Owed
    <3>3. store[f] # None => store[f].at \in Nat
      BY <1>1 DEF Stores, IdemEntry
    <3>4. QED
      BY <1>1, <1>3, <2>1, <3>1, <3>2, <3>3 DEF Unexpired
  <2>4. QED
    BY <1>1, <2>1, <2>2, <2>3, QuietOK
<1>4. QED
  BY <1>2, <1>3 DEF LookUpMark

LEMMA HandleOK ==
  ASSUME IndInv, NEW q \in Reqs, Handle(q)
  PROVE  IndInv'
<1>1. /\ req[q].pc = "handle" /\ ~Evicting(q) /\ UNCHANGED <<apiVars, bounds, histories>>
      /\ Fits(req[q])
  BY DEF Handle, At, Evicting, IndInv, ReqFits
<1>2. CASE Reply(q)
  BY <1>1, <1>2, ReplyOK
<1>3. CASE Goto(q, "save")
  <2>1. PICK r \in Req : /\ req' = [req EXCEPT ![q] = r]
                         /\ r.pc = "save" /\ r.op = req[q].op /\ r.key = req[q].key
                         /\ r.tenant = req[q].tenant /\ r.mark = req[q].mark
                         /\ r.body = req[q].body /\ r.due = req[q].due
    <3>1. "save" \in Pcs
      BY DEF Pcs
    <3>2. QED
      BY <1>3, <3>1, GoesFit
  <2>2. Fits(r) /\ Owed(r) /\ Fills(r) /\ Counted(r)
    BY <1>1, <2>1 DEF Fits, Owed, Fills, Counted, Keyed, Entering, Admitted
  <2>3. QED
    BY <1>1, <2>1, <2>2, QuietOK
<1>4. QED
  BY <1>2, <1>3 DEF Handle

LEMMA CountKeysOK ==
  ASSUME IndInv, NEW q \in Reqs, CountKeys(q)
  PROVE  IndInv'
<1>1. /\ req[q].pc = "count" /\ ~Evicting(q) /\ UNCHANGED <<apiVars, bounds, histories>>
      /\ Fits(req[q])
  BY DEF CountKeys, At, Evicting, IndInv, ReqFits
<1>2. CASE Reply(q)
  BY <1>1, <1>2, ReplyOK
<1>3. CASE Cardinality(LiveKeys(req[q].tenant)) < MaxKeys /\ Goto(q, "insert")
  <2>1. PICK r \in Req : /\ req' = [req EXCEPT ![q] = r]
                         /\ r.pc = "insert" /\ r.op = req[q].op /\ r.key = req[q].key
                         /\ r.tenant = req[q].tenant /\ r.mark = req[q].mark
                         /\ r.body = req[q].body /\ r.due = req[q].due
    <3>1. "insert" \in Pcs
      BY DEF Pcs
    <3>2. QED
      BY <1>3, <3>1, GoesFit
  <2>2. Fits(r) /\ Owed(r) /\ Fills(r) /\ Counted(r)
    BY <1>1, <1>3, <2>1 DEF Fits, Owed, Fills, Counted, Keyed, Entering, Admitted
  <2>3. QED
    BY <1>1, <2>1, <2>2, QuietOK
<1>4. QED
  BY <1>2, <1>3 DEF CountKeys

LEMMA CountTenantsOK ==
  ASSUME IndInv, NEW q \in Reqs, CountTenants(q)
  PROVE  IndInv'
<1>1. /\ req[q].pc = "tenants" /\ ~Evicting(q) /\ UNCHANGED <<apiVars, bounds, histories>>
      /\ Fits(req[q])
  BY DEF CountTenants, At, Evicting, IndInv, ReqFits
<1>2. CASE Reply(q)
  BY <1>1, <1>2, ReplyOK
<1>3. CASE Cardinality(Active) < MaxTenants /\ Goto(q, "create")
  <2>1. PICK r \in Req : /\ req' = [req EXCEPT ![q] = r]
                         /\ r.pc = "create" /\ r.op = req[q].op /\ r.due = req[q].due
    <3>1. "create" \in Pcs
      BY DEF Pcs
    <3>2. QED
      BY <1>3, <3>1, GoesFit
  <2>2. Fits(r) /\ Owed(r) /\ Fills(r) /\ Counted(r)
    BY <1>1, <1>3, <2>1 DEF Fits, Owed, Fills, Counted, Keyed, Entering, Admitted
  <2>3. QED
    BY <1>1, <2>1, <2>2, QuietOK
<1>4. QED
  BY <1>2, <1>3 DEF CountTenants

\* Making room in a map only takes an entry out.
LEMMA TrimmedIs ==
  ASSUME NEW S, NEW T, NEW map \in [S -> T \cup {None}], NEW n, NEW c \in Trimmed(map, n)
  PROVE  c \in [S -> T \cup {None}] /\ \A x \in S : c[x] = map[x] \/ c[x] = None
<1>1. CASE c = map
  BY <1>1
<1>2. CASE \E o \in Oldest(map) : c = [map EXCEPT ![o] = None]
  BY <1>2
<1>3. QED
  BY <1>1, <1>2 DEF Trimmed

LEMMA FillCacheOK ==
  ASSUME IndInv, NEW q \in Reqs, FillCache(q)
  PROVE  IndInv'
<1>1. /\ req[q].pc = "fill" /\ req[q].pc \in Entering /\ ~Evicting(q) /\ TypeOK
      /\ UNCHANGED <<now, tenant, key, store, raced>>
      /\ UNCHANGED <<reg, allowed, bounds>> /\ Fits(req[q]) /\ Fills(req[q])
  BY DEF FillCache, At, Entering, Evicting, IndInv, histories, ReqFits, FillFits
<1>2. PICK k \in Keys : k = req[q].key /\ key[k].st # "absent"
  BY <1>1 DEF Fits, Keyed
<1>3. PICK e \in CacheEntry : e = req[q].entry /\ e.tenant = key[k].tenant
  BY <1>1, <1>2 DEF Fits
<1>4. PICK r \in Req : /\ req' = [req EXCEPT ![q] = r]
                       /\ Fits(r) /\ Owed(r) /\ Fills(r) /\ Counted(r)
  <2>1. Admit(q, e) /\ e.tenant = key[req[q].key].tenant
    BY <1>2, <1>3 DEF FillCache
  <2>2. QED
    BY <1>1, <2>1, AdmitFits
<1>5. PICK d \in CacheEntry : d = [e EXCEPT !.at = now] /\ d.tenant = e.tenant /\ d.status = e.status
  <2>1. now \in Nat
    BY <1>1, Types
  <2> DEFINE g == [e EXCEPT !.at = now]
  <2>2. g \in CacheEntry /\ g.tenant = e.tenant /\ g.status = e.status
    BY <2>1 DEF CacheEntry
  <2> HIDE DEF g
  <2>3. QED
    BY <2>2 DEF g
<1>6. PICK c \in Trimmed(cache, CacheMax) : cache' = [c EXCEPT ![k] = d]
  BY <1>2, <1>3, <1>5 DEF FillCache, CacheSet
<1>7. c \in Caches /\ \A x \in Keys : c[x] = cache[x] \/ c[x] = None
  <2>1. cache \in [Keys -> CacheEntry \cup {None}]
    BY <1>1 DEF TypeOK
  <2>2. QED
    BY <2>1, TrimmedIs DEF Caches
<1>8. /\ cache' \in Caches /\ cache'[k] = d
      /\ \A x \in Keys : x # k => cache'[x] = cache[x] \/ cache'[x] = None
  BY <1>6, <1>7 DEF Caches
<1>9. CacheFits(k)' /\ (cache'[k].status = "active" => Excused(k))
  BY <1>1, <1>2, <1>3, <1>5, <1>8 DEF CacheFits, Fills
<1>10. CacheMoves
  BY <1>8, <1>9 DEF CacheMoves
<1>11. Moves(q, r)
  BY <1>1, <1>4 DEF Moves
<1>12. TypeOK'
  BY <1>1, <1>8, <1>11, MoveTypes, Types
<1>13. QED
  BY <1>4, <1>10, <1>11, <1>12, MoveOK

\* The limiter counts, whatever it answers.
LEMMA AllowTypes ==
  ASSUME TypeOK, NEW ip \in IPs, NEW ok, Allow(ip, ok)
  PROVE  reg' \in Limiter
<1>1. /\ reg \in Limiter /\ now \in Nat /\ now + RegWindow \in Nat
      /\ reg.count \in Nat /\ reg.at \in Nat \cup {None}
      /\ reg.entries \in [IPs -> RegEntry \cup {None}]
  BY Types, Constants DEF Limiter
<1>2. PICK n \in Nat, at \in Nat \cup {None} :
        /\ n = IF Over(reg.at) THEN 0 ELSE reg.count
        /\ at = IF Over(reg.at) THEN now + RegWindow ELSE reg.at
  BY <1>1
<1>3. CASE reg' = [reg EXCEPT !.count = n, !.at = at]
  BY <1>1, <1>3 DEF Limiter
<1>4. CASE \E entries \in Trimmed(reg.entries, RegMaxEntries) :
             \/ reg' = [count |-> n + 1, at |-> at,
                        entries |-> [entries EXCEPT ![ip] = [count |-> 1, at |-> now + RegWindow]]]
             \/ /\ entries[ip] # None
                /\ reg' = [count |-> n + 1, at |-> at,
                           entries |-> [entries EXCEPT ![ip] =
                                          [entries[ip] EXCEPT !.count = @ + 1]]]
             \/ reg' = [count |-> n, at |-> at, entries |-> entries]
  <2>1. PICK entries \in Trimmed(reg.entries, RegMaxEntries) :
             \/ reg' = [count |-> n + 1, at |-> at,
                        entries |-> [entries EXCEPT ![ip] = [count |-> 1, at |-> now + RegWindow]]]
             \/ /\ entries[ip] # None
                /\ reg' = [count |-> n + 1, at |-> at,
                           entries |-> [entries EXCEPT ![ip] =
                                          [entries[ip] EXCEPT !.count = @ + 1]]]
             \/ reg' = [count |-> n, at |-> at, entries |-> entries]
    BY <1>4
  <2>2. entries \in [IPs -> RegEntry \cup {None}]
    BY <1>1, TrimmedIs
  <2>3. ASSUME NEW g \in RegEntry PROVE [entries EXCEPT ![ip] = g] \in [IPs -> RegEntry \cup {None}]
    BY <2>2
  <2>4. [count |-> 1, at |-> now + RegWindow] \in RegEntry
    BY <1>1 DEF RegEntry
  <2>5. entries[ip] # None => [entries[ip] EXCEPT !.count = @ + 1] \in RegEntry
    BY <2>2 DEF RegEntry
  <2>6. \A m \in Nat, es \in [IPs -> RegEntry \cup {None}] :
          [count |-> m, at |-> at, entries |-> es] \in Limiter
    BY DEF Limiter
  <2>7. n + 1 \in Nat
    OBVIOUS
  <2>8. QED
    BY <2>1, <2>2, <2>3, <2>4, <2>5, <2>6, <2>7, ZenonT(30)
<1>5. QED
  BY <1>2, <1>3, <1>4 DEF Allow

LEMMA AllowRegistrationOK ==
  ASSUME IndInv, NEW q \in Reqs, AllowRegistration(q)
  PROVE  IndInv'
<1>1. /\ req[q].pc = "allow" /\ ~Evicting(q) /\ TypeOK /\ Fits(req[q]) /\ cache' = cache
      /\ UNCHANGED <<now, tenant, key, store, raced>> /\ UNCHANGED bounds
  BY DEF AllowRegistration, At, Evicting, IndInv, ReqFits
<1>2. PICK ip \in IPs : ip = req[q].ip
  BY <1>1 DEF Fits
<1>3. reg' \in Limiter
  BY <1>1, <1>2, AllowTypes DEF AllowRegistration
<1>4. allowed' \in Seq(Allowed)
  <2>1. allowed \in Seq(Allowed)
    BY <1>1, Types
  <2>2. CASE allowed' = Append(allowed, [at |-> now, life |-> restarts])
    <3>1. [at |-> now, life |-> restarts] \in Allowed
      BY <1>1, Types DEF Allowed
    <3>2. QED
      BY <2>1, <2>2, <3>1
  <2>3. CASE allowed' = allowed
    BY <2>1, <2>3
  <2>4. QED
    BY <2>2, <2>3 DEF AllowRegistration
<1>5. PICK r \in Req : /\ req' = [req EXCEPT ![q] = r]
                       /\ Fits(r) /\ Owed(r) /\ Fills(r) /\ Counted(r)
  <2>1. CASE Reply(q)
    BY <2>1, IdleFits DEF Reply
  <2>2. CASE Goto(q, "tenants")
    <3>1. "tenants" \in Pcs
      BY DEF Pcs
    <3>2. PICK r \in Req : /\ req' = [req EXCEPT ![q] = r]
                           /\ r.pc = "tenants" /\ r.op = req[q].op /\ r.due = req[q].due
      BY <2>2, <3>1, GoesFit
    <3>3. Fits(r) /\ Owed(r) /\ Fills(r) /\ Counted(r)
      BY <1>1, <3>2 DEF Fits, Owed, Fills, Counted, Keyed, Entering, Admitted
    <3>4. QED
      BY <3>2, <3>3
  <2>3. QED
    BY <2>1, <2>2 DEF AllowRegistration
<1>6. Moves(q, r) /\ CacheMoves /\ cache' \in Caches
  BY <1>1, <1>5, Types DEF Moves, CacheMoves
<1>7. TypeOK'
  BY <1>1, <1>3, <1>4, <1>6, MoveTypes
<1>8. QED
  BY <1>5, <1>6, <1>7, MoveOK

----------------------------------------------------------------------------
(* Steps that write the tables *)

\* Request q, not an evicting one, writes the tables and goes on as r.
Writes(q, r) ==
  /\ r \in Req /\ req' = [req EXCEPT ![q] = r] /\ ~Evicting(q)
  /\ UNCHANGED <<now, cache, store, reg, bounds, histories>>
  /\ key' \in Rows /\ tenant' \in Statuses /\ Grow

LEMMA WriteOK ==
  ASSUME IndInv, NEW q \in Reqs, NEW r, Writes(q, r), Fits(r)', Owed(r)', r.pc # "fill",
         \A k \in Keys : KeyFits(k)',
         \A k \in Keys : Valid(k) => Excused(k)', QuotaOvershoot'
  PROVE  IndInv'
<1>1. /\ req \in [Reqs -> Req] /\ req'[q] = r /\ req' \in [Reqs -> Req]
      /\ \A p \in Reqs : p # q => req'[p] = req[p]
      /\ now \in Nat /\ store \in Stores /\ now' \in Nat /\ store' \in Stores
  BY Types DEF IndInv, Writes
<1>2. UNCHANGED <<now, cache, store, reg, ops, restarts, raced, allowed>> /\ Grow
  BY DEF Writes, bounds, histories
<1>3. TypeOK'
  BY <1>1, <1>2, Types, TypesNext DEF IndInv, Writes
<1>4. StoreKeeps
  <2>1. \A f \in FullKeys : store[f] # None => store[f].at \in Nat
    BY <1>1 DEF Stores, IdemEntry
  <2>2. QED
    BY <1>1, <1>2, <2>1 DEF StoreKeeps
<1>5. ASSUME NEW p \in Reqs PROVE ReqFits(p)' /\ DueFits(p)'
  <2>1. CASE p = q
    BY <1>1, <2>1 DEF ReqFits, Fits, DueFits, Owed
  <2>2. CASE p # q
    BY <1>1, <1>2, <1>4, <2>2, OthersFit, OthersDue
  <2>3. QED
    BY <2>1, <2>2
<1>6. ASSUME NEW k \in Keys, key[k].st # "absent", Excused(k) PROVE Excused(k)'
  <2>1. key'[k].tenant = key[k].tenant
    BY <1>2, <1>6 DEF Grow
  <2>2. \A p \in Reqs : Evicting(p) => req'[p] = req[p]
    BY <1>1 DEF Writes
  <2>3. QED
    BY <1>2, <1>6, <2>1, <2>2, ExcusedStays
<1>7. ASSUME NEW p \in Reqs PROVE FillFits(p)'
  <2>1. CASE p = q
    BY <1>1, <2>1 DEF FillFits, Fills
  <2>2. CASE p # q /\ req[p].pc = "fill"
    <3>1. Fills(req[p]) /\ req[p].key \in Keys /\ key[req[p].key].st # "absent"
      BY <2>2 DEF IndInv, FillFits, ReqFits, Fits, Keyed, Entering
    <3>2. QED
      BY <1>1, <1>6, <2>2, <3>1 DEF FillFits, Fills
  <2>3. CASE p # q /\ req[p].pc # "fill"
    BY <1>1, <2>3 DEF FillFits, Fills
  <2>4. QED
    BY <2>1, <2>2, <2>3
<1>8. ASSUME NEW k \in Keys PROVE CacheFits(k)' /\ StaleFits(k)'
  <2>1. CacheFits(k) /\ StaleFits(k)
    BY DEF IndInv
  <2>2. CASE cache[k] = None
    BY <1>2, <2>2 DEF CacheFits, StaleFits
  <2>3. CASE cache[k] # None
    BY <1>2, <1>6, <2>1, <2>3 DEF CacheFits, StaleFits, Grow
  <2>4. QED
    BY <2>2, <2>3
<1>9. \A f \in FullKeys : StoreFits(f)'
  BY <1>2 DEF IndInv, StoreFits
<1>10. QED
  BY <1>3, <1>5, <1>7, <1>8, <1>9 DEF IndInv

LEMMA IdleFitsNext == IdleReq \in Req /\ Fits(IdleReq)' /\ Owed(IdleReq)'
  BY IdleTypes DEF Fits, Owed, Keyed, Entering, Admitted

LEMMA InsertedRow ==
  ASSUME IndInv, NEW k \in Keys, NEW t \in Tenants, NEW x \in Nat \cup {None},
         key[k].st = "absent", InsertKey(k, t, x)
  PROVE  /\ key' \in Rows /\ key'[k].st = "live" /\ key'[k].tenant = t
         /\ \A j \in Keys : j # k => key'[j] = key[j]
<1>1. key \in Rows
  BY Types DEF IndInv
<1> DEFINE row == [st |-> "live", tenant |-> t, exp |-> x]
<1>2. row \in Key /\ row.st = "live" /\ row.tenant = t
  BY DEF Key
<1>3. key' = [key EXCEPT ![k] = row]
  BY DEF InsertKey
<1> HIDE DEF row
<1>4. QED
  BY <1>1, <1>2, <1>3 DEF Rows

LEMMA CreateKeyOK ==
  ASSUME IndInv, NEW q \in Reqs, CreateKey(q)
  PROVE  IndInv'
<1>1. /\ req[q].pc = "insert" /\ ~Evicting(q) /\ Fits(req[q]) /\ now \in Nat
      /\ UNCHANGED <<now, tenant, cache, store, reg, bounds, histories>>
      /\ req \in [Reqs -> Req] /\ req' = [req EXCEPT ![q] = IdleReq]
      /\ tenant \in Statuses
  BY Types DEF CreateKey, At, Evicting, IndInv, ReqFits, Reply
<1>2. PICK t \in Tenants : t = req[q].tenant /\ tenant[t] # "absent"
  BY <1>1 DEF Fits, Admitted, Keyed, IndInv, KeyFits
<1>3. CASE UNCHANGED key
  <2>1. UNCHANGED <<apiVars, bounds, histories>> /\ Reply(q)
    BY <1>1, <1>3 DEF apiVars, CreateKey
  <2>2. QED
    BY <1>1, <2>1, ReplyOK
<1>4. CASE \E k \in Keys, life \in Lifetimes :
             /\ key[k].st = "absent"
             /\ InsertKey(k, req[q].tenant, IF life = None THEN None ELSE now + life)
  <2>1. PICK k \in Keys, life \in Lifetimes :
             /\ key[k].st = "absent"
             /\ InsertKey(k, req[q].tenant, IF life = None THEN None ELSE now + life)
    BY <1>4
  <2>2. PICK x \in Nat \cup {None} : x = IF life = None THEN None ELSE now + life
    BY <1>1, Constants
  <2>3. /\ key' \in Rows /\ key'[k].st = "live" /\ key'[k].tenant = t
        /\ \A j \in Keys : j # k => key'[j] = key[j]
    BY <1>2, <2>1, <2>2, InsertedRow
  <2>4. Grow
    BY <1>1, <2>1, <2>3 DEF Grow
  <2>5. Writes(q, IdleReq)
    BY <1>1, <2>3, <2>4, IdleFits DEF Writes
  <2>6. \A j \in Keys : KeyFits(j)'
    BY <1>1, <1>2, <2>3 DEF IndInv, KeyFits
  <2>7. ASSUME NEW j \in Keys, Valid(j) PROVE Excused(j)'
    <3>1. j # k
      BY <2>1, <2>7 DEF Valid
    <3>2. QED
      BY <1>1, <2>3, <2>7, <3>1 DEF Valid, Excused
  <2>8. ASSUME NEW u \in Tenants PROVE KeysLimited(u)'
    <3>1. KeysLimited(u)
      BY Limits DEF IndInv
    <3>2. Inserting(u)' \subseteq Inserting(u) \ {q}
      BY <1>1, IdleTypes DEF Inserting, At
    <3>3. CASE u = t
      <4>1. LiveKeys(u)' \subseteq LiveKeys(u) \cup {k} /\ q \in Inserting(u)
        BY <1>1, <1>2, <2>3, <3>3 DEF LiveKeys, Inserting, At
      <4>2. QED
        BY <3>1, <3>2, <4>1, KeysInserted
    <3>4. CASE u # t
      <4>1. LiveKeys(u)' \subseteq LiveKeys(u)
        BY <2>3, <3>4 DEF LiveKeys
      <4>2. QED
        BY <3>1, <3>2, <4>1, KeysStayLimited
    <3>5. QED
      BY <3>3, <3>4
  <2>9. TenantsLimited'
    <3>1. Active' = Active /\ TenantsLimited
      BY <1>1, Limits DEF Active, IndInv
    <3>2. Creating' \subseteq Creating
      BY <1>1, IdleTypes DEF Creating, At
    <3>3. QED
      BY <3>1, <3>2, TenantsStayLimited
  <2>10. QED
    BY <2>5, <2>6, <2>7, <2>8, <2>9, Limits, IdleFitsNext, IdleTypes, WriteOK
<1>5. QED
  BY <1>3, <1>4 DEF CreateKey

LEMMA RevokeKeyOK ==
  ASSUME IndInv, NEW q \in Reqs, RevokeKey(q)
  PROVE  IndInv'
<1>1. /\ req[q].pc = "revoke" /\ ~Evicting(q) /\ Fits(req[q]) /\ key \in Rows
      /\ UNCHANGED <<now, tenant, cache, store, reg, bounds, histories>>
      /\ req \in [Reqs -> Req] /\ tenant \in Statuses
  BY Types DEF RevokeKey, At, Evicting, IndInv, ReqFits
<1>2. CASE Reply(q) /\ UNCHANGED key
  <2>1. UNCHANGED <<apiVars, bounds, histories>>
    BY <1>1, <1>2 DEF apiVars
  <2>2. QED
    BY <1>1, <1>2, <2>1, ReplyOK
<1>3. CASE /\ req[q].target \in LiveKeys(req[q].tenant)
           /\ key' = [key EXCEPT ![req[q].target].st = "revoked"] /\ Goto(q, "evict")
  <2>1. PICK k \in Keys : k = req[q].target /\ key[k].st = "live"
    BY <1>3 DEF LiveKeys
  <2> DEFINE row == [key[k] EXCEPT !.st = "revoked"]
  <2>2. row \in Key /\ row.st = "revoked" /\ row.tenant = key[k].tenant
    BY <1>1 DEF Key, Rows
  <2>3. key' = [key EXCEPT ![k] = row]
    BY <1>3, <2>1
  <2> HIDE DEF row
  <2>4. /\ key' \in Rows /\ key'[k].st = "revoked" /\ key'[k].tenant = key[k].tenant
        /\ \A j \in Keys : j # k => key'[j] = key[j]
    BY <1>1, <2>2, <2>3 DEF Rows
  <2>5. PICK r \in Req : /\ req' = [req EXCEPT ![q] = r]
                         /\ r.pc = "evict" /\ r.op = req[q].op /\ r.key = req[q].key
                         /\ r.tenant = req[q].tenant /\ r.mark = req[q].mark
                         /\ r.body = req[q].body /\ r.due = req[q].due
                         /\ r.target = req[q].target
    <3>1. "evict" \in Pcs
      BY DEF Pcs
    <3>2. QED
      BY <1>3, <3>1, GoesFit
  <2>6. Grow
    BY <1>1, <2>1, <2>4 DEF Grow
  <2>7. Writes(q, r)
    BY <1>1, <2>4, <2>5, <2>6 DEF Writes
  <2>8. Fits(r)' /\ Owed(r)' /\ r.pc # "fill"
    BY <1>1, <2>5, <2>6 DEF Fits, Owed, Grow, Keyed, Entering, Admitted
  <2>9. \A j \in Keys : KeyFits(j)'
    BY <1>1, <2>1, <2>4 DEF IndInv, KeyFits
  <2>10. ASSUME NEW j \in Keys, Valid(j) PROVE Excused(j)'
    <3>1. CASE j = k
      <4>1. req'[q].pc = "evict" /\ req'[q].target = k
        BY <1>1, <2>1, <2>5
      <4>2. QED
        BY <3>1, <4>1 DEF Excused, EvictionToCome, At
    <3>2. CASE j # k
      BY <1>1, <2>4, <2>10, <3>2 DEF Valid, Excused
    <3>3. QED
      BY <3>1, <3>2
  <2>11. ASSUME NEW u \in Tenants PROVE KeysLimited(u)'
    <3>1. KeysLimited(u)
      BY Limits DEF IndInv
    <3>2. Inserting(u)' \subseteq Inserting(u)
      BY <1>1, <2>5 DEF Inserting, At
    <3>3. LiveKeys(u)' \subseteq LiveKeys(u)
      BY <2>4 DEF LiveKeys
    <3>4. QED
      BY <3>1, <3>2, <3>3, KeysStayLimited
  <2>12. TenantsLimited'
    <3>1. Active' = Active /\ TenantsLimited
      BY <1>1, Limits DEF Active, IndInv
    <3>2. Creating' \subseteq Creating
      BY <1>1, <2>5 DEF Creating, At
    <3>3. QED
      BY <3>1, <3>2, TenantsStayLimited
  <2>13. QED
    BY <2>5, <2>7, <2>8, <2>9, <2>10, <2>11, <2>12, Limits, WriteOK
<1>4. QED
  BY <1>2, <1>3 DEF RevokeKey

LEMMA DeleteTenantOK ==
  ASSUME IndInv, NEW q \in Reqs, DeleteTenant(q)
  PROVE  IndInv'
<1>1. /\ req[q].pc = "suspend" /\ ~Evicting(q) /\ Fits(req[q]) /\ key \in Rows
      /\ UNCHANGED <<now, cache, store, reg, bounds, histories>>
      /\ req \in [Reqs -> Req] /\ tenant \in Statuses
  BY Types DEF DeleteTenant, At, Evicting, IndInv, ReqFits
<1>2. CASE Reply(q) /\ UNCHANGED <<tenant, key>>
  <2>1. UNCHANGED <<apiVars, bounds, histories>>
    BY <1>1, <1>2 DEF apiVars
  <2>2. QED
    BY <1>1, <1>2, <2>1, ReplyOK
<1>3. CASE SuspendAndRevoke(req[q].tenant) /\ Goto(q, "evictAll")
  <2>1. PICK t \in Tenants : t = req[q].tenant
    BY <1>1 DEF Fits, Admitted, Keyed, IndInv, KeyFits
  <2>2. /\ tenant' \in Statuses /\ tenant'[t] = "suspended"
        /\ \A u \in Tenants : u # t => tenant'[u] = tenant[u]
    BY <1>1, <1>3, <2>1 DEF SuspendAndRevoke, Statuses
  <2>3. ASSUME NEW j \in Keys
        PROVE  /\ key'[j] \in Key /\ key'[j].tenant = key[j].tenant
               /\ key'[j] = key[j] \/ key'[j].st = "revoked"
               /\ key'[j] # key[j] => key[j].st = "live" /\ key[j].tenant = t
    <3>1. key[j] \in Key
      BY <1>1 DEF Rows
    <3> DEFINE row == [key[j] EXCEPT !.st = "revoked"]
    <3>2. row \in Key /\ row.st = "revoked" /\ row.tenant = key[j].tenant
      BY <3>1 DEF Key
    <3>3. key'[j] = IF j \in LiveKeys(t) THEN row ELSE key[j]
      BY <1>3, <2>1 DEF SuspendAndRevoke
    <3> HIDE DEF row
    <3>4. QED
      BY <3>1, <3>2, <3>3 DEF LiveKeys
  <2>4. key' \in Rows
    BY <1>3, <2>3 DEF Rows, SuspendAndRevoke
  <2>5. PICK r \in Req : /\ req' = [req EXCEPT ![q] = r]
                         /\ r.pc = "evictAll" /\ r.op = req[q].op /\ r.key = req[q].key
                         /\ r.tenant = req[q].tenant /\ r.mark = req[q].mark
                         /\ r.body = req[q].body /\ r.due = req[q].due
    <3>1. "evictAll" \in Pcs
      BY DEF Pcs
    <3>2. QED
      BY <1>3, <3>1, GoesFit
  <2>6. Grow
    BY <2>2, <2>3 DEF Grow
  <2>7. Writes(q, r)
    BY <1>1, <2>2, <2>4, <2>5, <2>6 DEF Writes
  <2>8. Fits(r)' /\ Owed(r)' /\ r.pc # "fill"
    BY <1>1, <2>5, <2>6 DEF Fits, Owed, Grow, Keyed, Entering, Admitted
  <2>9. ASSUME NEW j \in Keys PROVE KeyFits(j)'
    BY <2>2, <2>3 DEF IndInv, KeyFits
  <2>10. ASSUME NEW j \in Keys, Valid(j) PROVE Excused(j)'
    <3>1. CASE key[j].tenant = t
      <4>1. req'[q].pc = "evictAll" /\ req'[q].tenant = key'[j].tenant
        BY <1>1, <2>1, <2>3, <2>5, <3>1
      <4>2. QED
        BY <4>1 DEF Excused, EvictionToCome, At
    <3>2. CASE key[j].tenant # t
      <4>1. key'[j] = key[j] /\ key[j].tenant \in Tenants
        BY <2>3, <2>10, <3>2 DEF Valid, IndInv, KeyFits
      <4>2. QED
        BY <2>2, <2>10, <3>2, <4>1 DEF Valid, Excused
    <3>3. QED
      BY <3>1, <3>2
  <2>11. ASSUME NEW u \in Tenants PROVE KeysLimited(u)'
    <3>1. KeysLimited(u)
      BY Limits DEF IndInv
    <3>2. Inserting(u)' \subseteq Inserting(u)
      BY <1>1, <2>5 DEF Inserting, At
    <3>3. LiveKeys(u)' \subseteq LiveKeys(u)
      BY <2>3 DEF LiveKeys
    <3>4. QED
      BY <3>1, <3>2, <3>3, KeysStayLimited
  <2>12. TenantsLimited'
    <3>1. Active' \subseteq Active /\ TenantsLimited
      BY <2>2, Limits DEF Active, IndInv
    <3>2. Creating' \subseteq Creating
      BY <1>1, <2>5 DEF Creating, At
    <3>3. QED
      BY <3>1, <3>2, TenantsStayLimited
  <2>13. QED
    BY <2>5, <2>7, <2>8, <2>9, <2>10, <2>11, <2>12, Limits, WriteOK
<1>4. QED
  BY <1>2, <1>3 DEF DeleteTenant

LEMMA RegisterTenantOK ==
  ASSUME IndInv, NEW q \in Reqs, RegisterTenant(q)
  PROVE  IndInv'
<1>1. /\ req[q].pc = "create" /\ ~Evicting(q) /\ key \in Rows
      /\ UNCHANGED <<now, cache, store, reg, bounds, histories>>
      /\ req \in [Reqs -> Req] /\ req' = [req EXCEPT ![q] = IdleReq]
      /\ tenant \in Statuses
  BY Types DEF RegisterTenant, At, Evicting, IndInv, Reply
<1>2. CASE UNCHANGED <<tenant, key>>
  <2>1. UNCHANGED <<apiVars, bounds, histories>> /\ Reply(q)
    BY <1>1, <1>2 DEF apiVars, RegisterTenant
  <2>2. QED
    BY <1>1, <2>1, ReplyOK
<1>3. CASE \E t \in Tenants, k \in Keys : InsertTenant(t, k)
  <2>1. PICK t \in Tenants, k \in Keys : InsertTenant(t, k)
    BY <1>3
  <2>2. PICK x \in Nat \cup {None} : x = None
    OBVIOUS
  <2>3. /\ tenant[t] = "absent" /\ key[k].st = "absent" /\ InsertKey(k, t, x)
        /\ tenant' = [tenant EXCEPT ![t] = "active"]
    BY <2>1, <2>2 DEF InsertTenant
  <2>4. /\ key' \in Rows /\ key'[k].st = "live" /\ key'[k].tenant = t
        /\ \A j \in Keys : j # k => key'[j] = key[j]
    BY <2>3, InsertedRow
  <2>5. /\ tenant' \in Statuses /\ tenant'[t] = "active"
        /\ \A u \in Tenants : u # t => tenant'[u] = tenant[u]
    BY <1>1, <2>3 DEF Statuses
  <2>6. Grow
    BY <2>3, <2>4, <2>5 DEF Grow
  <2>7. Writes(q, IdleReq)
    BY <1>1, <2>4, <2>5, <2>6, IdleFits DEF Writes
  <2>8. ASSUME NEW j \in Keys PROVE KeyFits(j)'
    BY <2>3, <2>4, <2>5 DEF IndInv, KeyFits
  <2>9. ASSUME NEW j \in Keys, Valid(j) PROVE Excused(j)'
    <3>1. j # k /\ key[j].tenant # t /\ key[j].tenant \in Tenants
      BY <2>3, <2>9 DEF Valid, IndInv, KeyFits
    <3>2. QED
      BY <2>4, <2>5, <2>9, <3>1 DEF Valid, Excused
  <2>10. ASSUME NEW u \in Tenants PROVE KeysLimited(u)'
    <3>1. KeysLimited(u)
      BY Limits DEF IndInv
    <3>2. Inserting(u)' \subseteq Inserting(u)
      BY <1>1, IdleTypes DEF Inserting, At
    <3>3. CASE u = t
      <4>1. LiveKeys(u)' \subseteq {k}
        BY <2>3, <2>4, <3>3 DEF LiveKeys, IndInv, KeyFits
      <4>2. Inserting(u) = {}
        BY <2>3, <3>3 DEF Inserting, At, IndInv, ReqFits, Fits, KeyFits, Admitted, Keyed
      <4>3. Inserting(u)' = {}
        BY <3>2, <4>2
      <4>4. Cardinality(LiveKeys(u)') <= 1 /\ Cardinality(LiveKeys(u)') \in Nat
        <5>1. IsFiniteSet({k}) /\ Cardinality({k}) = 1
          BY FS_Singleton
        <5>2. QED
          BY <4>1, <5>1, Finite, FS_Subset, FS_CardinalityType
      <4>5. Cardinality(Inserting(u)') = 0
        BY <4>3, FS_EmptySet
      <4>6. QED
        BY <4>4, <4>5, SomeReq, Constants DEF KeysLimited
    <3>4. CASE u # t
      <4>1. LiveKeys(u)' \subseteq LiveKeys(u)
        BY <2>4, <3>4 DEF LiveKeys
      <4>2. QED
        BY <3>1, <3>2, <4>1, KeysStayLimited
    <3>5. QED
      BY <3>3, <3>4
  <2>11. TenantsLimited'
    <3>1. Active' \subseteq Active \cup {t} /\ TenantsLimited
      BY <2>5, Limits DEF Active, IndInv
    <3>2. q \in Creating /\ Creating' \subseteq Creating \ {q}
      BY <1>1, IdleTypes DEF Creating, At
    <3>3. QED
      BY <3>1, <3>2, TenantsInserted
  <2>12. QED
    BY <2>7, <2>8, <2>9, <2>10, <2>11, Limits, IdleFitsNext, IdleTypes, WriteOK
<1>4. QED
  BY <1>2, <1>3 DEF RegisterTenant

----------------------------------------------------------------------------
(* Evictions *)

\* Request q evicts the keys Out and answers. Those that another request has read
\* and not cached yet are remembered in raced.
Evicts(q, Out) ==
  /\ Reply(q) /\ UNCHANGED <<now, tenant, key, store, reg, bounds, allowed>>
  /\ cache' \in Caches /\ raced' = raced \cup (InFlight \cap Out)
  /\ \A k \in Keys : cache'[k] = cache[k] \/ cache'[k] = None
  /\ \A k \in Out : cache'[k] = None

LEMMA EvictOK ==
  ASSUME IndInv, NEW q \in Reqs, NEW Out \in SUBSET Keys, Evicts(q, Out),
         \A k \in Keys \ Out : EvictionToCome(k) => EvictionToCome(k)'
  PROVE  IndInv'
<1>1. /\ req \in [Reqs -> Req] /\ req'[q] = IdleReq /\ req' \in [Reqs -> Req]
      /\ \A p \in Reqs : p # q => req'[p] = req[p]
      /\ now \in Nat /\ store \in Stores /\ now' \in Nat /\ store' \in Stores
  BY Types, IdleTypes DEF IndInv, Evicts, Reply
<1>2. UNCHANGED <<now, tenant, key, store, reg, ops, restarts, allowed>>
  BY DEF Evicts, bounds
<1>3. TypeOK'
  <2>1. raced' \subseteq Keys
    BY Types DEF IndInv, Evicts
  <2>2. QED
    BY <1>1, <1>2, <2>1, Types, TypesNext DEF IndInv, Evicts
<1>4. Grow
  BY <1>2 DEF Grow
<1>5. StoreKeeps
  <2>1. \A f \in FullKeys : store[f] # None => store[f].at \in Nat
    BY <1>1 DEF Stores, IdemEntry
  <2>2. QED
    BY <1>1, <1>2, <2>1 DEF StoreKeeps
<1>6. ASSUME NEW p \in Reqs PROVE ReqFits(p)' /\ DueFits(p)'
  <2>1. CASE p = q
    BY <1>1, <2>1, IdleFitsNext DEF ReqFits, Fits, DueFits, Owed
  <2>2. CASE p # q
    BY <1>1, <1>4, <1>5, <2>2, OthersFit, OthersDue
  <2>3. QED
    BY <2>1, <2>2
<1>7. ASSUME NEW k \in Keys \ Out, Excused(k) PROVE Excused(k)'
  BY <1>2, <1>7 DEF Excused, Valid, Evicts
<1>8. ASSUME NEW p \in Reqs PROVE FillFits(p)'
  <2>1. CASE p = q
    BY <1>1, <2>1, IdleTypes DEF FillFits, Fills
  <2>2. CASE p # q /\ req[p].pc = "fill"
    <3>1. Fills(req[p]) /\ req[p].key \in Keys /\ req[p].key \in InFlight
      BY <2>2 DEF IndInv, FillFits, ReqFits, Fits, Keyed, Entering, InFlight, At
    <3>2. CASE req[p].key \in Out
      <4>1. req[p].key \in raced'
        BY <3>1, <3>2 DEF Evicts
      <4>2. QED
        BY <1>1, <2>2, <4>1 DEF FillFits, Fills, Excused
    <3>3. CASE req[p].key \notin Out
      BY <1>1, <1>7, <2>2, <3>1, <3>3 DEF FillFits, Fills
    <3>4. QED
      BY <3>2, <3>3
  <2>3. CASE p # q /\ req[p].pc # "fill"
    BY <1>1, <2>3 DEF FillFits, Fills
  <2>4. QED
    BY <2>1, <2>2, <2>3
<1>9. ASSUME NEW k \in Keys PROVE KeyFits(k)' /\ CacheFits(k)' /\ StaleFits(k)'
  <2>1. KeyFits(k) /\ CacheFits(k) /\ StaleFits(k)
    BY DEF IndInv
  <2>2. KeyFits(k)'
    BY <1>2, <2>1 DEF KeyFits
  <2>3. CASE cache'[k] = None
    BY <2>2, <2>3 DEF CacheFits, StaleFits
  <2>4. CASE cache'[k] # None
    <3>1. cache'[k] = cache[k] /\ k \notin Out
      BY <2>4 DEF Evicts
    <3>2. QED
      BY <1>2, <1>7, <2>1, <2>2, <3>1 DEF CacheFits, StaleFits
  <2>5. QED
    BY <2>3, <2>4
<1>10. \A f \in FullKeys : StoreFits(f)'
  BY <1>2 DEF IndInv, StoreFits
<1>11. ASSUME NEW u \in Tenants PROVE KeysLimited(u)'
  <2>1. KeysLimited(u) /\ LiveKeys(u)' = LiveKeys(u)
    BY <1>2, Limits DEF IndInv, LiveKeys
  <2>2. Inserting(u)' \subseteq Inserting(u)
    BY <1>1, IdleTypes DEF Inserting, At
  <2>3. QED
    BY <2>1, <2>2, KeysStayLimited
<1>12. TenantsLimited'
  <2>1. TenantsLimited /\ Active' = Active
    BY <1>2, Limits DEF IndInv, Active
  <2>2. Creating' \subseteq Creating
    BY <1>1, IdleTypes DEF Creating, At
  <2>3. QED
    BY <2>1, <2>2, TenantsStayLimited
<1>13. QED
  BY <1>3, <1>6, <1>8, <1>9, <1>10, <1>11, <1>12, Limits DEF IndInv

LEMMA EvictKeyOK ==
  ASSUME IndInv, NEW q \in Reqs, EvictKey(q)
  PROVE  IndInv'
<1>1. PICK Out \in SUBSET Keys : Out = Keys \cap {req[q].target}
  OBVIOUS
<1>2. InFlight \subseteq Keys
  BY DEF InFlight, At, IndInv, ReqFits, Fits, Keyed, Entering
<1>3. /\ req \in [Reqs -> Req] /\ req' = [req EXCEPT ![q] = IdleReq]
      /\ cache \in Caches /\ req[q].pc = "evict" /\ UNCHANGED key
  BY Types DEF IndInv, EvictKey, Reply, At
<1>4. Evicts(q, Out)
  <2>1. raced' = raced \cup (InFlight \cap Out)
    BY <1>1, <1>2 DEF EvictKey
  <2>2. /\ cache' \in Caches
        /\ \A k \in Keys : cache'[k] = cache[k] \/ cache'[k] = None
        /\ \A k \in Out : cache'[k] = None
    BY <1>1, <1>3 DEF EvictKey, InvalidateKey, Caches
  <2>3. QED
    BY <2>1, <2>2 DEF EvictKey, Evicts
<1>5. ASSUME NEW k \in Keys \ Out, EvictionToCome(k) PROVE EvictionToCome(k)'
  <2>1. PICK p \in Reqs : \/ At(p, "evict") /\ req[p].target = k
                          \/ At(p, "evictAll") /\ req[p].tenant = key[k].tenant
    BY <1>5 DEF EvictionToCome
  <2>2. p # q
    BY <1>1, <1>3, <2>1 DEF At
  <2>3. req'[p] = req[p]
    BY <1>3, <2>2
  <2>4. QED
    BY <1>3, <2>1, <2>3 DEF EvictionToCome, At
<1>6. QED
  BY <1>4, <1>5, EvictOK

LEMMA EvictTenantOK ==
  ASSUME IndInv, NEW q \in Reqs, EvictTenant(q)
  PROVE  IndInv'
<1>1. PICK t : t = req[q].tenant
  OBVIOUS
<1>2. PICK Out \in SUBSET Keys : Out = {k \in Keys : key[k].tenant = t}
  OBVIOUS
<1>3. InFlight \subseteq Keys
  BY DEF InFlight, At, IndInv, ReqFits, Fits, Keyed, Entering
<1>4. /\ req \in [Reqs -> Req] /\ req' = [req EXCEPT ![q] = IdleReq]
      /\ cache \in Caches /\ req[q].pc = "evictAll" /\ UNCHANGED key
  BY Types DEF IndInv, EvictTenant, Reply, At
<1>5. Evicts(q, Out)
  <2>1. raced' = raced \cup (InFlight \cap Out)
    BY <1>1, <1>2, <1>3 DEF EvictTenant
  <2>2. cache' \in Caches /\ \A k \in Keys : cache'[k] = cache[k] \/ cache'[k] = None
    BY <1>4 DEF EvictTenant, InvalidateTenant, Caches
  <2>3. \A k \in Out : cache'[k] = None
    BY <1>1, <1>2 DEF EvictTenant, InvalidateTenant, IndInv, CacheFits
  <2>4. QED
    BY <2>1, <2>2, <2>3 DEF EvictTenant, Evicts
<1>6. ASSUME NEW k \in Keys \ Out, EvictionToCome(k) PROVE EvictionToCome(k)'
  <2>1. PICK p \in Reqs : \/ At(p, "evict") /\ req[p].target = k
                          \/ At(p, "evictAll") /\ req[p].tenant = key[k].tenant
    BY <1>6 DEF EvictionToCome
  <2>2. p # q
    BY <1>1, <1>2, <1>4, <2>1 DEF At
  <2>3. req'[p] = req[p]
    BY <1>4, <2>2
  <2>4. QED
    BY <1>4, <2>1, <2>3 DEF EvictionToCome, At
<1>7. QED
  BY <1>5, <1>6, EvictOK

----------------------------------------------------------------------------
(* The idempotency store, the sweepers and the environment *)

\* Nothing happens to the tables; the requests at most stop owing answers.
Rests ==
  /\ UNCHANGED <<tenant, key, raced>> /\ req' \in [Reqs -> Req]
  /\ \A k \in Keys : cache'[k] = cache[k] \/ cache'[k] = None
  /\ \A p \in Reqs : req'[p] = req[p] \/ req'[p] = IdleReq
                       \/ req'[p] = [req[p] EXCEPT !.due = None]
  /\ \A p \in Reqs : Evicting(p) => req'[p] # IdleReq

LEMMA RestOK ==
  ASSUME IndInv, TypeOK', Rests, \A p \in Reqs : DueFits(p)', \A f \in FullKeys : StoreFits(f)'
  PROVE  IndInv'
<1>1. UNCHANGED <<tenant, key, raced>>
  BY DEF Rests
<1>2. Grow
  BY <1>1 DEF Grow
<1>3. ASSUME NEW p \in Reqs PROVE ReqFits(p)'
  <2>1. CASE req'[p] = IdleReq
    BY <2>1, IdleFitsNext DEF ReqFits, Fits
  <2>2. CASE req'[p] # IdleReq
    BY <1>2, <2>2, OthersFit DEF Rests
  <2>3. QED
    BY <2>1, <2>2
<1>4. ASSUME NEW p \in Reqs, req'[p] # IdleReq
      PROVE  /\ req'[p].pc = req[p].pc /\ req'[p].key = req[p].key
             /\ req'[p].tenant = req[p].tenant /\ req'[p].target = req[p].target
             /\ req'[p].entry = req[p].entry
  <2>1. req[p] \in Req
    BY ReqTypes DEF IndInv
  <2>2. CASE req'[p] = req[p]
    BY <2>2
  <2>3. CASE req'[p] = [req[p] EXCEPT !.due = None]
    BY <2>1, <2>3 DEF Req
  <2>4. QED
    BY <1>4, <2>2, <2>3 DEF Rests
<1>5. ASSUME NEW k, Excused(k) PROVE Excused(k)'
  <2>1. Valid(k) => Excused(k)'
    BY <1>1 DEF Valid, Excused
  <2>2. \A p \in Reqs : Evicting(p) => /\ req'[p].pc = req[p].pc
                                       /\ req'[p].target = req[p].target
                                       /\ req'[p].tenant = req[p].tenant
    BY <1>4 DEF Rests
  <2>3. QED
    BY <1>1, <1>5, <2>1, <2>2, ExcusedStays
<1>6. ASSUME NEW p \in Reqs PROVE FillFits(p)'
  <2>1. CASE req'[p] = IdleReq
    BY <2>1, IdleTypes DEF FillFits, Fills
  <2>2. CASE req'[p] # IdleReq
    <3>1. Fills(req[p])
      BY DEF IndInv, FillFits
    <3>2. QED
      BY <1>4, <1>5, <2>2, <3>1 DEF FillFits, Fills
  <2>3. QED
    BY <2>1, <2>2
<1>7. ASSUME NEW k \in Keys PROVE KeyFits(k)' /\ CacheFits(k)' /\ StaleFits(k)'
  <2>1. KeyFits(k) /\ CacheFits(k) /\ StaleFits(k)
    BY DEF IndInv
  <2>2. KeyFits(k)'
    BY <1>1, <2>1 DEF KeyFits
  <2>3. CASE cache'[k] = None
    BY <2>2, <2>3 DEF CacheFits, StaleFits
  <2>4. CASE cache'[k] = cache[k]
    BY <1>1, <1>5, <2>1, <2>2, <2>4 DEF CacheFits, StaleFits
  <2>5. QED
    BY <2>3, <2>4 DEF Rests
<1>8. ASSUME NEW u \in Tenants PROVE KeysLimited(u)'
  <2>1. KeysLimited(u) /\ LiveKeys(u)' = LiveKeys(u)
    BY <1>1, Limits DEF IndInv, LiveKeys
  <2>2. Inserting(u)' \subseteq Inserting(u)
    BY <1>4, IdleTypes DEF Inserting, At
  <2>3. QED
    BY <2>1, <2>2, KeysStayLimited
<1>9. TenantsLimited'
  <2>1. TenantsLimited /\ Active' = Active
    BY <1>1, Limits DEF IndInv, Active
  <2>2. Creating' \subseteq Creating
    BY <1>4, IdleTypes DEF Creating, At
  <2>3. QED
    BY <2>1, <2>2, TenantsStayLimited
<1>10. QED
  BY <1>3, <1>6, <1>7, <1>8, <1>9, Limits DEF IndInv

LEMMA StoreTypes ==
  ASSUME IndInv
  PROVE  \A f \in FullKeys : store[f] # None => store[f].at \in Nat /\ store[f].at <= now
<1>1. store \in Stores
  BY Types DEF IndInv
<1>2. QED
  BY <1>1 DEF Stores, IdemEntry, IndInv, StoreFits

\* The sweepers and the clock do not touch the requests.
LEMMA AmbientOK ==
  ASSUME IndInv, TypeOK', UNCHANGED <<tenant, key, req, raced>>, StoreKeeps,
         \A k \in Keys : cache'[k] = cache[k] \/ cache'[k] = None,
         \A f \in FullKeys : store'[f] = store[f] \/ store'[f] = None
  PROVE  IndInv'
<1>1. Rests
  BY IdleTypes, Types DEF Rests, Evicting, At, IndInv
<1>2. ASSUME NEW p \in Reqs PROVE DueFits(p)'
  <2>1. Grow
    BY DEF Grow
  <2>2. QED
    BY <2>1, OthersDue, TypesNext
<1>3. ASSUME NEW f \in FullKeys PROVE StoreFits(f)'
  <2>1. now \in Nat /\ now' \in Nat /\ now' >= now
    BY Types, TypesNext DEF IndInv, StoreKeeps
  <2>2. QED
    BY <2>1, StoreTypes DEF StoreFits
<1>4. QED
  BY <1>1, <1>2, <1>3, RestOK

LEMMA SweepsOK ==
  ASSUME IndInv, SweepCache \/ SweepStore \/ SweepRegistrations \/ Tick
  PROVE  IndInv'
<1>1. /\ now \in Nat /\ cache \in Caches /\ store \in Stores /\ reg \in Limiter
      /\ IdemTTL \in Nat
  BY Types, Constants DEF IndInv
<1>2. UNCHANGED <<tenant, key, req, raced>> /\ UNCHANGED <<ops, restarts, allowed>>
  BY DEF SweepCache, SweepStore, SweepRegistrations, Tick, bounds, histories
<1>3. CASE SweepCache
  <2>1. /\ cache' \in Caches /\ \A k \in Keys : cache'[k] = cache[k] \/ cache'[k] = None
        /\ UNCHANGED <<now, store, reg>>
    BY <1>1, <1>3 DEF SweepCache, Caches
  <2>2. StoreKeeps
    BY <1>1, <2>1, StoreTypes DEF StoreKeeps
  <2>3. TypeOK'
    BY <1>2, <2>1, Types, TypesNext DEF IndInv
  <2>4. QED
    BY <1>2, <2>1, <2>2, <2>3, AmbientOK
<1>4. CASE SweepStore
  <2>1. PICK dead : /\ dead = {f \in Present(store) : now > store[f].at + IdemTTL}
                    /\ store' = [f \in FullKeys |-> IF f \in dead THEN None ELSE store[f]]
    BY <1>4 DEF SweepStore
  <2>2. /\ store' \in Stores /\ \A f \in FullKeys : store'[f] = store[f] \/ store'[f] = None
    BY <1>1, <2>1 DEF Stores
  <2>3. UNCHANGED <<now, cache, reg>>
    BY <1>4 DEF SweepStore
  <2>4. StoreKeeps
    BY <1>1, <2>1, <2>3, StoreTypes DEF StoreKeeps
  <2>5. TypeOK'
    BY <1>2, <2>2, <2>3, Types, TypesNext DEF IndInv
  <2>6. QED
    BY <1>2, <2>2, <2>3, <2>4, <2>5, AmbientOK
<1>5. CASE SweepRegistrations
  <2>1. PICK dead : reg' = [reg EXCEPT !.entries =
                              [ip \in IPs |-> IF ip \in dead THEN None ELSE @[ip]]]
    BY <1>5 DEF SweepRegistrations
  <2>2. reg.entries \in [IPs -> RegEntry \cup {None}]
    BY <1>1 DEF Limiter
  <2>3. PICK es \in [IPs -> RegEntry \cup {None}] :
          es = [ip \in IPs |-> IF ip \in dead THEN None ELSE reg.entries[ip]]
    BY <2>2
  <2>4. reg' \in Limiter
    BY <1>1, <2>1, <2>3 DEF Limiter
  <2>5. UNCHANGED <<now, cache, store>>
    BY <1>5 DEF SweepRegistrations
  <2>6. StoreKeeps
    BY <1>1, <2>5, StoreTypes DEF StoreKeeps
  <2>7. TypeOK'
    BY <1>2, <2>4, <2>5, Types, TypesNext DEF IndInv
  <2>8. QED
    BY <1>2, <2>5, <2>6, <2>7, AmbientOK
<1>6. CASE Tick
  <2>1. now' = now + 1 /\ UNCHANGED <<cache, store, reg>>
    BY <1>6 DEF Tick
  <2>2. StoreKeeps
    BY <1>1, <2>1, StoreTypes DEF StoreKeeps
  <2>3. TypeOK'
    BY <1>1, <1>2, <2>1, Types, TypesNext DEF IndInv
  <2>4. QED
    BY <1>2, <2>1, <2>2, <2>3, AmbientOK
<1>7. QED
  BY <1>3, <1>4, <1>5, <1>6

\* The store after a response has been kept: what it holds is what it held, or the
\* new response, or nothing.
LEMMA StoredIs ==
  ASSUME IndInv, NEW f \in FullKeys, NEW b \in Bodies, StoreResponse(f, b)
  PROVE  /\ store' \in Stores
         /\ \A g \in FullKeys : \/ store'[g] = store[g] \/ store'[g] = None
                                \/ store'[g].at = now
<1>1. store \in [FullKeys -> IdemEntry \cup {None}] /\ now \in Nat
  BY Types DEF IndInv, Stores
<1>2. CASE UNCHANGED store
  BY <1>1, <1>2 DEF Stores
<1>3. CASE store' \in {[m EXCEPT ![f] = [body |-> b, at |-> now]] : m \in Trimmed(store, IdemMax)}
  <2>1. PICK m \in Trimmed(store, IdemMax) : store' = [m EXCEPT ![f] = [body |-> b, at |-> now]]
    BY <1>3
  <2>2. m \in [FullKeys -> IdemEntry \cup {None}] /\ \A x \in FullKeys : m[x] = store[x] \/ m[x] = None
    BY <1>1, TrimmedIs
  <2>3. PICK e \in IdemEntry : e = [body |-> b, at |-> now] /\ e.at = now
    <3>1. [body |-> b, at |-> now] \in IdemEntry
      BY <1>1 DEF IdemEntry
    <3>2. QED
      BY <3>1
  <2>4. QED
    BY <2>1, <2>2, <2>3 DEF Stores
<1>4. QED
  BY <1>2, <1>3 DEF StoreResponse

LEMMA SaveResponseOK ==
  ASSUME IndInv, NEW q \in Reqs, SaveResponse(q)
  PROVE  IndInv'
<1>1. /\ req[q].pc = "save" /\ Fits(req[q]) /\ now \in Nat /\ IdemTTL \in Nat /\ store \in Stores
      /\ UNCHANGED <<now, tenant, key, cache, reg>> /\ UNCHANGED <<ops, restarts, raced, allowed>>
  BY Types, Constants DEF SaveResponse, At, IndInv, ReqFits, bounds, histories
<1>2. Full(q) \in FullKeys /\ req[q].body \in Bodies
  BY <1>1 DEF Fits, Admitted, Keyed, IndInv, KeyFits, Full, FullKeys
<1>3. /\ store' \in Stores
      /\ \A g \in FullKeys : \/ store'[g] = store[g] \/ store'[g] = None
                             \/ store'[g].at = now
  BY <1>2, StoredIs DEF SaveResponse
<1>4. ASSUME NEW p \in Reqs
      PROVE  /\ req'[p] \in Req
             /\ req'[p] = req[p] \/ req'[p] = IdleReq \/ req'[p] = [req[p] EXCEPT !.due = None]
             /\ p # q => req'[p].pc = req[p].pc
             /\ p # q /\ req[p].mark # None =>
                  \/ store'[<<key[req[p].key].tenant, req[p].mark>>] # None /\ req'[p] = req[p]
                  \/ req'[p].due = None
             /\ req'[p].due # None => req'[p] = req[p] /\ p # q
  <2>1. req[p] \in Req
    BY ReqTypes DEF IndInv
  <2> DEFINE r == [req[p] EXCEPT !.due = None]
  <2>2. r \in Req /\ r.due = None /\ r.pc = req[p].pc
    BY <2>1 DEF Req
  <2>3. req'[p] = IF p = q THEN IdleReq
                  ELSE IF /\ req[p].mark # None
                          /\ store'[<<key[req[p].key].tenant, req[p].mark>>] = None
                    THEN r ELSE req[p]
    BY DEF SaveResponse
  <2> HIDE DEF r
  <2>4. QED
    <3>1. CASE p = q
      BY <2>3, <3>1, IdleTypes
    <3>2. CASE p # q
      BY <2>1, <2>2, <2>3, <3>2 DEF r
    <3>3. QED
      BY <3>1, <3>2
<1>5. req' \in [Reqs -> Req]
  BY <1>4 DEF SaveResponse
<1>6. Rests
  <2>1. \A p \in Reqs : Evicting(p) => p # q /\ req[p].pc # "idle"
    BY <1>1 DEF Evicting, At
  <2>2. ASSUME NEW p \in Reqs, Evicting(p) PROVE req'[p] # IdleReq
    <3>1. req'[p].pc = req[p].pc /\ req[p].pc # "idle"
      BY <1>4, <2>1, <2>2
    <3>2. QED
      BY <3>1, IdleTypes
  <2>3. QED
    BY <1>1, <1>4, <1>5, <2>2 DEF Rests
<1>7. TypeOK'
  BY <1>1, <1>3, <1>5, Types, TypesNext DEF IndInv
<1>8. ASSUME NEW f \in FullKeys PROVE StoreFits(f)'
  BY <1>1, <1>3, StoreTypes DEF StoreFits
<1>9. ASSUME NEW p \in Reqs PROVE DueFits(p)'
  <2>1. CASE req'[p].due = None
    BY <2>1 DEF DueFits, Owed
  <2>2. CASE req'[p].due # None
    <3>1. req'[p] = req[p] /\ p # q /\ Owed(req[p]) /\ Fits(req[p]) /\ req[p].due \in Nat
      BY <1>4, <2>2, ReqTypes DEF IndInv, DueFits, ReqFits
    <3>2. /\ req[p].mark \in Marks /\ req[p].key \in Keys /\ key[req[p].key].st # "absent"
      BY <2>2, <3>1 DEF Fits
    <3>3. PICK f \in FullKeys : f = <<key[req[p].key].tenant, req[p].mark>>
      BY <3>2 DEF IndInv, KeyFits, FullKeys
    <3>4. store'[f] # None
      BY <1>4, <2>2, <3>1, <3>2, <3>3, Constants
    <3>5. store[f] # None => store'[f].at >= store[f].at /\ store'[f].at \in Nat
                               /\ store[f].at \in Nat
      BY <1>1, <1>3, <3>4, StoreTypes
    <3>6. CASE req[p].pc \in {"auth", "fill", "idem"}
      <4>1. now >= req[p].due \/ (store[f] # None /\ req[p].due <= store[f].at + IdemTTL)
        BY <2>2, <3>1, <3>3, <3>6 DEF Owed
      <4>2. now >= req[p].due \/ (store'[f] # None /\ req[p].due <= store'[f].at + IdemTTL)
        BY <1>1, <3>1, <3>4, <3>5, <4>1
      <4>3. QED
        BY <1>1, <3>1, <3>3, <3>6, <4>2 DEF DueFits, Owed
    <3>7. CASE req[p].pc \notin {"auth", "fill", "idem"}
      BY <1>1, <3>1, <3>7 DEF DueFits, Owed
    <3>8. QED
      BY <3>6, <3>7
  <2>3. QED
    BY <2>1, <2>2
<1>10. QED
  BY <1>6, <1>7, <1>8, <1>9, RestOK

\* Nothing cached and nobody at work: what a start leaves.
Empty ==
  /\ cache = [k \in Keys |-> None] /\ store = [f \in FullKeys |-> None] /\ reg = NoReg
  /\ req = [q \in Reqs |-> IdleReq] /\ raced = {}

LEMMA EmptyFits ==
  ASSUME Empty
  PROVE  /\ cache \in Caches /\ store \in Stores /\ reg \in Limiter /\ req \in [Reqs -> Req]
         /\ raced \subseteq Keys
         /\ \A k \in Keys : CacheFits(k) /\ StaleFits(k)
         /\ \A q \in Reqs : ReqFits(q) /\ DueFits(q) /\ FillFits(q)
         /\ \A f \in FullKeys : StoreFits(f)
         /\ \A t : Inserting(t) = {}
         /\ Creating = {}
<1>1. cache \in Caches /\ store \in Stores
  BY DEF Empty, Caches, Stores
<1>2. reg \in Limiter
  BY DEF Empty, NoReg, Limiter
<1>3. req \in [Reqs -> Req] /\ raced \subseteq Keys
  BY IdleTypes DEF Empty
<1>4. \A k \in Keys : CacheFits(k) /\ StaleFits(k)
  BY DEF Empty, CacheFits, StaleFits
<1>5. \A q \in Reqs : ReqFits(q) /\ DueFits(q) /\ FillFits(q)
  BY IdleFits DEF Empty, ReqFits, DueFits, FillFits
<1>6. \A f \in FullKeys : StoreFits(f)
  BY DEF Empty, StoreFits
<1>7. (\A t : Inserting(t) = {}) /\ Creating = {}
  BY IdleTypes DEF Empty, Inserting, Creating, At
<1>8. QED
  BY <1>1, <1>2, <1>3, <1>4, <1>5, <1>6, <1>7

LEMMA EmptyFitsNext ==
  ASSUME Empty'
  PROVE  /\ cache' \in Caches /\ store' \in Stores /\ reg' \in Limiter /\ req' \in [Reqs -> Req]
         /\ raced' \subseteq Keys
         /\ \A k \in Keys : CacheFits(k)' /\ StaleFits(k)'
         /\ \A q \in Reqs : ReqFits(q)' /\ DueFits(q)' /\ FillFits(q)'
         /\ \A f \in FullKeys : StoreFits(f)'
         /\ \A t : Inserting(t)' = {}
         /\ Creating' = {}
<1>1. cache' \in Caches /\ store' \in Stores
  BY DEF Empty, Caches, Stores
<1>2. reg' \in Limiter
  BY DEF Empty, NoReg, Limiter
<1>3. req' \in [Reqs -> Req] /\ raced' \subseteq Keys
  BY IdleTypes DEF Empty
<1>4. \A k \in Keys : CacheFits(k)' /\ StaleFits(k)'
  BY DEF Empty, CacheFits, StaleFits
<1>5. \A q \in Reqs : ReqFits(q)' /\ DueFits(q)' /\ FillFits(q)'
  BY IdleFitsNext, IdleTypes DEF Empty, ReqFits, Fits, DueFits, Owed, FillFits, Fills
<1>6. \A f \in FullKeys : StoreFits(f)'
  BY DEF Empty, StoreFits
<1>7. (\A t : Inserting(t)' = {}) /\ Creating' = {}
  BY IdleTypes DEF Empty, Inserting, Creating, At
<1>8. QED
  BY <1>1, <1>2, <1>3, <1>4, <1>5, <1>6, <1>7

LEMMA ProcessRestartsOK ==
  ASSUME IndInv, ProcessRestarts
  PROVE  IndInv'
<1>1. /\ Empty' /\ UNCHANGED <<now, tenant, key, ops, allowed>>
      /\ restarts' = restarts - 1 /\ restarts > 0
  BY DEF ProcessRestarts, Empty
<1>2. TypeOK'
  BY <1>1, EmptyFitsNext, Types, TypesNext DEF IndInv
<1>3. \A k \in Keys : KeyFits(k)'
  BY <1>1 DEF IndInv, KeyFits
<1>4. ASSUME NEW u \in Tenants PROVE KeysLimited(u)'
  <2>1. KeysLimited(u) /\ LiveKeys(u)' = LiveKeys(u)
    BY <1>1, Limits DEF IndInv, LiveKeys
  <2>2. Inserting(u)' \subseteq Inserting(u)
    BY <1>1, EmptyFitsNext
  <2>3. QED
    BY <2>1, <2>2, KeysStayLimited
<1>5. TenantsLimited'
  <2>1. TenantsLimited /\ Active' = Active
    BY <1>1, Limits DEF IndInv, Active
  <2>2. Creating' \subseteq Creating
    BY <1>1, EmptyFitsNext
  <2>3. QED
    BY <2>1, <2>2, TenantsStayLimited
<1>6. QED
  BY <1>1, <1>2, <1>3, <1>4, <1>5, EmptyFitsNext, Limits DEF IndInv

----------------------------------------------------------------------------
(* The theorems *)

LEMMA InitOK ==
  ASSUME Init
  PROVE  IndInv
<1>1. Empty /\ now = 0 /\ restarts = MaxRestarts /\ ops \in Mixes /\ allowed = <<>>
  BY DEF Init, Empty
<1>2. PICK own \in [Tenants -> Keys \cup {None}] :
        /\ \A t, u \in Tenants : own[t] = own[u] => t = u \/ own[t] = None
        /\ Cardinality({t \in Tenants : own[t] # None}) <= MaxTenants
        /\ tenant = [t \in Tenants |-> IF own[t] = None THEN "absent" ELSE "active"]
        /\ key = [k \in Keys |-> IF \E t \in Tenants : own[t] = k
                    THEN [st |-> "live", tenant |-> CHOOSE t \in Tenants : own[t] = k,
                          exp |-> None]
                    ELSE NoKey]
  BY DEF Init
<1>3. tenant \in Statuses
  BY <1>2 DEF Statuses
<1>4. ASSUME NEW k \in Keys
      PROVE  /\ key[k] \in Key
             /\ key[k].st # "absent" => /\ key[k].tenant \in Tenants
                                        /\ own[key[k].tenant] = k
  <2>1. CASE \E t \in Tenants : own[t] = k
    <3>1. PICK t \in Tenants : t = (CHOOSE u \in Tenants : own[u] = k) /\ own[t] = k
      BY <2>1
    <3>2. key[k] = [st |-> "live", tenant |-> t, exp |-> None]
      BY <1>2, <2>1, <3>1
    <3>3. [st |-> "live", tenant |-> t, exp |-> None] \in Key
      BY DEF Key
    <3>4. QED
      BY <3>1, <3>2, <3>3
  <2>2. CASE ~\E t \in Tenants : own[t] = k
    <3>1. key[k] = NoKey
      BY <1>2, <2>2
    <3>2. NoKey \in Key /\ NoKey.st = "absent"
      BY DEF Key, NoKey
    <3>3. QED
      BY <3>1, <3>2
  <2>3. QED
    BY <2>1, <2>2
<1>5. key \in Rows
  BY <1>2, <1>4 DEF Rows
<1>6. TypeOK
  BY <1>1, <1>3, <1>5, EmptyFits, Types, Constants
<1>7. ASSUME NEW k \in Keys PROVE KeyFits(k)
  <2>1. \A t \in Tenants : own[t] = k => tenant[t] = "active"
    BY <1>2, Constants
  <2>2. QED
    BY <1>4, <2>1 DEF KeyFits
<1>8. ASSUME NEW t \in Tenants PROVE KeysLimited(t)
  <2>1. LiveKeys(t) \subseteq {own[t]}
    BY <1>4 DEF LiveKeys
  <2>2. IsFiniteSet({own[t]}) /\ Cardinality({own[t]}) = 1
    BY FS_Singleton
  <2>3. Cardinality(LiveKeys(t)) <= 1 /\ Cardinality(LiveKeys(t)) \in Nat
    BY <2>1, <2>2, Finite, FS_Subset, FS_CardinalityType
  <2>4. Cardinality(Inserting(t)) = 0
    <3>1. Inserting(t) = {}
      BY <1>1, EmptyFits
    <3>2. QED
      BY <3>1, FS_EmptySet
  <2>5. QED
    BY <2>3, <2>4, SomeReq, Constants DEF KeysLimited
<1>9. TenantsLimited
  <2>1. Active = {t \in Tenants : own[t] # None}
    BY <1>2 DEF Active
  <2>2. Cardinality(Active) <= MaxTenants /\ Cardinality(Active) \in Nat
    BY <1>2, <2>1, Finite, FS_CardinalityType
  <2>3. Cardinality(Creating) = 0
    BY <1>1, EmptyFits, FS_EmptySet
  <2>4. QED
    BY <2>2, <2>3, SomeReq, Constants DEF TenantsLimited
<1>10. QED
  BY <1>1, <1>6, <1>7, <1>8, <1>9, EmptyFits, Limits DEF IndInv

LEMMA StutterOK ==
  ASSUME IndInv, UNCHANGED vars
  PROVE  IndInv'
<1>1. UNCHANGED <<tenant, key, req, raced>> /\ UNCHANGED <<now, cache, store, reg>>
      /\ UNCHANGED <<ops, restarts, allowed>>
  BY DEF vars, apiVars
<1>2. TypeOK'
  BY <1>1, Types, TypesNext DEF IndInv
<1>3. StoreKeeps
  <2>1. now \in Nat
    BY Types DEF IndInv
  <2>2. QED
    BY <1>1, <2>1, StoreTypes DEF StoreKeeps
<1>4. QED
  BY <1>1, <1>2, <1>3, AmbientOK

LEMMA StepOK ==
  ASSUME IndInv, [Next]_vars
  PROVE  IndInv'
<1>1. CASE \E q \in Reqs, ip \in IPs : SendRegister(q, ip)
  BY <1>1, SendRegisterOK
<1>2. CASE \E q \in Reqs, op \in ops \ {"Register", "Post"}, k \in Keys, x \in Keys \cup {None} :
             SendKeyed(q, op, k, x)
  BY <1>2, SendKeyedOK
<1>3. CASE \E q \in Reqs, k \in Keys, m \in Marks, b \in Bodies : SendPost(q, k, m, b)
  BY <1>3, SendPostOK
<1>4. CASE \E q \in Reqs : ReqStep(q)
  <2>1. PICK q \in Reqs : ReqStep(q)
    BY <1>4
  <2>2. CASE UseCached(q) \/ LookUpKey(q) \/ FillCache(q) \/ LookUpMark(q) \/ Handle(q)
    BY <2>2, UseCachedOK, LookUpKeyOK, FillCacheOK, LookUpMarkOK, HandleOK
  <2>3. CASE SaveResponse(q) \/ CountKeys(q) \/ CreateKey(q) \/ RevokeKey(q) \/ EvictKey(q)
    BY <2>3, SaveResponseOK, CountKeysOK, CreateKeyOK, RevokeKeyOK, EvictKeyOK
  <2>4. CASE \/ DeleteTenant(q) \/ EvictTenant(q) \/ AllowRegistration(q)
             \/ CountTenants(q) \/ RegisterTenant(q)
    BY <2>4, DeleteTenantOK, EvictTenantOK, AllowRegistrationOK, CountTenantsOK,
       RegisterTenantOK
  <2>5. QED
    BY <2>1, <2>2, <2>3, <2>4 DEF ReqStep
<1>5. CASE SweepCache \/ SweepStore \/ SweepRegistrations \/ Tick
  BY <1>5, SweepsOK
<1>6. CASE ProcessRestarts
  BY <1>6, ProcessRestartsOK
<1>7. CASE UNCHANGED vars
  BY <1>7, StutterOK
<1>8. QED
  BY <1>1, <1>2, <1>3, <1>4, <1>5, <1>6, <1>7 DEF Next

\* The invariant the results of this module rest on holds of every behaviour of
\* the middleware and the tenant and key handlers.
THEOREM ApiInvariant == Spec => []IndInv
<1>1. Init => IndInv
  BY InitOK
<1>2. IndInv /\ [Next]_vars => IndInv'
  BY StepOK
<1>3. QED
  BY <1>1, <1>2, PTL DEF Spec

\* The tables, the caches and the requests in flight keep their types: in
\* particular no row, cache entry or request is given a tenant that does not exist.
THEOREM ApiTypeCorrect == Spec => []TypeOK
<1>1. IndInv => TypeOK
  BY DEF IndInv
<1>2. QED
  BY <1>1, ApiInvariant, PTL

\* However requests interleave, the auth cache names a revoked key or a suspended
\* tenant as active only while its eviction is to come or after the race between a
\* look-up and that eviction.
THEOREM StaleEntriesRaced == Spec => []StaleEntryRaced
<1>1. IndInv => StaleEntryRaced
  BY DEF IndInv, StaleFits, Excused, StaleEntryRaced
<1>2. QED
  BY <1>1, ApiInvariant, PTL

\* A request that arrives while the answer to its mark is kept runs no handler
\* before that answer has run out or been evicted.
THEOREM AnswersNotRepeated == Spec => []AnsweredNotRepeated
<1>1. IndInv => AnsweredNotRepeated
  BY DEF IndInv, DueFits, Owed, AnsweredNotRepeated, At
<1>2. QED
  BY <1>1, ApiInvariant, PTL

\* The limits of keys and of tenants are exceeded by fewer than the requests that
\* can be in flight, for any limits, tenants, keys and number of requests.
THEOREM LimitsOvershoot == Spec => []QuotaOvershoot
<1>1. IndInv => QuotaOvershoot
  BY DEF IndInv
<1>2. QED
  BY <1>1, ApiInvariant, PTL

----------------------------------------------------------------------------
(* The registration limiter *)

Within(t, h) == {i \in DOMAIN h : t <= h[i].at /\ h[i].at <= t + RegWindow}

Lives(S, h) == {h[i].life : i \in S}

\* The attempts S of the history h fit one limit and one more per process.
Fit(S, h) == Cardinality(S) <= (1 + Cardinality(Lives(S, h))) * RegGlobal

\* What the process l allowed in the window that ends at at, and in the RegWindow
\* before it.
InCurrent(at, l, h) == {i \in DOMAIN h : h[i].life = l /\ at <= h[i].at + RegWindow}
InPrevious(at, l, h) == {i \in DOMAIN h : /\ h[i].life = l /\ h[i].at + RegWindow < at
                                          /\ at <= h[i].at + RegWindow + RegWindow}

\* The count n covers the window of the process l that ends at at, and what lies
\* less than a window before it fits one limit too. Earlier processes came before
\* this window, and more than a RegWindow before it if it is not the first of its
\* process. Without this window the history fits as well.
WindowFits(at, n, l, h) ==
  /\ n <= RegGlobal
  /\ \A i \in DOMAIN h : h[i].at <= now /\ l <= h[i].life
  /\ at = None => \A i \in DOMAIN h : h[i].life # l
  /\ at # None =>
       /\ RegWindow <= at /\ at <= now + RegWindow
       /\ Cardinality(InCurrent(at, l, h)) <= n
       /\ Cardinality(InPrevious(at, l, h)) <= RegGlobal
       /\ \A i \in DOMAIN h :
            /\ h[i].at <= at
            /\ h[i].life # l =>
                 /\ h[i].at + RegWindow <= at
                 /\ \A j \in DOMAIN h \ InCurrent(at, l, h) :
                      h[j].life = l => h[i].at + RegWindow + RegWindow < at
       /\ \A t \in 0 .. MaxClock : Fit(Within(t, h) \ InCurrent(at, l, h), h)

RegInv == WindowFits(reg.at, reg.count, restarts, allowed) /\ RegistrationBurst

LEMMA BurstFits ==
  RegistrationBurst <=> \A t \in 0 .. MaxClock : Fit(Within(t, allowed), allowed)
  BY Zenon DEF RegistrationBurst, AllowedFrom, Fit, Within, Lives

LEMMA BurstFitsNext ==
  RegistrationBurst' <=> \A t \in 0 .. MaxClock : Fit(Within(t, allowed'), allowed')
  BY Zenon DEF RegistrationBurst, AllowedFrom, Fit, Within, Lives

LEMMA HistoryTypes ==
  ASSUME NEW h \in Seq(Allowed)
  PROVE  /\ Len(h) \in Nat /\ DOMAIN h = 1 .. Len(h)
         /\ \A i \in 1 .. Len(h) : h[i] \in Allowed /\ h[i].at \in Nat /\ h[i].life \in Nat
<1>1. Len(h) \in Nat /\ DOMAIN h = 1 .. Len(h)
  OBVIOUS
<1>2. \A i \in 1 .. Len(h) : h[i] \in Allowed
  OBVIOUS
<1>3. \A a \in Allowed : a.at \in Nat /\ a.life \in Nat
  BY DEF Allowed
<1>4. QED
  BY <1>1, <1>2, <1>3, Zenon

LEMMA RegTypes ==
  ASSUME TypeOK
  PROVE  /\ now \in Nat /\ restarts \in Nat /\ reg \in Limiter
         /\ reg.count \in Nat /\ reg.at \in Nat \cup {None} /\ allowed \in Seq(Allowed)
         /\ RegWindow \in Nat /\ RegGlobal \in Nat /\ RegGlobal > 0 /\ None \notin Nat
         /\ MaxClock \in Nat
<1>1. now \in Nat /\ restarts \in Nat /\ reg \in Limiter /\ allowed \in Seq(Allowed)
  BY Types
<1>2. reg.count \in Nat /\ reg.at \in Nat \cup {None}
  BY <1>1 DEF Limiter
<1>3. /\ RegWindow \in Nat /\ RegGlobal \in Nat /\ RegGlobal > 0 /\ None \notin Nat
      /\ MaxClock \in Nat
  BY ApiAssumption
<1>4. QED
  BY <1>1, <1>2, <1>3, Zenon

LEMMA RegFinite ==
  ASSUME NEW h \in Seq(Allowed), NEW S \in SUBSET DOMAIN h
  PROVE  /\ IsFiniteSet(S) /\ Cardinality(S) \in Nat
         /\ IsFiniteSet(Lives(S, h)) /\ Cardinality(Lives(S, h)) \in Nat
<1>1. Len(h) \in Nat /\ S \subseteq 1 .. Len(h)
  BY HistoryTypes
<1>2. IsFiniteSet(1 .. Len(h))
  BY <1>1, FS_Interval
<1>3. IsFiniteSet(S)
  BY <1>1, <1>2, FS_Subset
<1>4. IsFiniteSet(Lives(S, h))
  <2>1. [i \in S |-> h[i].life] \in Surjection(S, Lives(S, h))
    BY DEF Surjection, Lives
  <2>2. QED
    BY <1>3, <2>1, FS_Surjection
<1>5. QED
  BY <1>3, <1>4, FS_CardinalityType

\* One more process is one more limit.
LEMMA OneMoreLimit ==
  ASSUME NEW m \in Nat, NEW n \in Nat, m + 1 <= n, RegGlobal \in Nat
  PROVE  (1 + m) * RegGlobal + RegGlobal <= (1 + n) * RegGlobal
  OBVIOUS

LEMMA TwoLimits ==
  ASSUME NEW n \in Nat, 1 <= n, RegGlobal \in Nat
  PROVE  RegGlobal + RegGlobal <= (1 + n) * RegGlobal
  OBVIOUS

LEMMA LimitsTyped ==
  ASSUME NEW n \in Nat, RegGlobal \in Nat
  PROVE  (1 + n) * RegGlobal \in Nat
  OBVIOUS

\* Attempts fit or not whatever else the history holds.
LEMMA FitSame ==
  ASSUME NEW S, NEW h, NEW g, \A i \in S : g[i] = h[i], Fit(S, h)
  PROVE  Fit(S, g)
<1>1. Lives(S, g) = Lives(S, h)
  BY DEF Lives
<1>2. QED
  BY <1>1 DEF Fit

\* What allow(ip) does to the window for all addresses.
LEMMA AllowCounts ==
  ASSUME TypeOK, NEW ip \in IPs, NEW ok \in BOOLEAN, Allow(ip, ok),
         NEW n, n = IF Over(reg.at) THEN 0 ELSE reg.count,
         NEW at, at = IF Over(reg.at) THEN now + RegWindow ELSE reg.at
  PROVE  /\ reg'.at = at
         /\ ok => n < RegGlobal /\ reg'.count = n + 1
         /\ ~ok => reg'.count = n
<1>1. reg \in Limiter /\ n \in Nat /\ at \in Nat \cup {None} /\ RegGlobal \in Nat
  BY RegTypes
<1>2. CASE n >= RegGlobal
  <2>1. ~ok /\ reg' = [reg EXCEPT !.count = n, !.at = at]
    BY <1>2 DEF Allow
  <2>2. QED
    BY <1>1, <2>1 DEF Limiter
<1>3. CASE ~(n >= RegGlobal)
  <2>1. \E es : \/ ok /\ \E e : reg' = [count |-> n + 1, at |-> at, entries |-> e]
                \/ ~ok /\ reg' = [count |-> n, at |-> at, entries |-> es]
    BY <1>3 DEF Allow
  <2>2. QED
    BY <1>1, <1>3, <2>1
<1>4. QED
  BY <1>2, <1>3

\* A window that is over gives way to one that starts later than its end, and a
\* process starts with one after everything before it, with nothing counted.
LEMMA WindowRenewed ==
  ASSUME TypeOK, RegInv, Over(reg.at), NEW at, at = now + RegWindow
  PROVE  WindowFits(at, 0, restarts, allowed)
<1> DEFINE h == allowed
           l == restarts
<1>1. /\ now \in Nat /\ reg.count \in Nat /\ reg.at \in Nat \cup {None} /\ h \in Seq(Allowed)
      /\ RegWindow \in Nat /\ RegGlobal \in Nat /\ None \notin Nat
  BY RegTypes
<1>2. /\ Len(h) \in Nat /\ DOMAIN h = 1 .. Len(h)
      /\ \A i \in DOMAIN h : h[i].at \in Nat /\ h[i].life \in Nat
  BY <1>1, HistoryTypes
<1>3. WindowFits(reg.at, reg.count, l, h) /\ \A t \in 0 .. MaxClock : Fit(Within(t, h), h)
  BY BurstFits DEF RegInv
<1> HIDE DEF h, l
<1>4. \A i \in DOMAIN h : h[i].at <= now /\ l <= h[i].life
  BY <1>3 DEF WindowFits
<1>5. ASSUME NEW i \in DOMAIN h, h[i].life = l
      PROVE  reg.at # None /\ h[i].at < now /\ h[i].at <= reg.at
  <2>1. reg.at # None
    BY <1>3, <1>5 DEF WindowFits
  <2>2. h[i].at <= reg.at
    BY <1>3, <2>1 DEF WindowFits
  <2>3. reg.at < now
    BY <1>1, <2>1 DEF Over
  <2>4. QED
    BY <1>1, <1>2, <2>1, <2>2, <2>3
<1>6. InCurrent(at, l, h) = {}
  BY <1>1, <1>2, <1>5 DEF InCurrent
<1>7. Cardinality(InCurrent(at, l, h)) <= 0
  BY <1>6, FS_EmptySet
<1>8. Cardinality(InPrevious(at, l, h)) <= RegGlobal
  <2>1. CASE reg.at = None
    <3>1. InPrevious(at, l, h) = {}
      BY <1>5, <2>1 DEF InPrevious
    <3>2. Cardinality(InPrevious(at, l, h)) = 0
      BY <3>1, FS_EmptySet
    <3>3. QED
      BY <1>1, <3>2
  <2>2. CASE reg.at # None
    <3>1. reg.at < now /\ reg.at \in Nat
      BY <1>1, <2>2 DEF Over
    <3>2. InPrevious(at, l, h) \subseteq InCurrent(reg.at, l, h)
      BY <1>1, <1>2, <3>1 DEF InPrevious, InCurrent
    <3>3. /\ InCurrent(reg.at, l, h) \in SUBSET DOMAIN h
          /\ InPrevious(at, l, h) \in SUBSET DOMAIN h
      BY DEF InCurrent, InPrevious
    <3>4. /\ IsFiniteSet(InCurrent(reg.at, l, h)) /\ Cardinality(InCurrent(reg.at, l, h)) \in Nat
          /\ Cardinality(InPrevious(at, l, h)) \in Nat
      BY <1>1, <3>3, RegFinite
    <3>5. Cardinality(InPrevious(at, l, h)) <= Cardinality(InCurrent(reg.at, l, h))
      BY <3>2, <3>4, FS_Subset
    <3>6. Cardinality(InCurrent(reg.at, l, h)) <= reg.count /\ reg.count <= RegGlobal
      BY <1>3, <2>2 DEF WindowFits
    <3>7. QED
      BY <1>1, <3>4, <3>5, <3>6
  <2>3. QED
    BY <2>1, <2>2
<1>9. ASSUME NEW i \in DOMAIN h
      PROVE  /\ h[i].at <= at
             /\ h[i].life # l =>
                  /\ h[i].at + RegWindow <= at
                  /\ \A j \in DOMAIN h \ InCurrent(at, l, h) :
                       h[j].life = l => h[i].at + RegWindow + RegWindow < at
  <2>1. h[i].at \in Nat /\ h[i].at <= now
    BY <1>2, <1>4
  <2>2. ASSUME NEW j \in DOMAIN h, h[j].life = l, h[i].life # l
        PROVE  h[i].at + RegWindow + RegWindow < at
    <3>1. reg.at # None
      BY <1>5, <2>2
    <3>2. reg.at < now /\ reg.at \in Nat
      BY <1>1, <3>1 DEF Over
    <3>3. h[i].at + RegWindow <= reg.at
      BY <1>3, <2>2, <3>1 DEF WindowFits
    <3>4. QED
      BY <1>1, <2>1, <3>2, <3>3
  <2>3. h[i].at <= at /\ h[i].at + RegWindow <= at
    BY <1>1, <2>1
  <2>4. QED
    BY <2>2, <2>3
<1>10. \A t \in 0 .. MaxClock : Fit(Within(t, h) \ InCurrent(at, l, h), h)
  <2>1. \A t : Within(t, h) \ InCurrent(at, l, h) = Within(t, h)
    BY <1>6
  <2>2. QED
    BY <1>3, <2>1
<1>11. RegWindow <= at /\ at <= now + RegWindow /\ at # None /\ 0 <= RegGlobal
  BY <1>1
<1>12. WindowFits(at, 0, l, h)
  BY <1>4, <1>7, <1>8, <1>9, <1>10, <1>11 DEF WindowFits
<1>13. QED
  BY <1>12 DEF h, l

LEMMA UnionBounded ==
  ASSUME NEW C, NEW D, NEW W, IsFiniteSet(C), IsFiniteSet(D), W \subseteq C \cup D,
         NEW n \in Nat, Cardinality(C) <= n
  PROVE  Cardinality(W) <= n + Cardinality(D)
<1>1. IsFiniteSet(C \cap D) /\ IsFiniteSet(C \cup D) /\ IsFiniteSet(W)
  BY FS_Subset, FS_Union
<1>2. /\ Cardinality(C) \in Nat /\ Cardinality(D) \in Nat /\ Cardinality(W) \in Nat
      /\ Cardinality(C \cap D) \in Nat
  BY <1>1, FS_CardinalityType
<1>3. Cardinality(C \cup D) = Cardinality(C) + Cardinality(D) - Cardinality(C \cap D)
  BY FS_Union
<1>4. Cardinality(W) <= Cardinality(C \cup D)
  BY <1>1, FS_Subset
<1>5. QED
  BY <1>2, <1>3, <1>4

LEMMA TwoWindows ==
  ASSUME NEW a \in Nat, NEW b \in Nat, NEW c \in Nat, NEW d \in Nat, NEW w \in Nat,
         a <= b + w, b <= c + w, c <= d
  PROVE  a <= d + w + w /\ ~(d + w + w < a)
  OBVIOUS

\* A RegWindow of time in which one more attempt falls: what it holds besides the
\* current window is of earlier processes, or else fits the window before.
LEMMA AttemptFits ==
  ASSUME now \in Nat, NEW h \in Seq(Allowed), NEW g \in Seq(Allowed), NEW at \in Nat,
         NEW l \in Nat, NEW n \in Nat, WindowFits(at, n, l, h), None \notin Nat,
         RegWindow \in Nat, RegGlobal \in Nat,
         NEW x \in DOMAIN g, DOMAIN g = DOMAIN h \cup {x}, g[x].at = now, g[x].life = l,
         \A i \in DOMAIN h : g[i] = h[i],
         Cardinality(InCurrent(at, l, g)) <= RegGlobal,
         NEW t \in 0 .. MaxClock, t \in Nat, t <= now, now <= t + RegWindow
  PROVE  Fit(Within(t, g), g)
<1> DEFINE C == InCurrent(at, l, g)
           D == Within(t, h) \ InCurrent(at, l, h)
           W == Within(t, g)
<1>1. \A i \in DOMAIN h : h[i].at \in Nat /\ h[i].life \in Nat /\ i \in DOMAIN g
  BY HistoryTypes
<1>2. /\ at <= now + RegWindow /\ Cardinality(InPrevious(at, l, h)) <= RegGlobal
      /\ Fit(D, h)
      /\ \A i, j \in DOMAIN h : h[i].life # l /\ h[j].life = l /\ j \notin InCurrent(at, l, h)
           => h[i].at + RegWindow + RegWindow < at
  BY DEF WindowFits
<1>3. x \in C /\ x \in W
  BY <1>2 DEF InCurrent, Within
<1>4. W \subseteq C \cup D /\ D \subseteq W
  BY <1>3 DEF Within, InCurrent
<1>5. D \in SUBSET DOMAIN h /\ C \in SUBSET DOMAIN g /\ W \in SUBSET DOMAIN g
      /\ InPrevious(at, l, h) \in SUBSET DOMAIN h
  BY DEF Within, InCurrent, InPrevious
<1>6. /\ IsFiniteSet(C) /\ IsFiniteSet(D) /\ IsFiniteSet(InPrevious(at, l, h))
      /\ IsFiniteSet(Lives(W, g))
  BY <1>5, RegFinite
<1>7. /\ Cardinality(C) \in Nat /\ Cardinality(D) \in Nat /\ Cardinality(W) \in Nat
      /\ Cardinality(InPrevious(at, l, h)) \in Nat
      /\ Cardinality(Lives(W, g)) \in Nat /\ Cardinality(Lives(D, h)) \in Nat
  BY <1>5, RegFinite
<1>8. Lives(D, h) \subseteq Lives(W, g) /\ l \in Lives(W, g)
  <2>1. \A i \in D : i \in W /\ g[i].life = h[i].life
    BY <1>4, <1>5
  <2>2. QED
    BY <1>3, <2>1 DEF Lives
<1> HIDE DEF C, D, W
<1>9. Cardinality(W) <= RegGlobal + Cardinality(D)
  <2>1. Cardinality(C) <= RegGlobal
    BY DEF C
  <2>2. QED
    BY <1>4, <1>6, <2>1, UnionBounded
<1>10. CASE \E j \in D : h[j].life = l
  <2>1. PICK j \in D : h[j].life = l
    BY <1>10
  <2>2. D \subseteq InPrevious(at, l, h)
    <3>1. SUFFICES ASSUME NEW i \in D PROVE i \in InPrevious(at, l, h)
      OBVIOUS
    <3>2. /\ i \in DOMAIN h /\ h[i].at \in Nat /\ t <= h[i].at /\ i \notin InCurrent(at, l, h)
          /\ j \in DOMAIN h /\ j \notin InCurrent(at, l, h)
      BY <1>1, <1>5, <2>1 DEF D, Within
    <3>3. /\ at <= h[i].at + RegWindow + RegWindow
          /\ ~(h[i].at + RegWindow + RegWindow < at)
      BY <1>2, <3>2, TwoWindows
    <3>4. h[i].life = l
      BY <1>2, <2>1, <3>2, <3>3, Zenon
    <3>5. h[i].at + RegWindow < at
      BY <3>2, <3>4 DEF InCurrent
    <3>6. QED
      BY <3>2, <3>3, <3>4, <3>5 DEF InPrevious
  <2>3. Cardinality(D) <= RegGlobal
    <3>1. Cardinality(D) <= Cardinality(InPrevious(at, l, h))
      BY <1>6, <2>2, FS_Subset
    <3>2. QED
      BY <1>2, <1>7, <3>1
  <2>4. 1 <= Cardinality(Lives(W, g))
    <3>1. Cardinality(Lives(W, g)) # 0
      BY <1>6, <1>8, FS_EmptySet
    <3>2. QED
      BY <1>7, <3>1
  <2>5. RegGlobal + RegGlobal <= (1 + Cardinality(Lives(W, g))) * RegGlobal
    BY <1>7, <2>4, TwoLimits
  <2>6. Cardinality(W) <= RegGlobal + RegGlobal
    BY <1>7, <1>9, <2>3
  <2>7. (1 + Cardinality(Lives(W, g))) * RegGlobal \in Nat
    BY <1>7, LimitsTyped
  <2>8. Cardinality(W) <= (1 + Cardinality(Lives(W, g))) * RegGlobal
    <3>1. ASSUME NEW b \in Nat, RegGlobal + RegGlobal <= b
          PROVE  Cardinality(W) <= b
      BY <1>7, <2>6, <3>1
    <3>2. QED
      BY <2>5, <2>7, <3>1
  <2>9. QED
    BY <2>8 DEF Fit, W
<1>11. CASE ~ \E j \in D : h[j].life = l
  <2>1. l \notin Lives(D, h)
    BY <1>11 DEF Lives
  <2>2. Cardinality(Lives(D, h)) + 1 <= Cardinality(Lives(W, g))
    <3>1. Lives(D, h) \cup {l} \subseteq Lives(W, g) /\ IsFiniteSet(Lives(D, h))
      BY <1>6, <1>8, FS_Subset
    <3>2. Cardinality(Lives(D, h) \cup {l}) = Cardinality(Lives(D, h)) + 1
      BY <2>1, <3>1, FS_AddElement
    <3>3. Cardinality(Lives(D, h) \cup {l}) <= Cardinality(Lives(W, g))
      BY <1>6, <3>1, FS_Subset
    <3>4. QED
      BY <3>2, <3>3
  <2>3. (1 + Cardinality(Lives(D, h))) * RegGlobal + RegGlobal
          <= (1 + Cardinality(Lives(W, g))) * RegGlobal
    BY <1>7, <2>2, OneMoreLimit
  <2>4. Cardinality(D) <= (1 + Cardinality(Lives(D, h))) * RegGlobal
    BY <1>2 DEF Fit
  <2>5. /\ (1 + Cardinality(Lives(D, h))) * RegGlobal \in Nat
        /\ (1 + Cardinality(Lives(W, g))) * RegGlobal \in Nat
    BY <1>7, LimitsTyped
  <2>6. Cardinality(W) <= (1 + Cardinality(Lives(W, g))) * RegGlobal
    <3>1. ASSUME NEW a \in Nat, NEW b \in Nat, Cardinality(D) <= a, a + RegGlobal <= b
          PROVE  Cardinality(W) <= b
      BY <1>7, <1>9, <3>1
    <3>2. QED
      BY <2>3, <2>4, <2>5, <3>1
  <2>7. QED
    BY <2>6 DEF Fit, W
<1>12. QED
  BY <1>10, <1>11

\* One more attempt below the limit.
LEMMA AttemptCounted ==
  ASSUME now \in Nat, NEW h \in Seq(Allowed), NEW at \in Nat, NEW l \in Nat, NEW n \in Nat,
         NEW g, g = Append(h, [at |-> now, life |-> l]),
         WindowFits(at, n, l, h), n < RegGlobal, now <= at,
         \A t \in 0 .. MaxClock : Fit(Within(t, h), h),
         RegWindow \in Nat, RegGlobal \in Nat, None \notin Nat, MaxClock \in Nat
  PROVE  /\ WindowFits(at, n + 1, l, g)
         /\ \A t \in 0 .. MaxClock : Fit(Within(t, g), g)
<1> DEFINE x == Len(h) + 1
<1>1. [at |-> now, life |-> l] \in Allowed
  BY DEF Allowed
<1>2. /\ g \in Seq(Allowed) /\ x \in DOMAIN g /\ DOMAIN g = DOMAIN h \cup {x} /\ x \notin DOMAIN h
      /\ g[x] = [at |-> now, life |-> l] /\ \A i \in DOMAIN h : g[i] = h[i]
  BY <1>1
<1>3. g[x].at = now /\ g[x].life = l
  BY <1>2
<1>4. \A i \in DOMAIN h : h[i].at \in Nat /\ h[i].life \in Nat
  BY HistoryTypes
<1> HIDE DEF x
<1>5. /\ RegWindow <= at /\ at <= now + RegWindow
      /\ Cardinality(InCurrent(at, l, h)) <= n
      /\ Cardinality(InPrevious(at, l, h)) <= RegGlobal
      /\ \A i \in DOMAIN h : h[i].at <= now /\ l <= h[i].life /\ h[i].at <= at
      /\ \A i \in DOMAIN h : h[i].life # l => h[i].at + RegWindow <= at
      /\ \A i, j \in DOMAIN h : h[i].life # l /\ h[j].life = l /\ j \notin InCurrent(at, l, h)
           => h[i].at + RegWindow + RegWindow < at
      /\ \A t \in 0 .. MaxClock : Fit(Within(t, h) \ InCurrent(at, l, h), h)
  BY DEF WindowFits
<1>6. /\ InCurrent(at, l, g) = InCurrent(at, l, h) \cup {x}
      /\ InPrevious(at, l, g) = InPrevious(at, l, h)
  <2>1. ~(now + RegWindow < at)
    BY <1>5
  <2>2. QED
    BY <1>2, <1>3, <1>5, <2>1 DEF InCurrent, InPrevious
<1>7. Cardinality(InCurrent(at, l, g)) <= n + 1
  <2>1. InCurrent(at, l, h) \in SUBSET DOMAIN h
    BY DEF InCurrent
  <2>2. /\ IsFiniteSet(InCurrent(at, l, h)) /\ Cardinality(InCurrent(at, l, h)) \in Nat
        /\ x \notin InCurrent(at, l, h)
    BY <1>2, <2>1, RegFinite
  <2>3. Cardinality(InCurrent(at, l, g)) = Cardinality(InCurrent(at, l, h)) + 1
    BY <1>6, <2>2, FS_AddElement
  <2>4. QED
    BY <1>5, <2>2, <2>3
<1>8. \A i \in DOMAIN g : g[i].at <= now /\ l <= g[i].life /\ g[i].at <= at
  BY <1>2, <1>3, <1>5
<1>9. ASSUME NEW i \in DOMAIN g, g[i].life # l
      PROVE  /\ g[i].at + RegWindow <= at
             /\ \A j \in DOMAIN g \ InCurrent(at, l, g) :
                  g[j].life = l => g[i].at + RegWindow + RegWindow < at
  <2>1. i \in DOMAIN h /\ g[i] = h[i]
    BY <1>2, <1>3, <1>9
  <2>2. ASSUME NEW j \in DOMAIN g, j \notin InCurrent(at, l, g), g[j].life = l
        PROVE  j \in DOMAIN h /\ j \notin InCurrent(at, l, h) /\ g[j] = h[j]
    BY <1>2, <1>6, <2>2
  <2>3. QED
    BY <1>5, <1>9, <2>1, <2>2
<1>10. ASSUME NEW t \in 0 .. MaxClock
       PROVE  Fit(Within(t, g) \ InCurrent(at, l, g), g)
  <2>1. Within(t, g) \ InCurrent(at, l, g) = Within(t, h) \ InCurrent(at, l, h)
    BY <1>2, <1>6 DEF Within
  <2>2. \A i \in Within(t, h) \ InCurrent(at, l, h) : g[i] = h[i]
    BY <1>2 DEF Within
  <2>3. QED
    BY <1>5, <2>1, <2>2, FitSame
<1>11. WindowFits(at, n + 1, l, g)
  <2>1. n + 1 <= RegGlobal /\ at # None
    OBVIOUS
  <2>2. Cardinality(InPrevious(at, l, g)) <= RegGlobal
    BY <1>5, <1>6
  <2>3. QED
    BY <1>5, <1>7, <1>8, <1>9, <1>10, <2>1, <2>2 DEF WindowFits
<1>12. ASSUME NEW t \in 0 .. MaxClock
       PROVE  Fit(Within(t, g), g)
  <2>1. t \in Nat
    OBVIOUS
  <2>2. CASE t <= now /\ now <= t + RegWindow
    <3>1. Cardinality(InCurrent(at, l, g)) <= RegGlobal
      <4>1. InCurrent(at, l, g) \in SUBSET DOMAIN g
        BY DEF InCurrent
      <4>2. Cardinality(InCurrent(at, l, g)) \in Nat
        BY <1>2, <4>1, RegFinite
      <4>3. QED
        BY <1>7, <4>2
    <3>2. QED
      BY <1>2, <1>3, <2>1, <2>2, <3>1, AttemptFits
  <2>3. CASE ~(t <= now /\ now <= t + RegWindow)
    <3>1. Within(t, g) = Within(t, h)
      BY <1>2, <1>3, <2>3 DEF Within
    <3>2. \A i \in Within(t, h) : g[i] = h[i]
      BY <1>2 DEF Within
    <3>3. QED
      BY <3>1, <3>2, FitSame
  <2>4. QED
    BY <2>2, <2>3
<1>13. QED
  BY <1>11, <1>12

LEMMA RegAllowOK ==
  ASSUME TypeOK, RegInv, NEW ip \in IPs, NEW ok \in BOOLEAN, Allow(ip, ok),
         now' = now, restarts' = restarts,
         allowed' = IF ok THEN Append(allowed, [at |-> now, life |-> restarts]) ELSE allowed
  PROVE  RegInv'
<1> DEFINE n == IF Over(reg.at) THEN 0 ELSE reg.count
           at == IF Over(reg.at) THEN now + RegWindow ELSE reg.at
<1>1. /\ now \in Nat /\ restarts \in Nat /\ reg.count \in Nat /\ reg.at \in Nat \cup {None}
      /\ allowed \in Seq(Allowed) /\ RegWindow \in Nat /\ RegGlobal \in Nat
      /\ None \notin Nat /\ MaxClock \in Nat
  BY RegTypes
<1>2. at \in Nat /\ n \in Nat /\ now <= at
  BY <1>1 DEF Over
<1>3. WindowFits(at, n, restarts, allowed)
  <2>1. CASE Over(reg.at)
    BY <2>1, WindowRenewed
  <2>2. CASE ~Over(reg.at)
    BY <2>2 DEF RegInv
  <2>3. QED
    BY <2>1, <2>2
<1>4. reg'.at = at /\ (ok => n < RegGlobal /\ reg'.count = n + 1) /\ (~ok => reg'.count = n)
  BY AllowCounts
<1>5. \A t \in 0 .. MaxClock : Fit(Within(t, allowed), allowed)
  BY BurstFits DEF RegInv
<1> HIDE DEF n, at
<1>6. CASE ok
  <2>1. /\ allowed' = Append(allowed, [at |-> now, life |-> restarts])
        /\ reg'.count = n + 1 /\ n < RegGlobal
    BY <1>4, <1>6
  <2>2. /\ WindowFits(at, n + 1, restarts, allowed')
        /\ \A t \in 0 .. MaxClock : Fit(Within(t, allowed'), allowed')
    BY <1>1, <1>2, <1>3, <1>5, <2>1, AttemptCounted
  <2>3. WindowFits(reg.at, reg.count, restarts, allowed)'
    BY <1>4, <2>1, <2>2, Zenon DEF WindowFits, InCurrent, InPrevious, Within, Fit, Lives
  <2>4. QED
    BY <2>2, <2>3, BurstFitsNext DEF RegInv
<1>7. CASE ~ok
  <2>1. allowed' = allowed /\ reg'.count = n
    BY <1>4, <1>7
  <2>2. WindowFits(reg.at, reg.count, restarts, allowed)'
    BY <1>3, <1>4, <2>1, Zenon DEF WindowFits, InCurrent, InPrevious, Within, Fit, Lives
  <2>3. QED
    BY <1>5, <2>1, <2>2, BurstFitsNext DEF RegInv
<1>8. QED
  BY <1>6, <1>7

LEMMA RegRestOK ==
  ASSUME TypeOK, RegInv, now' \in Nat, now' >= now, reg'.at = reg.at, reg'.count = reg.count,
         allowed' = allowed, restarts' = restarts
  PROVE  RegInv'
<1>1. RegistrationBurst'
  BY BurstFits, BurstFitsNext DEF RegInv
<1>2. /\ now \in Nat /\ reg.at \in Nat \cup {None} /\ RegWindow \in Nat /\ None \notin Nat
      /\ \A i \in DOMAIN allowed : allowed[i].at \in Nat
  BY RegTypes, HistoryTypes
<1>3. WindowFits(reg.at, reg.count, restarts, allowed)
  BY DEF RegInv
<1>4. /\ \A i \in DOMAIN allowed : allowed[i].at <= now => allowed[i].at <= now'
      /\ reg.at # None /\ reg.at <= now + RegWindow => reg.at <= now' + RegWindow
  BY <1>2
<1>5. WindowFits(reg.at, reg.count, restarts, allowed)'
  BY <1>3, <1>4, Zenon DEF WindowFits, InCurrent, InPrevious, Within, Fit, Lives
<1>6. QED
  BY <1>1, <1>5 DEF RegInv

\* A process that has allowed nothing yet comes after the others.
LEMMA RegRestartOK ==
  ASSUME TypeOK, RegInv, ProcessRestarts
  PROVE  RegInv'
<1>1. /\ reg'.at = None /\ reg'.count = 0 /\ allowed' = allowed /\ now' = now
      /\ restarts' = restarts - 1
  BY DEF ProcessRestarts, NoReg
<1>2. restarts \in Nat /\ RegGlobal \in Nat /\ \A i \in DOMAIN allowed : allowed[i].life \in Nat
  BY RegTypes, HistoryTypes
<1>3. \A i \in DOMAIN allowed : allowed[i].at <= now /\ restarts <= allowed[i].life
  BY DEF RegInv, WindowFits
<1>4. \A i \in DOMAIN allowed : restarts - 1 <= allowed[i].life /\ allowed[i].life # restarts - 1
  BY <1>2, <1>3
<1>5. WindowFits(reg.at, reg.count, restarts, allowed)'
  BY <1>1, <1>2, <1>3, <1>4 DEF WindowFits
<1>6. RegistrationBurst'
  BY <1>1, BurstFits, BurstFitsNext DEF RegInv
<1>7. QED
  BY <1>5, <1>6 DEF RegInv

LEMMA RegInitOK ==
  ASSUME Init
  PROVE  RegInv
<1>1. reg.at = None /\ reg.count = 0 /\ allowed = <<>> /\ RegGlobal \in Nat
  BY ApiAssumption DEF Init, NoReg
<1>2. DOMAIN allowed = {}
  BY <1>1
<1>3. WindowFits(reg.at, reg.count, restarts, allowed)
  BY <1>1, <1>2 DEF WindowFits
<1>4. ASSUME NEW t PROVE Fit(Within(t, allowed), allowed)
  <2>1. Within(t, allowed) = {} /\ Lives({}, allowed) = {}
    BY <1>2 DEF Within, Lives
  <2>2. Cardinality({}) = 0
    BY FS_EmptySet
  <2>3. 0 <= (1 + 0) * RegGlobal
    BY <1>1
  <2>4. QED
    BY <2>1, <2>2, <2>3 DEF Fit
<1>5. QED
  BY <1>3, <1>4, BurstFits DEF RegInv

LEMMA RegStepOK ==
  ASSUME IndInv, RegInv, [Next]_vars
  PROVE  RegInv'
<1>1. TypeOK /\ now \in Nat /\ reg \in Limiter /\ reg.count \in Nat
  BY RegTypes DEF IndInv
<1>2. ASSUME now' = now, reg' = reg, allowed' = allowed, restarts' = restarts PROVE RegInv'
  BY <1>1, <1>2, RegRestOK
<1>3. CASE \E q \in Reqs, ip \in IPs : SendRegister(q, ip)
  BY <1>2, <1>3 DEF SendRegister, Send, apiVars, histories, bounds
<1>4. CASE \E q \in Reqs, op \in ops \ {"Register", "Post"}, k \in Keys, x \in Keys \cup {None} :
             SendKeyed(q, op, k, x)
  BY <1>2, <1>4 DEF SendKeyed, Send, apiVars, histories, bounds
<1>5. CASE \E q \in Reqs, k \in Keys, m \in Marks, b \in Bodies : SendPost(q, k, m, b)
  BY <1>2, <1>5 DEF SendPost, Send, apiVars, histories, bounds
<1>6. CASE \E q \in Reqs : ReqStep(q)
  <2>1. PICK q \in Reqs : ReqStep(q)
    BY <1>6
  <2>2. CASE UseCached(q) \/ LookUpKey(q) \/ FillCache(q)
    BY <1>2, <2>2 DEF UseCached, LookUpKey, FillCache, apiVars, histories, bounds
  <2>3. CASE LookUpMark(q) \/ Handle(q) \/ SaveResponse(q) \/ CountKeys(q)
    BY <1>2, <2>3 DEF LookUpMark, Handle, SaveResponse, CountKeys, apiVars, histories, bounds
  <2>4. CASE CreateKey(q) \/ RevokeKey(q) \/ EvictKey(q)
    BY <1>2, <2>4 DEF CreateKey, RevokeKey, EvictKey, histories, bounds
  <2>5. CASE DeleteTenant(q) \/ EvictTenant(q) \/ CountTenants(q) \/ RegisterTenant(q)
    BY <1>2, <2>5 DEF DeleteTenant, EvictTenant, CountTenants, RegisterTenant, apiVars,
       histories, bounds
  <2>6. CASE AllowRegistration(q)
    <3>1. PICK ip \in IPs : ip = req[q].ip
      BY <2>6 DEF IndInv, ReqFits, Fits, AllowRegistration, At
    <3>2. CASE /\ Allow(ip, TRUE)
               /\ allowed' = Append(allowed, [at |-> now, life |-> restarts])
      BY <1>1, <2>6, <3>2, RegAllowOK DEF AllowRegistration, bounds
    <3>3. CASE Allow(ip, FALSE) /\ allowed' = allowed
      BY <1>1, <2>6, <3>3, RegAllowOK DEF AllowRegistration, bounds
    <3>4. QED
      BY <2>6, <3>1, <3>2, <3>3 DEF AllowRegistration
  <2>7. QED
    BY <2>1, <2>2, <2>3, <2>4, <2>5, <2>6 DEF ReqStep
<1>7. CASE SweepCache \/ SweepStore
  BY <1>2, <1>7 DEF SweepCache, SweepStore, histories, bounds
<1>8. CASE SweepRegistrations
  <2>1. PICK es : reg' = [reg EXCEPT !.entries = es]
    BY <1>8, Zenon DEF SweepRegistrations
  <2>2. reg'.at = reg.at /\ reg'.count = reg.count
    BY <1>1, <2>1 DEF Limiter
  <2>3. now' = now /\ allowed' = allowed /\ restarts' = restarts
    BY <1>8 DEF SweepRegistrations, histories, bounds
  <2>4. QED
    BY <1>1, <2>2, <2>3, RegRestOK
<1>9. CASE Tick
  BY <1>1, <1>9, RegRestOK DEF Tick, histories, bounds
<1>10. CASE ProcessRestarts
  BY <1>1, <1>10, RegRestartOK
<1>11. CASE UNCHANGED vars
  BY <1>2, <1>11 DEF vars, apiVars
<1>12. QED
  BY <1>3, <1>4, <1>5, <1>6, <1>7, <1>8, <1>9, <1>10, <1>11 DEF Next

\* For any limits, any addresses, and any number of requests racing and of restarts,
\* a RegWindow of time sees no more registrations allowed than one limit and one
\* more for each process that allows something in it: of the windows that meet it,
\* one may have started before it, and after that every process starts at most one.
THEOREM RegistrationBursts == Spec => []RegistrationBurst
<1>1. Init => RegInv
  BY RegInitOK
<1>2. IndInv /\ RegInv /\ [Next]_vars => RegInv'
  BY RegStepOK
<1>3. RegInv => RegistrationBurst
  BY DEF RegInv
<1>4. QED
  BY <1>1, <1>2, <1>3, ApiInvariant, PTL DEF Spec

=============================================================================
