--------------------------------- MODULE Api ---------------------------------
(***************************************************************************)
(* internal/middleware and the tenant and key handlers of internal/api:    *)
(* registration, and for every other request authentication, then          *)
(* idempotency, then the handler. Between two critical sections or SQL     *)
(* statements of a request the others run.                                 *)
(***************************************************************************)
EXTENDS ApiState, Sequences

CONSTANTS
  Reqs,               \* bound: requests in flight (Throttle(200))
  Mixes,              \* bound: the kinds of requests one behaviour combines
  MaxRestarts         \* bound

Ops == {"Register", "CreateKey", "RevokeKey", "DeleteTenant", "Post"}

ASSUME MixesAssumption ==
  /\ Mixes \subseteq SUBSET Ops /\ MaxRestarts \in Nat
  /\ IsFiniteSet(Reqs) /\ Reqs # {}

VARIABLES
  req,        \* requests in flight
  ops,        \* the kinds of requests of this behaviour
  restarts,   \* restarts of the process still to come
  raced,      \* history: keys looked up but not yet cached when they were evicted
  allowed     \* history: when, and by which process, registrations were allowed

vars == <<apiVars, req, ops, restarts, raced, allowed>>
bounds == <<ops, restarts>>
histories == <<raced, allowed>>

FullKeys == Tenants \X Marks

Pcs == {"idle", "auth", "fill", "idem", "handle", "save", "count", "insert",
        "revoke", "evict", "suspend", "evictAll", "allow", "tenants", "create"}

\* key: the API key of the request; target: the key to revoke; due is history:
\* until when the answer is kept that the store held for this mark when the
\* request arrived.
Req == [pc: Pcs, op: Ops \cup {"none"}, key: Keys \cup {None}, target: Keys \cup {None},
        tenant: Tenants \cup {None}, entry: CacheEntry \cup {None}, ip: IPs \cup {None},
        mark: Marks \cup {None}, body: Bodies \cup {None}, due: Nat \cup {None}]

IdleReq == [pc |-> "idle", op |-> "none", key |-> None, target |-> None,
            tenant |-> None, entry |-> None, ip |-> None, mark |-> None,
            body |-> None, due |-> None]

\* A process is known by the restarts still to come.
Allowed == [at: Nat, life: Nat]

TypeOK ==
  /\ now \in Nat /\ restarts \in Nat /\ ops \in Mixes
  /\ tenant \in [Tenants -> {"absent", "active", "suspended"}]
  /\ key \in [Keys -> Key]
  /\ cache \in [Keys -> CacheEntry \cup {None}]
  /\ store \in [FullKeys -> IdemEntry \cup {None}]
  /\ reg \in [count: Nat, at: Nat \cup {None}, entries: [IPs -> RegEntry \cup {None}]]
  /\ req \in [Reqs -> Req]
  /\ raced \subseteq Keys
  /\ allowed \in Seq(Allowed)

\* Some tenants, within the limit, have registered before and hold their default
\* key.
Init ==
  /\ now = 0 /\ restarts = MaxRestarts /\ ops \in Mixes
  /\ \E own \in [Tenants -> Keys \cup {None}] :
       /\ \A t, u \in Tenants : own[t] = own[u] => t = u \/ own[t] = None
       /\ Cardinality({t \in Tenants : own[t] # None}) <= MaxTenants
       /\ tenant = [t \in Tenants |-> IF own[t] = None THEN "absent" ELSE "active"]
       /\ key = [k \in Keys |-> IF \E t \in Tenants : own[t] = k
                   THEN [st |-> "live", tenant |-> CHOOSE t \in Tenants : own[t] = k,
                         exp |-> None]
                   ELSE NoKey]
  /\ cache = [k \in Keys |-> None]
  /\ store = [f \in FullKeys |-> None]
  /\ reg = NoReg
  /\ req = [q \in Reqs |-> IdleReq]
  /\ raced = {}
  /\ allowed = <<>>

----------------------------------------------------------------------------
At(q, l) == req[q].pc = l

Goto(q, l) == req' = [req EXCEPT ![q].pc = l]

Reply(q) == req' = [req EXCEPT ![q] = IdleReq]

\* The mark of a request is scoped by its tenant.
Full(q) == <<req[q].tenant, req[q].mark>>

Send(q, r) ==
  /\ At(q, "idle")
  /\ req' = [req EXCEPT ![q] = r]
  /\ UNCHANGED <<apiVars, bounds, histories>>

SendRegister(q, ip) ==
  /\ "Register" \in ops
  /\ Send(q, [IdleReq EXCEPT !.op = "Register", !.pc = "allow", !.ip = ip])

\* A caller that has been given key k.
SendKeyed(q, op, k, target) ==
  /\ key[k].st # "absent"
  /\ IF op = "RevokeKey" THEN target # None /\ key[target].st # "absent" ELSE target = None
  /\ Send(q, [IdleReq EXCEPT !.op = op, !.pc = "auth", !.key = k, !.target = target])

KeptUntil(f) == IF Unexpired(f) THEN store[f].at + IdemTTL ELSE None

SendPost(q, k, mark, body) ==
  /\ "Post" \in ops /\ key[k].st # "absent"
  /\ Send(q, [IdleReq EXCEPT !.op = "Post", !.pc = "auth", !.key = k, !.mark = mark,
                             !.body = body, !.due = KeptUntil(<<key[k].tenant, mark>>)])

----------------------------------------------------------------------------
(* Authentication *)

\* Where an authenticated request goes; the rate limiters may refuse it.
Handler(op) == CASE op = "Post" -> "idem"
                 [] op = "CreateKey" -> "count"
                 [] op = "RevokeKey" -> "revoke"
                 [] op = "DeleteTenant" -> "suspend"

\* The status and HMAC checks, then the rate limiters.
Admit(q, e) ==
  \/ Reply(q)
  \/ /\ e.status = "active"
     /\ req' = [req EXCEPT ![q].pc = Handler(req[q].op), ![q].tenant = e.tenant,
                           ![q].entry = None]

\* A cached key is checked for expiry again: strictly after expires_at.
UseCached(q) ==
  LET k == req[q].key IN
  /\ At(q, "auth") /\ Fresh(k)
  /\ IF cache[k].exp # None /\ now > cache[k].exp
       THEN InvalidateKey(k) /\ Reply(q)
       ELSE Admit(q, cache[k]) /\ UNCHANGED cache
  /\ UNCHANGED <<now, tenant, key, store, reg, bounds, histories>>

\* A miss: the row is read, and cached in a step of its own.
LookUpKey(q) ==
  LET k == req[q].key IN
  /\ At(q, "auth") /\ ~Fresh(k)
  /\ \/ /\ Selectable(k)
        /\ req' = [req EXCEPT ![q].pc = "fill", ![q].entry =
             [tenant |-> key[k].tenant, status |-> tenant[key[k].tenant],
              exp |-> key[k].exp, at |-> 0]]
     \/ Reply(q)
  /\ UNCHANGED <<apiVars, bounds, histories>>

FillCache(q) ==
  /\ At(q, "fill")
  /\ CacheSet(req[q].key, [req[q].entry EXCEPT !.at = now])
  /\ Admit(q, req[q].entry)
  /\ UNCHANGED <<now, tenant, key, store, reg, bounds, histories>>

----------------------------------------------------------------------------
(* Idempotency *)

\* Mutant of LookUpMark: another body is a miss.
LookUpMarkAndBody(q) ==
  /\ At(q, "idem")
  /\ IF Unexpired(Full(q)) /\ store[Full(q)].body = req[q].body
       THEN Reply(q) ELSE Goto(q, "handle")
  /\ UNCHANGED <<apiVars, bounds, histories>>

\* A hit answers: the stored response, or a conflict for another body.
LookUpMark(q) ==
  /\ At(q, "idem")
  /\ IF Unexpired(Full(q)) THEN Reply(q) ELSE Goto(q, "handle")
  /\ UNCHANGED <<apiVars, bounds, histories>>

\* The handler runs: a 2xx response is kept, any other is not.
Handle(q) ==
  /\ At(q, "handle")
  /\ Goto(q, "save") \/ Reply(q)
  /\ UNCHANGED <<apiVars, bounds, histories>>

\* A request in flight is not owed an answer that is evicted.
SaveResponse(q) ==
  /\ At(q, "save")
  /\ StoreResponse(Full(q), req[q].body)
  /\ req' = [p \in Reqs |-> IF p = q THEN IdleReq
                ELSE IF req[p].mark # None /\ store'[<<key[req[p].key].tenant, req[p].mark>>] = None
                  THEN [req[p] EXCEPT !.due = None] ELSE req[p]]
  /\ UNCHANGED <<now, tenant, key, cache, reg, bounds, histories>>

----------------------------------------------------------------------------
(* API keys and tenants *)

\* Mutant of CountKeys: off by one.
CountKeysInclusive(q) ==
  /\ At(q, "count")
  /\ \/ Cardinality(LiveKeys(req[q].tenant)) <= MaxKeys /\ Goto(q, "insert")
     \/ Reply(q)
  /\ UNCHANGED <<apiVars, bounds, histories>>

\* The count is too high, or the query fails.
CountKeys(q) ==
  /\ At(q, "count")
  /\ \/ Cardinality(LiveKeys(req[q].tenant)) < MaxKeys /\ Goto(q, "insert")
     \/ Reply(q)
  /\ UNCHANGED <<apiVars, bounds, histories>>

CreateKey(q) ==
  /\ At(q, "insert")
  /\ \/ \E k \in Keys, life \in Lifetimes :
          /\ key[k].st = "absent"
          /\ InsertKey(k, req[q].tenant, IF life = None THEN None ELSE now + life)
     \/ UNCHANGED key
  /\ Reply(q)
  /\ UNCHANGED <<now, tenant, cache, store, reg, bounds, histories>>

\* Mutant of RevokeKey: the cache is not told.
RevokeKeyOnly(q) ==
  LET k == req[q].target IN
  /\ At(q, "revoke")
  /\ key' = IF k \in LiveKeys(req[q].tenant) THEN [key EXCEPT ![k].st = "revoked"] ELSE key
  /\ Reply(q)
  /\ UNCHANGED <<now, tenant, cache, store, reg, bounds, histories>>

\* UPDATE ... WHERE id = ? AND tenant_id = ? AND revoked_at IS NULL
RevokeKey(q) ==
  LET k == req[q].target IN
  /\ At(q, "revoke")
  /\ \/ /\ k \in LiveKeys(req[q].tenant)
        /\ key' = [key EXCEPT ![k].st = "revoked"] /\ Goto(q, "evict")
     \/ Reply(q) /\ UNCHANGED key
  /\ UNCHANGED <<now, tenant, cache, store, reg, bounds, histories>>

\* Keys whose row a request has read and not cached yet.
InFlight == {req[p].key : p \in {p \in Reqs : At(p, "fill")}}

EvictKey(q) ==
  LET k == req[q].target IN
  /\ At(q, "evict")
  /\ InvalidateKey(k)
  /\ raced' = raced \cup (InFlight \cap {k})
  /\ Reply(q)
  /\ UNCHANGED <<now, tenant, key, store, reg, bounds, allowed>>

DeleteTenant(q) ==
  /\ At(q, "suspend")
  /\ \/ SuspendAndRevoke(req[q].tenant) /\ Goto(q, "evictAll")
     \/ Reply(q) /\ UNCHANGED <<tenant, key>>
  /\ UNCHANGED <<now, cache, store, reg, bounds, histories>>

\* InvalidateTenant; StopAllForTenant follows (module ServiceManager).
EvictTenant(q) ==
  LET t == req[q].tenant IN
  /\ At(q, "evictAll")
  /\ InvalidateTenant(t)
  /\ raced' = raced \cup {k \in InFlight : key[k].tenant = t}
  /\ Reply(q)
  /\ UNCHANGED <<now, tenant, key, store, reg, bounds, allowed>>

AllowRegistration(q) ==
  /\ At(q, "allow")
  /\ \/ /\ Allow(req[q].ip, TRUE)
        /\ allowed' = Append(allowed, [at |-> now, life |-> restarts])
        /\ Goto(q, "tenants") \/ Reply(q)                 \* token, validation
     \/ Allow(req[q].ip, FALSE) /\ Reply(q) /\ UNCHANGED allowed
  /\ UNCHANGED <<now, tenant, key, cache, store, bounds, raced>>

CountTenants(q) ==
  /\ At(q, "tenants")
  /\ \/ Cardinality(Active) < MaxTenants /\ Goto(q, "create")
     \/ Reply(q)
  /\ UNCHANGED <<apiVars, bounds, histories>>

RegisterTenant(q) ==
  /\ At(q, "create")
  /\ \/ \E t \in Tenants, k \in Keys : InsertTenant(t, k)
     \/ UNCHANGED <<tenant, key>>
  /\ Reply(q)
  /\ UNCHANGED <<now, cache, store, reg, bounds, histories>>

ReqStep(q) ==
  \/ UseCached(q) \/ LookUpKey(q) \/ FillCache(q) \/ LookUpMark(q) \/ Handle(q)
  \/ SaveResponse(q) \/ CountKeys(q) \/ CreateKey(q) \/ RevokeKey(q) \/ EvictKey(q)
  \/ DeleteTenant(q) \/ EvictTenant(q) \/ AllowRegistration(q) \/ CountTenants(q)
  \/ RegisterTenant(q)

----------------------------------------------------------------------------
(* The sweepers and the environment *)

SweepCache ==
  /\ \E k \in Keys : cache[k] # None /\ ~Fresh(k)
  /\ cache' = [k \in Keys |-> IF Fresh(k) THEN cache[k] ELSE None]
  /\ UNCHANGED <<now, tenant, key, store, reg, req, bounds, histories>>

\* now.After(expiresAt)
SweepStore ==
  LET dead == {f \in Present(store) : now > store[f].at + IdemTTL} IN
  /\ dead # {}
  /\ store' = [f \in FullKeys |-> IF f \in dead THEN None ELSE store[f]]
  /\ UNCHANGED <<now, tenant, key, cache, reg, req, bounds, histories>>

SweepRegistrations ==
  LET dead == {ip \in Present(reg.entries) : Over(reg.entries[ip].at)} IN
  /\ dead # {}
  /\ reg' = [reg EXCEPT !.entries = [ip \in IPs |-> IF ip \in dead THEN None ELSE @[ip]]]
  /\ UNCHANGED <<now, tenant, key, cache, store, req, bounds, histories>>

Tick ==
  /\ now < MaxClock /\ now' = now + 1
  /\ UNCHANGED <<tenant, key, cache, store, reg, req, bounds, histories>>

\* What is in memory is lost with the process.
ProcessRestarts ==
  /\ restarts > 0 /\ restarts' = restarts - 1
  /\ cache' = [k \in Keys |-> None]
  /\ store' = [f \in FullKeys |-> None]
  /\ reg' = NoReg
  /\ req' = [q \in Reqs |-> IdleReq]
  /\ raced' = {}
  /\ UNCHANGED <<now, tenant, key, ops, allowed>>

Next ==
  \/ \E q \in Reqs, ip \in IPs : SendRegister(q, ip)
  \/ \E q \in Reqs, op \in ops \ {"Register", "Post"}, k \in Keys, x \in Keys \cup {None} :
       SendKeyed(q, op, k, x)
  \/ \E q \in Reqs, k \in Keys, m \in Marks, b \in Bodies : SendPost(q, k, m, b)
  \/ \E q \in Reqs : ReqStep(q)
  \/ SweepCache \/ SweepStore \/ SweepRegistrations \/ Tick \/ ProcessRestarts

Spec == Init /\ [][Next]_vars

----------------------------------------------------------------------------
Valid(k) == key[k].st = "live" /\ tenant[key[k].tenant] = "active"

EvictionToCome(k) ==
  \E q \in Reqs : \/ At(q, "evict") /\ req[q].target = k
                  \/ At(q, "evictAll") /\ req[q].tenant = key[k].tenant

\* The cache lets a revoked key or a suspended tenant in only while the handler
\* that revoked it has its eviction still to do, or when another request had
\* read the row before the revocation and cached it after the eviction.
StaleEntryRaced ==
  \A k \in Keys :
    cache[k] # None /\ cache[k].status = "active"
      => Valid(k) \/ EvictionToCome(k) \/ k \in raced

\* A request that arrives while the answer to its mark is kept does not run the
\* handler before that answer expires, whatever the others store or sweep
\* meanwhile, unless the answer is evicted.
AnsweredNotRepeated ==
  \A q \in Reqs : At(q, "handle") /\ req[q].due # None => now >= req[q].due

\* Counting and inserting are separate statements, for API keys and for tenants:
\* each limit is exceeded at most by the requests in flight that counted before
\* the first of them inserted.
QuotaOvershoot ==
  /\ \A t \in Tenants :
       Cardinality(LiveKeys(t)) + Cardinality({q \in Reqs : At(q, "insert") /\ req[q].tenant = t})
         <= MaxKeys + Cardinality(Reqs) - 1
  /\ Cardinality(Active) + Cardinality({q \in Reqs : At(q, "create")})
       <= MaxTenants + Cardinality(Reqs) - 1

\* The registrations allowed in the RegWindow of time that starts at t.
AllowedFrom(t) == {i \in DOMAIN allowed : t <= allowed[i].at /\ allowed[i].at <= t + RegWindow}

\* How far the "global" limit of registrations really goes. The windows are fixed
\* and in memory: a RegWindow of time sees at most the limit of the window it
\* starts in and, for each process that allows something in it, of one more. It
\* stays so when an address's own count is forgotten by an eviction.
RegistrationBurst ==
  \A t \in 0 .. MaxClock :
    Cardinality(AllowedFrom(t))
      <= (1 + Cardinality({allowed[i].life : i \in AllowedFrom(t)})) * RegGlobal
=============================================================================
