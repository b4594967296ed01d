------------------------ MODULE CircuitBreaker_proofs ------------------------
(***************************************************************************)
(* Proofs about CircuitBreaker, for every set of services, every threshold *)
(* and every positive length of the crash window.                          *)
(***************************************************************************)
EXTENDS CircuitBreaker, FiniteSetTheorems, TLAPS

----------------------------------------------------------------------------
(* The inductive invariant *)

\* The crashes that the window of row r covers, as indices of the history h.
InWindow(r, h) ==
  {i \in DOMAIN h : /\ r.window # None /\ r.window <= h[i]
                    /\ h[i] < r.window + Window}

\* No window, no history. With one, the window began in the past, and every
\* crash recorded since the last reset lies in the past and before the end of
\* the window: the window only moves when a crash falls behind its end.
HistoryFits(r, h) ==
  /\ r.window = None => h = <<>>
  /\ r.window # None =>
       /\ r.window <= now
       /\ \A i \in DOMAIN h : h[i] <= now /\ h[i] < r.window + Window

CountFits(r, h) == r.count = Cardinality(InWindow(r, h))

RowFits(r, h) == r \in Columns /\ h \in Seq(Nat) /\ HistoryFits(r, h) /\ CountFits(r, h)

IndInv == TypeOK /\ \A s \in Services : RowFits(svc[s], log[s])

----------------------------------------------------------------------------
(* Lemmas about the statements *)

\* A row without crashes fits the empty history.
LEMMA EmptyFits ==
  ASSUME NEW r \in Columns, r.window = None, r.count = 0
  PROVE  RowFits(r, <<>>)
<1>1. InWindow(r, <<>>) = {}
  BY DEF InWindow
<1>2. Cardinality(InWindow(r, <<>>)) = 0
  BY <1>1, FS_EmptySet
<1>3. CountFits(r, <<>>)
  BY <1>2 DEF CountFits
<1>4. HistoryFits(r, <<>>)
  BY DEF HistoryFits
<1>5. <<>> \in Seq(Nat)
  OBVIOUS
<1>6. QED
  BY <1>3, <1>4, <1>5 DEF RowFits

\* What a row's history fits depends on the two columns of the window only.
LEMMA FitsByWindow ==
  ASSUME NEW r \in Columns, NEW q \in Columns, NEW h, RowFits(r, h),
         q.window = r.window, q.count = r.count
  PROVE  RowFits(q, h)
<1>1. InWindow(q, h) = InWindow(r, h)
  BY DEF InWindow
<1>2. QED
  BY <1>1 DEF RowFits, HistoryFits, CountFits

\* RecordCrash appends the crash to the history that the row summarises: it
\* opens a window that covers this crash alone, or counts one more.
LEMMA RecordCrashFits ==
  ASSUME now \in Nat, NEW r \in Columns, NEW h \in Seq(Nat), RowFits(r, h)
  PROVE  RowFits(RecordCrash(r, now), Append(h, now))
<1> DEFINE fresh == r.window = None \/ now - r.window >= Window
           w == IF fresh THEN now ELSE r.window
           n == IF fresh THEN 1 ELSE r.count + 1
           q == RecordCrash(r, now)
           g == Append(h, now)
<1> SUFFICES RowFits(q, g)
  OBVIOUS
<1>1. /\ r.window \in Nat \cup {None} /\ r.count \in Nat /\ None \notin Nat
      /\ Window \in Nat /\ Window > 0
  BY BreakerAssumption DEF Columns
<1>2. w \in Nat /\ n \in Nat
  BY <1>1
<1>3. q = [r EXCEPT !.status = "crashed", !.window = w, !.count = n]
  BY DEF RecordCrash
<1> HIDE DEF w, n, q
<1>4. q \in Columns /\ q.window = w /\ q.count = n
  BY <1>2, <1>3, Zenon DEF Columns
<1>5. /\ g \in Seq(Nat) /\ DOMAIN g = 1 .. Len(h) + 1 /\ DOMAIN h = 1 .. Len(h)
      /\ Len(h) \in Nat
      /\ g[Len(h) + 1] = now /\ \A i \in 1 .. Len(h) : g[i] = h[i] /\ h[i] \in Nat
  OBVIOUS
<1> HIDE DEF g
<1>6. \A i \in 1 .. Len(h) :
        r.window \in Nat /\ h[i] <= now /\ h[i] < r.window + Window
  <2>1. r.window = None => Len(h) = 0
    BY DEF RowFits, HistoryFits
  <2>2. r.window # None => \A i \in 1 .. Len(h) : h[i] <= now /\ h[i] < r.window + Window
    BY <1>5 DEF RowFits, HistoryFits
  <2>3. QED
    BY <1>1, <2>1, <2>2
<1>7. \A i \in 1 .. Len(h) : g[i] <= now /\ g[i] < w + Window
  BY <1>1, <1>5, <1>6 DEF w
<1>8. w <= now /\ now < w + Window
  BY <1>1 DEF w, RowFits, HistoryFits
<1>9. HistoryFits(q, g)
  <2>1. \A i \in DOMAIN g : g[i] <= now /\ g[i] < w + Window
    BY <1>5, <1>7, <1>8
  <2>2. QED
    BY <1>1, <1>2, <1>4, <1>8, <2>1 DEF HistoryFits
<1>10. IsFiniteSet(InWindow(r, h)) /\ Len(h) + 1 \notin InWindow(r, h)
  <2>1. InWindow(r, h) \subseteq 1 .. Len(h) /\ IsFiniteSet(1 .. Len(h))
    BY <1>5, FS_Interval DEF InWindow
  <2>2. QED
    BY <1>5, <2>1, FS_Subset
<1>11. InWindow(q, g) = {i \in 1 .. Len(h) + 1 : w <= g[i]}
  <2>1. \A i \in 1 .. Len(h) + 1 : g[i] < w + Window
    BY <1>5, <1>7, <1>8
  <2>2. QED
    BY <1>1, <1>2, <1>4, <1>5, <2>1 DEF InWindow
<1>12. CASE fresh
  <2>1. w = now /\ n = 1
    BY <1>12 DEF w, n
  <2>2. \A i \in 1 .. Len(h) : ~(now <= h[i])
    BY <1>1, <1>5, <1>6, <1>12
  <2>3. InWindow(q, g) = {Len(h) + 1}
    BY <1>5, <1>11, <2>1, <2>2
  <2>4. Cardinality(InWindow(q, g)) = 1
    BY <2>3, FS_Singleton
  <2>5. QED
    BY <1>4, <1>5, <1>9, <2>1, <2>4 DEF RowFits, CountFits
<1>13. CASE ~fresh
  <2>1. w = r.window /\ n = r.count + 1 /\ r.window # None
    BY <1>13 DEF w, n
  <2>2. InWindow(r, h) = {i \in 1 .. Len(h) : w <= h[i]}
    BY <1>5, <1>6, <2>1 DEF InWindow
  <2>3. InWindow(q, g) = InWindow(r, h) \cup {Len(h) + 1}
    BY <1>5, <1>8, <1>11, <2>2
  <2>4. Cardinality(InWindow(q, g)) = Cardinality(InWindow(r, h)) + 1
    BY <1>10, <2>3, FS_AddElement
  <2>5. QED
    BY <1>4, <1>5, <1>9, <2>1, <2>4 DEF RowFits, CountFits
<1>14. QED
  BY <1>12, <1>13

\* Closing a circuit leaves a row without crashes.
LEMMA ClosedFits ==
  ASSUME NEW r \in Columns, NEW t \in Nat \cup {None}
  PROVE  Closed(r, t) \in Columns /\ RowFits(Closed(r, t), <<>>)
<1> DEFINE q == Closed(r, t)
<1>1. q = [r EXCEPT !.open = FALSE, !.count = 0, !.window = None,
                    !.retryAt = t, !.status = "stopped"]
  BY DEF Closed
<1> HIDE DEF q
<1>2. q \in Columns /\ q.window = None /\ q.count = 0
  BY <1>1, Zenon DEF Columns
<1>3. QED
  BY <1>2, EmptyFits DEF q

\* Whatever row the second statement reaches, it leaves its window and count.
LEMMA EvaluateFits ==
  ASSUME now \in Nat, NEW s, NEW r \in Columns
  PROVE  LET q == Evaluate(r, Arguments(s)) IN
         q \in Columns /\ q.window = r.window /\ q.count = r.count
<1> DEFINE a == Arguments(s)
           o == Trips(r, a[1])
                \/ (r.open /\ ~(r.window # None /\ a[2] - r.window >= Window))
           t == IF Trips(r, a[3]) THEN a[4] ELSE r.retryAt
           n == IF Trips(r, a[5]) THEN r.openCount + 1 ELSE r.openCount
           q == Evaluate(r, a)
<1>1. a[4] = now
  BY DEF Arguments
<1>2. t \in Nat \cup {None} /\ n \in Nat
  BY <1>1 DEF Columns
<1>3. o \in BOOLEAN
  OBVIOUS
<1>4. q = [r EXCEPT !.open = o, !.retryAt = t, !.openCount = n]
  BY DEF Evaluate
<1> HIDE DEF o, t, n, q
<1>5. q \in Columns /\ q.window = r.window /\ q.count = r.count
  BY <1>2, <1>3, <1>4, Zenon DEF Columns
<1>6. QED
  BY <1>5 DEF q, a

----------------------------------------------------------------------------
(* One lemma per action *)

\* Only the clock moves: what was past stays past.
LEMMA ClockTicksStep ==
  ASSUME IndInv, ClockTicks
  PROVE  IndInv'
<1>1. /\ TypeOK /\ now \in Nat /\ now' = now + 1 /\ UNCHANGED <<svc, tick, log>>
  BY DEF IndInv, TypeOK, ClockTicks
<1>2. TypeOK'
  BY <1>1 DEF TypeOK
<1>3. ASSUME NEW s \in Services
      PROVE  RowFits(svc[s], log[s])'
  <2>1. RowFits(svc[s], log[s]) /\ svc[s] \in Columns /\ log[s] \in Seq(Nat)
    BY <1>1 DEF IndInv, TypeOK
  <2>2. HistoryFits(svc[s], log[s])'
    <3>1. \A i \in DOMAIN log[s] : log[s][i] \in Nat
      BY <2>1
    <3>2. svc[s].window \in Nat \cup {None}
      BY <2>1 DEF Columns
    <3>3. \A i \in DOMAIN log[s] : log[s][i] <= now => log[s][i] <= now'
      BY <1>1, <3>1
    <3>4. svc[s].window # None /\ svc[s].window <= now => svc[s].window <= now'
      BY <1>1, <3>2
    <3>5. QED
      BY <1>1, <2>1, <3>3, <3>4 DEF RowFits, HistoryFits
  <2>3. CountFits(svc[s], log[s])'
    BY <1>1, <2>1 DEF RowFits, CountFits, InWindow
  <2>4. QED
    BY <1>1, <2>1, <2>2, <2>3 DEF RowFits
<1>4. QED
  BY <1>2, <1>3 DEF IndInv

\* A step that changes row s and its history only, to ones that fit.
LEMMA OneRow ==
  ASSUME IndInv, now' = now, tick' \in Tick, NEW s \in Services,
         NEW r \in Columns, NEW h \in Seq(Nat), RowFits(r, h),
         svc' = [svc EXCEPT ![s] = r], log' = [log EXCEPT ![s] = h]
  PROVE  IndInv'
<1>1. TypeOK'
  BY DEF IndInv, TypeOK
<1>2. ASSUME NEW x \in Services
      PROVE  RowFits(svc'[x], log'[x])
  BY DEF IndInv, TypeOK
<1>3. \A r1, h1 : RowFits(r1, h1)' <=> RowFits(r1, h1)
  BY DEF RowFits, HistoryFits, CountFits, InWindow
<1>4. QED
  BY <1>1, <1>2, <1>3 DEF IndInv

\* A step of the tick that touches no row.
LEMMA TickOnly ==
  ASSUME IndInv, UNCHANGED <<now, svc, log>>, tick' \in Tick
  PROVE  IndInv'
  BY DEF IndInv, TypeOK, RowFits, HistoryFits, CountFits, InWindow

\* 'running' leaves the window alone.
LEMMA ServiceRunsStep ==
  ASSUME IndInv, NEW s \in Services, ServiceRuns(s)
  PROVE  IndInv'
<1> DEFINE r == [svc[s] EXCEPT !.status = "running"]
<1>1. svc[s] \in Columns /\ log \in [Services -> Seq(Nat)] /\ RowFits(svc[s], log[s])
  BY DEF IndInv, TypeOK
<1>2. r \in Columns /\ r.window = svc[s].window /\ r.count = svc[s].count
  BY <1>1, Zenon DEF Columns
<1>3. svc' = [svc EXCEPT ![s] = r] /\ log' = [log EXCEPT ![s] = log[s]]
  BY <1>1 DEF ServiceRuns
<1>4. now' = now /\ tick' \in Tick /\ log[s] \in Seq(Nat)
  BY <1>1 DEF ServiceRuns, IndInv, TypeOK
<1> HIDE DEF r
<1>5. RowFits(r, log[s])
  BY <1>1, <1>2, FitsByWindow
<1>6. QED
  BY <1>2, <1>3, <1>4, <1>5, OneRow

\* The crash is counted and remembered together.
LEMMA CrashSeenStep ==
  ASSUME IndInv, NEW s \in Services, CrashSeen(s)
  PROVE  IndInv'
<1> DEFINE r == RecordCrash(svc[s], now)
           h == Append(log[s], now)
<1>1. /\ svc[s] \in Columns /\ log[s] \in Seq(Nat) /\ now \in Nat
      /\ RowFits(svc[s], log[s]) /\ tick \in Tick
  BY DEF IndInv, TypeOK
<1>2. RowFits(r, h)
  BY <1>1, RecordCrashFits
<1>3. /\ svc' = [svc EXCEPT ![s] = r] /\ log' = [log EXCEPT ![s] = h]
      /\ now' = now /\ tick' = [tick EXCEPT !.hit = s]
  BY DEF CrashSeen
<1> HIDE DEF r, h
<1>4. tick' \in Tick
  BY <1>1, <1>3, Zenon DEF Tick
<1>5. r \in Columns /\ h \in Seq(Nat)
  BY <1>2 DEF RowFits
<1>6. QED
  BY <1>2, <1>3, <1>4, <1>5, OneRow

\* The two passes and their start.
LEMMA PassStep ==
  ASSUME IndInv, NEW s, SelectRunning \/ NextPass \/ NothingSeen(s)
  PROVE  IndInv'
<1>1. tick \in Tick /\ UNCHANGED <<now, svc, log>>
  BY DEF IndInv, TypeOK, SelectRunning, NextPass, NothingSeen
<1>2. CASE SelectRunning
  <2>1. tick' \in Tick
    BY <1>2 DEF SelectRunning, Tick
  <2>2. QED
    BY <1>1, <2>1, TickOnly
<1>3. CASE NothingSeen(s)
  <2>1. tick' = [tick EXCEPT !.todo = tick.todo \ {s}]
    BY <1>3 DEF NothingSeen
  <2>2. tick' \in Tick
    BY <1>1, <2>1 DEF Tick
  <2>3. QED
    BY <1>1, <2>2, TickOnly
<1>4. CASE NextPass
  <2>1. \/ tick' = [tick EXCEPT !.pc = "unhealthy", !.todo = tick.list]
        \/ tick' = [IdleTick EXCEPT !.pc = "recover"]
    BY <1>4 DEF NextPass
  <2>2. IdleTick \in Tick
    BY DEF IdleTick, Tick
  <2>3. tick' \in Tick
    BY <1>1, <2>1, <2>2, Zenon DEF Tick
  <2>4. QED
    BY <1>1, <2>3, TickOnly
<1>5. QED
  BY <1>2, <1>3, <1>4

\* Step 2 of the update, as the driver binds it.
LEMMA EvaluateCircuitStep ==
  ASSUME IndInv, EvaluateCircuit
  PROVE  IndInv'
<1> DEFINE a == Arguments(tick.hit)
           q(s) == Evaluate(svc[s], a)
<1>1. /\ tick \in Tick /\ UNCHANGED <<now, log>> /\ now \in Nat
      /\ svc \in [Services -> Columns]
      /\ tick' = [tick EXCEPT !.todo = tick.todo \ {tick.hit}, !.hit = None]
  BY DEF IndInv, TypeOK, EvaluateCircuit
<1>2. tick' \in Tick
  <2>1. tick.todo \ {tick.hit} \in SUBSET Services
    BY <1>1 DEF Tick
  <2>2. QED
    BY <1>1, <2>1, Zenon DEF Tick
<1>3. \A s \in Services : /\ q(s) \in Columns /\ q(s).window = svc[s].window
                          /\ q(s).count = svc[s].count
  BY <1>1, EvaluateFits
<1>4. svc' = [s \in Services |->
                IF s = a[6] /\ TenantOf[s] = a[7] THEN q(s) ELSE svc[s]]
  BY DEF EvaluateCircuit
<1> HIDE DEF a, q
<1>5. \A s \in Services : /\ svc'[s] \in Columns /\ svc'[s].window = svc[s].window
                          /\ svc'[s].count = svc[s].count
  BY <1>1, <1>3, <1>4
<1>6. TypeOK'
  BY <1>1, <1>2, <1>4, <1>5 DEF IndInv, TypeOK
<1>7. ASSUME NEW s \in Services
      PROVE  RowFits(svc'[s], log[s])
  BY <1>1, <1>5, FitsByWindow DEF IndInv
<1>8. \A r1, h1 : RowFits(r1, h1)' <=> RowFits(r1, h1)
  BY <1>1 DEF RowFits, HistoryFits, CountFits, InWindow
<1>9. QED
  BY <1>1, <1>6, <1>7, <1>8 DEF IndInv

\* Auto-recovery empties the windows and histories of the rows that are due.
LEMMA AutoRecoverStep ==
  ASSUME IndInv, AutoRecover
  PROVE  IndInv'
<1>1. /\ svc \in [Services -> Columns] /\ log \in [Services -> Seq(Nat)]
      /\ tick' = IdleTick /\ now' = now
      /\ svc' = [s \in Services |-> IF Due(s) THEN Closed(svc[s], None) ELSE svc[s]]
      /\ log' = [s \in Services |-> IF Due(s) THEN <<>> ELSE log[s]]
  BY DEF IndInv, TypeOK, AutoRecover
<1>2. ASSUME NEW s \in Services
      PROVE  RowFits(svc'[s], log'[s])
  BY <1>1, ClosedFits DEF IndInv
<1>3. IdleTick \in Tick
  BY DEF IdleTick, Tick
<1>4. TypeOK'
  BY <1>1, <1>2, <1>3 DEF IndInv, TypeOK, RowFits
<1>5. \A r1, h1 : RowFits(r1, h1)' <=> RowFits(r1, h1)
  BY <1>1 DEF RowFits, HistoryFits, CountFits, InWindow
<1>6. QED
  BY <1>2, <1>4, <1>5 DEF IndInv

\* The reset endpoint empties one.
LEMMA ResetCircuitBreakerStep ==
  ASSUME IndInv, NEW s \in Services, ResetCircuitBreaker(s)
  PROVE  IndInv'
<1> DEFINE r == Closed(svc[s], svc[s].retryAt)
<1>1. svc[s] \in Columns /\ svc[s].retryAt \in Nat \cup {None}
  BY DEF IndInv, TypeOK, Columns
<1>2. r \in Columns /\ RowFits(r, <<>>) /\ <<>> \in Seq(Nat)
  <2>1. r \in Columns /\ RowFits(r, <<>>)
    BY <1>1, ClosedFits
  <2>2. QED
    BY <2>1 DEF RowFits
<1>3. /\ svc' = [svc EXCEPT ![s] = r] /\ log' = [log EXCEPT ![s] = <<>>]
      /\ now' = now /\ tick' \in Tick
  BY DEF ResetCircuitBreaker, IndInv, TypeOK
<1> HIDE DEF r
<1>4. QED
  BY <1>2, <1>3, OneRow

----------------------------------------------------------------------------
(* The theorems *)

\* A new row, or one whose circuit was opened before, has an empty history.
LEMMA InitHolds == Init => IndInv
<1> SUFFICES ASSUME Init PROVE IndInv
  OBVIOUS
<1>1. ASSUME NEW s \in Services
      PROVE  svc[s] \in Columns /\ svc[s].window = None /\ svc[s].count = 0
  <2>1. \/ svc[s] = [status |-> "running", window |-> None, count |-> 0, open |-> FALSE,
                     retryAt |-> None, openCount |-> 0]
        \/ \E r \in {None, 1} :
             svc[s] = [status |-> "crashed", window |-> None, count |-> 0, open |-> TRUE,
                       retryAt |-> r, openCount |-> 1]
    BY DEF Init
  <2>2. CASE svc[s] = [status |-> "running", window |-> None, count |-> 0,
                       open |-> FALSE, retryAt |-> None, openCount |-> 0]
    BY <2>2 DEF Columns
  <2>3. ASSUME NEW r \in {None, 1},
               svc[s] = [status |-> "crashed", window |-> None, count |-> 0,
                         open |-> TRUE, retryAt |-> r, openCount |-> 1]
        PROVE  svc[s] \in Columns /\ svc[s].window = None /\ svc[s].count = 0
    <3>1. r \in Nat \cup {None}
      OBVIOUS
    <3>2. QED
      BY <2>3, <3>1 DEF Columns
  <2>4. QED
    BY <2>1, <2>2, <2>3
<1>2. svc \in [Services -> Columns]
  <2>1. DOMAIN svc = Services /\ svc = [s \in Services |-> svc[s]]
    BY DEF Init
  <2>2. QED
    BY <1>1, <2>1
<1>3. TypeOK
  BY <1>2 DEF Init, TypeOK, IdleTick, Tick
<1>4. QED
  BY <1>1, <1>3, EmptyFits DEF Init, IndInv

\* The crash columns always agree with the history they summarise.
THEOREM BreakerInvariant == Spec => []IndInv
<1>1. IndInv /\ [Next]_vars => IndInv'
  <2> SUFFICES ASSUME IndInv, [Next]_vars PROVE IndInv'
    OBVIOUS
  <2>1. CASE UNCHANGED vars
    <3>1. UNCHANGED <<now, svc, log>> /\ tick' \in Tick
      BY <2>1 DEF vars, IndInv, TypeOK
    <3>2. QED
      BY <3>1, TickOnly
  <2>2. CASE Next
    BY <2>2, ClockTicksStep, PassStep, EvaluateCircuitStep, AutoRecoverStep,
       ServiceRunsStep, CrashSeenStep, ResetCircuitBreakerStep DEF Next
  <2>3. QED
    BY <2>1, <2>2
<1>2. QED
  BY <1>1, InitHolds, PTL DEF Spec

\* The breaker's columns, its tick and the history keep their types, although
\* the second statement is given its arguments in the wrong places.
THEOREM BreakerTypeCorrect == Spec => []TypeOK
<1>1. IndInv => TypeOK
  BY DEF IndInv
<1>2. QED
  BY <1>1, BreakerInvariant, PTL

\* crash_count counts exactly the crashes recorded in the window that begins
\* at crash_window_start.
THEOREM CountsTheWindow == Spec => []CountIsCrashesInWindow
<1>1. IndInv => CountIsCrashesInWindow
  BY DEF IndInv, RowFits, CountFits, InWindow, CountIsCrashesInWindow
<1>2. QED
  BY <1>1, BreakerInvariant, PTL

=============================================================================
