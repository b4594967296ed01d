--------------------------- MODULE BuildLogs_proofs ---------------------------
(***************************************************************************)
(* Proofs about BuildLogs, for every number of writers, cancellations and  *)
(* followers, every length of a build's output, every log limit and every  *)
(* channel size.                                                           *)
(***************************************************************************)
EXTENDS BuildLogs, SequenceTheorems, FiniteSetTheorems, TLAPS

----------------------------------------------------------------------------
(* The inductive invariant *)

Pcs == {"idle", "cap", "store", "copy", "send", "detach", "close", "read", "mark", "done"}
Proc == [pc: Pcs, n: Nat, to: SUBSET Followers]
Chan == [buf: Seq(Line), closed: BOOLEAN]
Fol == [pc: {"new", "subscribe", "follow", "ended"}, stored: Seq(Line), got: Seq(Line)]

\* Lines whose bytes are counted and that are not in the table yet.
Pending == {x \in Procs : proc[x].pc = "store"}

Dropped == stage \in {"leave", "over"}

\* The counter covers what is stored and what is about to be; once forgotten, it
\* covers what came after.
SizeFits ==
  /\ IsFiniteSet(Pending)
  /\ Used <= MaxLogSize
  /\ Len(log) + Cardinality(Pending) <= Used + (IF Dropped THEN MaxLogSize ELSE 0)

\* runBuild closes the followers' channels in one stage.
StageFits == proc[Main].pc \in {"detach", "close"} => stage = "closing"

Closing(x, f) == proc[x].pc = "close" /\ f \in proc[x].to
Sending(x, f) == proc[x].pc = "send" /\ f \in proc[x].to
Unsubscribed(f) == fol[f].pc \in {"new", "subscribe"}

\* A channel is nobody's before its follower subscribes; it is in the map, or in
\* one detached list, while it is open; it is in neither once it is closed.
ChanFits(f) ==
  /\ Unsubscribed(f) =>
       /\ f \notin subs /\ ~chan[f].closed /\ chan[f].buf = <<>> /\ fol[f].got = <<>>
       /\ \A x \in Procs : ~Closing(x, f) /\ ~Sending(x, f)
  /\ fol[f].pc = "new" => fol[f].stored = <<>>
  /\ f \in subs => ~chan[f].closed /\ \A x \in Procs : ~Closing(x, f)
  /\ chan[f].closed => \A x \in Procs : ~Closing(x, f)
  /\ \A x, y \in Procs : Closing(x, f) /\ Closing(y, f) => x = y

Increasing(s, x) ==
  \A i, j \in 1 .. Len(s) : i < j /\ s[i][1] = x /\ s[j][1] = x => s[i][2] < s[j][2]

UpTo(s, x, b) == \A i \in 1 .. Len(s) : s[i][1] = x => s[i][2] <= b

Below(s, x, b) == \A i \in 1 .. Len(s) : s[i][1] = x => s[i][2] < b

\* The lines of x in s are numbered before, or not after, those in t.
Before(s, t, x) ==
  \A i \in 1 .. Len(s), j \in 1 .. Len(t) :
    s[i][1] = x /\ t[j][1] = x => s[i][2] < t[j][2]

NotAfter(s, t, x) ==
  \A i \in 1 .. Len(s), j \in 1 .. Len(t) :
    s[i][1] = x /\ t[j][1] = x => s[i][2] <= t[j][2]

\* A writer's lines are stored in their order, each once.
LogFits(x) ==
  /\ Increasing(log, x) /\ UpTo(log, x, proc[x].n)
  /\ proc[x].pc \in {"cap", "store"} => Below(log, x, proc[x].n)

\* The current line of x has not been sent to f.
Unsent(x, f) == proc[x].pc \in {"cap", "store", "copy"} \/ Sending(x, f)

\* What f was sent is in the writer's order, each line once, and not before the
\* last line f found in the table.
SeamFits(f, x) ==
  LET s == fol[f].stored
      g == fol[f].got
      b == chan[f].buf
  IN /\ Increasing(s, x) /\ UpTo(s, x, proc[x].n)
     /\ Increasing(g, x) /\ UpTo(g, x, proc[x].n)
     /\ Increasing(b, x) /\ UpTo(b, x, proc[x].n)
     /\ Before(g, b, x) /\ NotAfter(s, g, x) /\ NotAfter(s, b, x)
     /\ Unsent(x, f) => Below(g, x, proc[x].n) /\ Below(b, x, proc[x].n)

IndInv ==
  /\ TypeOK
  /\ SizeFits
  /\ StageFits
  /\ panic # "close"
  /\ \A f \in Followers : ChanFits(f)
  /\ \A x \in Writers : LogFits(x)
  /\ \A f \in Followers, x \in Writers : SeamFits(f, x)

----------------------------------------------------------------------------
(* Types, and sequences of lines *)

\* TypeOK in terms of the record sets above.
LEMMA Types ==
  TypeOK <=> /\ status \in {"pending", "running", "succeeded", "failed"}
             /\ log \in Seq(Line)
             /\ size \in Nat \cup {None}
             /\ subs \subseteq Followers
             /\ stage \in Stages
             /\ proc \in [Procs -> Proc]
             /\ chan \in [Followers -> Chan]
             /\ fol \in [Followers -> Fol]
             /\ faults \in Nat
             /\ panic \in {"none", "send", "close"}
  BY Zenon DEF TypeOK, Pcs, Proc, Chan, Fol

\* The same after a step.
LEMMA TypesNext ==
  TypeOK' <=> /\ status' \in {"pending", "running", "succeeded", "failed"}
              /\ log' \in Seq(Line)
              /\ size' \in Nat \cup {None}
              /\ subs' \subseteq Followers
              /\ stage' \in Stages
              /\ proc' \in [Procs -> Proc]
              /\ chan' \in [Followers -> Chan]
              /\ fol' \in [Followers -> Fol]
              /\ faults' \in Nat
              /\ panic' \in {"none", "send", "close"}
  BY Zenon DEF TypeOK, Pcs, Proc, Chan, Fol

\* The lines of a log are numbered.
LEMMA LineTypes ==
  ASSUME NEW s \in Seq(Line)
  PROVE  Len(s) \in Nat /\ \A i \in 1 .. Len(s) : s[i] \in Line /\ s[i][2] \in Nat
<1>1. Len(s) \in Nat /\ \A i \in 1 .. Len(s) : s[i] \in Line
  BY ElementOfSeq
<1>2. \A e \in Line : e[2] \in Nat
  BY DEF Line
<1>3. QED
  BY <1>1, <1>2

\* What an appended line does to a log.
LEMMA AppendIs ==
  ASSUME NEW s \in Seq(Line), NEW e \in Line
  PROVE  /\ Append(s, e) \in Seq(Line) /\ Len(Append(s, e)) = Len(s) + 1
         /\ \A i \in 1 .. Len(s) + 1 :
              Append(s, e)[i] = IF i <= Len(s) THEN s[i] ELSE e
         /\ e[2] \in Nat
<1>1. Append(s, e) \in Seq(Line) /\ Len(Append(s, e)) = Len(s) + 1
  BY AppendProperties
<1>2. \A i \in 1 .. Len(s) : Append(s, e)[i] = s[i]
  BY AppendProperties
<1>3. Append(s, e)[Len(s) + 1] = e
  BY AppendProperties
<1>4. Len(s) \in Nat /\ e[2] \in Nat
  BY LineTypes DEF Line
<1>5. QED
  BY <1>1, <1>2, <1>3, <1>4

\* A later line keeps the order.
LEMMA AppendIncreasing ==
  ASSUME NEW s \in Seq(Line), NEW e \in Line, NEW x, Increasing(s, x),
         e[1] = x => Below(s, x, e[2])
  PROVE  Increasing(Append(s, e), x)
  BY LineTypes, AppendIs DEF Increasing, Below

\* And its number bounds the log.
LEMMA AppendUpTo ==
  ASSUME NEW s \in Seq(Line), NEW e \in Line, NEW x, NEW b \in Nat, UpTo(s, x, b),
         e[1] = x => e[2] <= b
  PROVE  UpTo(Append(s, e), x, b)
  BY LineTypes, AppendIs DEF UpTo

\* A line of another writer leaves the strict bound.
LEMMA AppendBelow ==
  ASSUME NEW s \in Seq(Line), NEW e \in Line, NEW x, NEW b \in Nat, Below(s, x, b),
         e[1] = x => e[2] < b
  PROVE  Below(Append(s, e), x, b)
  BY LineTypes, AppendIs DEF Below

\* A line sent after what was received.
LEMMA AppendBefore ==
  ASSUME NEW g \in Seq(Line), NEW s \in Seq(Line), NEW e \in Line, NEW x,
         Before(g, s, x), e[1] = x => Below(g, x, e[2])
  PROVE  Before(g, Append(s, e), x)
  BY LineTypes, AppendIs DEF Before, Below

\* A line sent not before what was stored.
LEMMA AppendNotAfter ==
  ASSUME NEW g \in Seq(Line), NEW s \in Seq(Line), NEW e \in Line, NEW x,
         NotAfter(g, s, x), e[1] = x => UpTo(g, x, e[2])
  PROVE  NotAfter(g, Append(s, e), x)
  BY LineTypes, AppendIs DEF NotAfter, UpTo

\* Bounds may grow.
LEMMA BoundGrows ==
  ASSUME NEW s \in Seq(Line), NEW x, NEW b \in Nat, NEW c \in Nat, UpTo(s, x, b)
  PROVE  /\ b <= c => UpTo(s, x, c)
         /\ b < c => Below(s, x, c)
  BY LineTypes DEF UpTo, Below

\* An empty sequence satisfies everything.
LEMMA EmptyFits ==
  ASSUME NEW x, NEW b, NEW t
  PROVE  /\ Increasing(<<>>, x) /\ UpTo(<<>>, x, b) /\ Below(<<>>, x, b)
         /\ Before(<<>>, t, x) /\ Before(t, <<>>, x)
         /\ NotAfter(<<>>, t, x) /\ NotAfter(t, <<>>, x)
  BY DEF Increasing, UpTo, Below, Before, NotAfter

\* What is left of a channel after its first line.
LEMMA TailFits ==
  ASSUME NEW b \in Seq(Line), NEW t \in Seq(Line), Len(b) = Len(t) + 1,
         \A i \in 1 .. Len(t) : t[i] = b[i + 1],
         NEW x, NEW m \in Nat, NEW s
  PROVE  /\ Increasing(b, x) => Increasing(t, x)
         /\ UpTo(b, x, m) => UpTo(t, x, m)
         /\ Below(b, x, m) => Below(t, x, m)
         /\ Before(s, b, x) => Before(s, t, x)
         /\ NotAfter(s, b, x) => NotAfter(s, t, x)
<1>1. Len(t) \in Nat /\ \A i \in 1 .. Len(t) : i + 1 \in 1 .. Len(b)
  BY LineTypes
<1>2. ASSUME Increasing(b, x) PROVE Increasing(t, x)
  <2> SUFFICES ASSUME NEW i \in 1 .. Len(t), NEW j \in 1 .. Len(t),
                      i < j, t[i][1] = x, t[j][1] = x
               PROVE  t[i][2] < t[j][2]
    BY DEF Increasing
  <2>1. t[i] = b[i + 1] /\ t[j] = b[j + 1] /\ i + 1 < j + 1
    OBVIOUS
  <2>2. QED
    BY <1>1, <1>2, <2>1 DEF Increasing
<1>3. UpTo(b, x, m) => UpTo(t, x, m)
  BY <1>1 DEF UpTo
<1>4. Below(b, x, m) => Below(t, x, m)
  BY <1>1 DEF Below
<1>5. Before(s, b, x) => Before(s, t, x)
  BY <1>1 DEF Before
<1>6. NotAfter(s, b, x) => NotAfter(s, t, x)
  BY <1>1 DEF NotAfter
<1>7. QED
  BY <1>2, <1>3, <1>4, <1>5, <1>6

\* A response that grows by a line numbered before what is left of the channel.
LEMMA GrownBefore ==
  ASSUME NEW g \in Seq(Line), NEW e \in Line, NEW t \in Seq(Line), NEW x,
         Before(g, t, x), \A i \in 1 .. Len(t) : t[i][1] = x /\ e[1] = x => e[2] < t[i][2]
  PROVE  Before(Append(g, e), t, x)
  BY AppendIs, LineTypes DEF Before

\* What a follower holds of writer x, which is at line m: the response g, the
\* channel b and the copy s of the stored log.
Flow(g, b, s, x, m) ==
  /\ Increasing(g, x) /\ Increasing(b, x) /\ UpTo(g, x, m) /\ UpTo(b, x, m)
  /\ Before(g, b, x) /\ NotAfter(s, g, x) /\ NotAfter(s, b, x)

\* Line m of writer x has not reached the follower.
Quiet(g, b, x, m) == Below(g, x, m) /\ Below(b, x, m)

\* Receiving moves the first line of the channel to the end of the response.
LEMMA ReceiveFits ==
  ASSUME NEW g \in Seq(Line), NEW b \in Seq(Line), b # <<>>, NEW s \in Seq(Line),
         NEW x, NEW m \in Nat, Flow(g, b, s, x, m)
  PROVE  /\ Append(g, Head(b)) \in Seq(Line) /\ Tail(b) \in Seq(Line)
         /\ Flow(Append(g, Head(b)), Tail(b), s, x, m)
         /\ Quiet(g, b, x, m) => Quiet(Append(g, Head(b)), Tail(b), x, m)
<1> USE DEF Flow, Quiet
<1>0. PICK h, t : h = Append(g, Head(b)) /\ t = Tail(b)
  OBVIOUS
<1>1. /\ Len(b) \in Nat \ {0} /\ t \in Seq(Line) /\ Len(b) = Len(t) + 1
      /\ \A i \in 1 .. Len(t) : t[i] = b[i + 1]
  BY <1>0, HeadTailProperties, EmptySeq, LenProperties
<1>2. PICK e \in Line : e = b[1] /\ h = Append(g, e) /\ 1 \in 1 .. Len(b)
  BY <1>0, <1>1, LineTypes, HeadTailProperties
<1>3. Below(g, x, e[2]) \/ e[1] # x
  BY <1>2 DEF Before, Below
<1>4. UpTo(s, x, e[2]) \/ e[1] # x
  BY <1>2 DEF NotAfter, UpTo
<1>5. e[1] = x => e[2] <= m
  BY <1>2 DEF UpTo
<1>6. Below(b, x, m) => (e[1] = x => e[2] < m)
  BY <1>2 DEF Below
<1>7. \A i \in 1 .. Len(t) : t[i][1] = x /\ e[1] = x => e[2] < t[i][2]
  <2> SUFFICES ASSUME NEW i \in 1 .. Len(t), t[i][1] = x, e[1] = x
               PROVE  e[2] < t[i][2]
    OBVIOUS
  <2>1. t[i] = b[i + 1] /\ i + 1 \in 1 .. Len(b) /\ 1 < i + 1
    BY <1>1
  <2>2. QED
    BY <1>2, <2>1 DEF Increasing
<1>8. /\ Increasing(t, x) /\ UpTo(t, x, m) /\ Before(g, t, x) /\ NotAfter(s, t, x)
      /\ Below(b, x, m) => Below(t, x, m)
  BY <1>1, TailFits
<1>9. Before(h, t, x)
  BY <1>1, <1>2, <1>7, <1>8, GrownBefore
<1>10. h \in Seq(Line) /\ Increasing(h, x) /\ UpTo(h, x, m)
  BY <1>2, <1>3, <1>5, AppendIs, AppendIncreasing, AppendUpTo
<1>11. NotAfter(s, h, x)
  BY <1>2, <1>4, AppendNotAfter
<1>12. Below(g, x, m) /\ Below(b, x, m) => Below(h, x, m)
  BY <1>2, <1>6, AppendBelow
<1>13. Flow(h, t, s, x, m) /\ (Quiet(g, b, x, m) => Quiet(h, t, x, m))
  BY <1>8, <1>9, <1>10, <1>11, <1>12
<1> HIDE DEF Flow, Quiet
<1>14. QED
  BY <1>0, <1>1, <1>10, <1>13

----------------------------------------------------------------------------
(* What a step leaves alone *)

StillTyped ==
  /\ status' \in {"pending", "running", "succeeded", "failed"}
  /\ size' \in Nat \cup {None} /\ stage' \in Stages /\ faults' \in Nat

\* The log, the channels and the followers stay.
Still == UNCHANGED <<log, subs, chan, fol, panic>>

\* A writer's step that keeps the order of its lines: a new line has a new number,
\* and a line is sent only after the list of followers was copied.
OrderKept(x, p) ==
  /\ p.n >= proc[x].n
  /\ p.pc \in {"cap", "store"} => p.n > proc[x].n \/ proc[x].pc \in {"cap", "store"}
  /\ p.pc = "copy" => p.n > proc[x].n \/ proc[x].pc \in {"cap", "store", "copy"}
  /\ p.pc = "send" => \/ proc[x].pc = "copy" /\ p.to \subseteq subs
                      \/ proc[x].pc = "send" /\ p.to \subseteq proc[x].to

\* A failed statement leaves a natural number of failures.
LEMMA FaultTyped ==
  ASSUME TypeOK, Fault \/ UNCHANGED faults
  PROVE  faults' \in Nat
  BY DEF TypeOK, Fault

\* A process that is sent on keeps its number and its list.
LEMMA GotoIs ==
  ASSUME TypeOK, NEW x \in Procs, NEW l \in Pcs, Goto(x, l)
  PROVE  \E p \in Proc : /\ proc' = [proc EXCEPT ![x] = p]
                         /\ p.pc = l /\ p.n = proc[x].n /\ p.to = proc[x].to
<1> DEFINE p == [proc[x] EXCEPT !.pc = l]
<1>1. proc[x] \in Proc
  BY Types
<1>2. p \in Proc /\ p.pc = l /\ p.n = proc[x].n /\ p.to = proc[x].to
  BY <1>1 DEF Proc
<1>3. proc' = [proc EXCEPT ![x] = p]
  BY DEF Goto
<1> HIDE DEF p
<1>4. QED
  BY <1>2, <1>3

\* A new line has the next number.
LEMMA WriteIs ==
  ASSUME TypeOK, NEW x \in Procs, Write(x)
  PROVE  \E p \in Proc : /\ proc' = [proc EXCEPT ![x] = p]
                         /\ p.pc = "cap" /\ p.n = proc[x].n + 1 /\ p.to = proc[x].to
<1> DEFINE p == [proc[x] EXCEPT !.pc = "cap", !.n = proc[x].n + 1]
<1>1. proc[x] \in Proc /\ proc[x].n + 1 \in Nat
  BY Types DEF Proc
<1>2. p \in Proc /\ p.pc = "cap" /\ p.n = proc[x].n + 1 /\ p.to = proc[x].to
  BY <1>1 DEF Proc, Pcs
<1>3. proc' = [proc EXCEPT ![x] = p]
  BY DEF Write
<1> HIDE DEF p
<1>4. QED
  BY <1>2, <1>3

\* A step of one process, as the others see it.
Moved(x, p) ==
  /\ \A y \in Procs : y # x => proc'[y] = proc[y]
  /\ proc'[x] = p
  /\ proc' \in [Procs -> Proc]

\* Such a step replaces one entry.
LEMMA MovedIs ==
  ASSUME TypeOK, NEW x \in Procs, NEW p \in Proc, proc' = [proc EXCEPT ![x] = p]
  PROVE  Moved(x, p)
  BY Types DEF Moved

\* The stored lines stay in order when a process moves.
LEMMA LogMoves ==
  ASSUME IndInv, NEW x \in Procs, NEW p \in Proc, Moved(x, p), UNCHANGED log,
         OrderKept(x, p), NEW y \in Writers
  PROVE  LogFits(y)'
<1>1. /\ LogFits(y) /\ y \in Procs /\ log \in Seq(Line) /\ proc[y].n \in Nat
      /\ p.n \in Nat
  BY Types DEF IndInv, Procs, Proc
<1>2. CASE y # x
  BY <1>1, <1>2 DEF LogFits, Moved
<1>3. CASE y = x
  <2>1. UpTo(log, x, p.n)
    BY <1>1, <1>3, BoundGrows DEF LogFits, OrderKept
  <2>2. p.pc \in {"cap", "store"} => Below(log, x, p.n)
    <3>1. CASE p.n > proc[x].n
      BY <1>1, <1>3, <3>1, BoundGrows DEF LogFits
    <3>2. CASE p.n = proc[x].n
      BY <1>1, <1>3, <3>2 DEF LogFits, OrderKept
    <3>3. QED
      BY <1>1, <1>3, <3>1, <3>2 DEF OrderKept
  <2>3. QED
    BY <1>1, <1>3, <2>1, <2>2 DEF LogFits, Moved
<1>4. QED
  BY <1>2, <1>3

\* So do the lines a follower has been sent.
LEMMA SeamMoves ==
  ASSUME IndInv, NEW x \in Procs, NEW p \in Proc, Moved(x, p), UNCHANGED fol,
         OrderKept(x, p), NEW f \in Followers, NEW y \in Writers,
         chan'[f].buf = chan[f].buf
  PROVE  SeamFits(f, y)'
<1> DEFINE s == fol[f].stored
           g == fol[f].got
           b == chan[f].buf
<1>1. /\ SeamFits(f, y) /\ y \in Procs /\ proc[y].n \in Nat /\ p.n \in Nat
      /\ s \in Seq(Line) /\ g \in Seq(Line) /\ b \in Seq(Line)
  BY Types DEF IndInv, Procs, Proc, Fol, Chan
<1>2. CASE y # x
  BY <1>1, <1>2 DEF SeamFits, Moved, Unsent, Sending
<1>3. CASE y = x
  <2>1. UpTo(s, x, p.n) /\ UpTo(g, x, p.n) /\ UpTo(b, x, p.n)
    BY <1>1, <1>3, BoundGrows DEF SeamFits, OrderKept
  <2>2. p.n > proc[x].n => Below(g, x, p.n) /\ Below(b, x, p.n)
    BY <1>1, <1>3, BoundGrows DEF SeamFits
  <2>3. (p.pc \in {"cap", "store", "copy"} \/ (p.pc = "send" /\ f \in p.to))
          => p.n > proc[x].n \/ Unsent(x, f)
    BY DEF OrderKept, Unsent, Sending
  <2>4. p.n = proc[x].n /\ Unsent(x, f) => Below(g, x, p.n) /\ Below(b, x, p.n)
    BY <1>1, <1>3 DEF SeamFits
  <2>5. Unsent(x, f)' => Below(g, x, p.n) /\ Below(b, x, p.n)
    <3>1. Unsent(x, f)' =>
            p.pc \in {"cap", "store", "copy"} \/ (p.pc = "send" /\ f \in p.to)
      BY DEF Unsent, Sending, Moved
    <3>2. p.n > proc[x].n \/ p.n = proc[x].n
      BY <1>1, <1>3 DEF OrderKept
    <3>3. QED
      BY <2>2, <2>3, <2>4, <3>1, <3>2
  <2>6. QED
    BY <1>1, <1>3, <2>1, <2>5 DEF SeamFits, Moved
<1>4. QED
  BY <1>2, <1>3

\* A channel stays where it is when a process moves without taking a list.
LEMMA ChanMoves ==
  ASSUME IndInv, NEW x \in Procs, NEW p \in Proc, Moved(x, p),
         UNCHANGED <<subs, fol>>, OrderKept(x, p),
         p.pc = "close" => proc[x].pc = "close" /\ p.to \subseteq proc[x].to,
         NEW f \in Followers, chan'[f].closed = chan[f].closed,
         Unsubscribed(f) => chan'[f].buf = chan[f].buf
  PROVE  ChanFits(f)'
<1>1. ChanFits(f)
  BY DEF IndInv
<1>2. \A y \in Procs : Closing(y, f)' => Closing(y, f)
  BY DEF Closing, Moved
<1>3. Unsubscribed(f) => \A y \in Procs : ~Sending(y, f)'
  BY <1>1 DEF Sending, Moved, OrderKept, ChanFits
<1>4. Unsubscribed(f)' = Unsubscribed(f)
  BY DEF Unsubscribed
<1>5. QED
  BY <1>1, <1>2, <1>3, <1>4 DEF ChanFits

\* A process step that leaves log, channels and followers alone.
LEMMA MoveCloses ==
  ASSUME IndInv, NEW x \in Procs, NEW p \in Proc, proc' = [proc EXCEPT ![x] = p],
         Still, StillTyped, SizeFits', StageFits', OrderKept(x, p),
         p.pc = "close" => proc[x].pc = "close" /\ p.to \subseteq proc[x].to
  PROVE  IndInv'
<1>1. Moved(x, p)
  BY MovedIs DEF IndInv
<1>2. TypeOK'
  BY <1>1, Types, TypesNext DEF Still, StillTyped, Moved, IndInv
<1>3. \A f \in Followers : ChanFits(f)'
  BY <1>1, ChanMoves DEF Still
<1>4. \A y \in Writers : LogFits(y)'
  BY <1>1, LogMoves DEF Still
<1>5. \A f \in Followers, y \in Writers : SeamFits(f, y)'
  BY <1>1, SeamMoves DEF Still
<1>6. QED
  BY <1>2, <1>3, <1>4, <1>5 DEF IndInv, Still

\* A step that moves no process.
LEMMA RestCloses ==
  ASSUME IndInv, Still, UNCHANGED proc, StillTyped, SizeFits', StageFits'
  PROVE  IndInv'
<1>1. TypeOK'
  BY Types, TypesNext DEF Still, StillTyped, IndInv
<1>2. \A f \in Followers : ChanFits(f)'
  BY DEF IndInv, Still, ChanFits, Unsubscribed, Closing, Sending
<1>3. \A y \in Writers : LogFits(y)'
  BY DEF IndInv, Still, LogFits
<1>4. \A f \in Followers, y \in Writers : SeamFits(f, y)'
  BY DEF IndInv, Still, SeamFits, Unsent, Sending
<1>5. QED
  BY <1>1, <1>2, <1>3, <1>4 DEF IndInv, Still

\* The counter is right when no line is counted, stored or forgotten.
LEMMA SizeStill ==
  ASSUME SizeFits, UNCHANGED <<log, size>>, Pending' = Pending, Dropped' = Dropped
  PROVE  SizeFits'
<1>1. Used' = Used
  BY DEF Used
<1>2. QED
  BY <1>1 DEF SizeFits

\* The lines about to be stored are the same when a process moves between other places.
LEMMA PendingMoves ==
  ASSUME NEW x \in Procs, NEW p \in Proc, Moved(x, p)
  PROVE  /\ p.pc # "store" /\ proc[x].pc # "store" => Pending' = Pending
         /\ p.pc = "store" => Pending' = Pending \cup {x}
         /\ p.pc # "store" => Pending' = Pending \ {x}
  BY DEF Pending, Moved

----------------------------------------------------------------------------
(* Writing a line *)

\* runBuild is closing when it says so.
LEMMA StageMoves ==
  ASSUME IndInv, NEW x \in Procs, NEW p \in Proc, Moved(x, p),
         IF x = Main THEN p.pc \in {"detach", "close"} => stage' = "closing"
                     ELSE UNCHANGED stage
  PROVE  StageFits'
  BY DEF StageFits, Moved, IndInv, Procs, Writers

\* Only a cancellation goes from a line to the channels.
LEMMA AfterAppendIs ==
  ASSUME NEW x \in Procs
  PROVE  /\ AfterAppend(x) \in {"detach", "copy"} /\ AfterAppend(x) \in Pcs
         /\ x = Main => AfterAppend(x) = "copy"
  BY BuildLogsAssumption DEF AfterAppend, Pcs, Writers

\* A process enters a line: StreamLine, BuildLine, ClosingLine and MarkCancelled.
LEMMA WriteCloses ==
  ASSUME IndInv, NEW x \in Procs, Write(x), proc[x].pc # "store",
         Still, StillTyped, UNCHANGED size, Dropped' = Dropped,
         x = Main \/ UNCHANGED stage
  PROVE  IndInv'
<1>1. PICK p \in Proc : /\ proc' = [proc EXCEPT ![x] = p]
                        /\ p.pc = "cap" /\ p.n = proc[x].n + 1 /\ p.to = proc[x].to
  BY WriteIs DEF IndInv
<1>2. proc[x].n \in Nat
  BY Types DEF IndInv, Proc
<1>3. OrderKept(x, p)
  BY <1>1, <1>2 DEF OrderKept
<1>4. SizeFits'
  BY <1>1, MovedIs, PendingMoves, SizeStill DEF IndInv, Still
<1>5. StageFits'
  BY <1>1, MovedIs, StageMoves DEF IndInv
<1>6. QED
  BY <1>1, <1>3, <1>4, <1>5, MoveCloses

\* A process goes to a place where it holds no line and no list.
LEMMA GotoCloses ==
  ASSUME IndInv, NEW x \in Procs, NEW l \in {"idle", "detach", "mark", "done"},
         Goto(x, l), proc[x].pc # "store",
         Still, StillTyped, UNCHANGED size, Dropped' = Dropped,
         IF x = Main THEN l = "detach" => stage' = "closing" ELSE UNCHANGED stage
  PROVE  IndInv'
<1>1. PICK p \in Proc : /\ proc' = [proc EXCEPT ![x] = p]
                        /\ p.pc = l /\ p.n = proc[x].n /\ p.to = proc[x].to
  BY GotoIs DEF IndInv, Pcs
<1>2. proc[x].n \in Nat
  BY Types DEF IndInv, Proc
<1>3. OrderKept(x, p)
  BY <1>1, <1>2 DEF OrderKept
<1>4. SizeFits'
  BY <1>1, MovedIs, PendingMoves, SizeStill DEF IndInv, Still
<1>5. StageFits'
  BY <1>1, MovedIs, StageMoves DEF IndInv
<1>6. QED
  BY <1>1, <1>3, <1>4, <1>5, MoveCloses

\* A line of a stream.
LEMMA StreamLineOK ==
  ASSUME IndInv, NEW x \in Procs, StreamLine(x)
  PROVE  IndInv'
<1>1. Still /\ StillTyped /\ UNCHANGED size /\ Dropped' = Dropped
  BY Types DEF StreamLine, quiet, IndInv, Still, StillTyped, Dropped
<1>2. QED
  BY <1>1, WriteCloses DEF StreamLine, At

\* The cap counts a line or drops it.
LEMMA CapLineOK ==
  ASSUME IndInv, NEW x \in Procs, CapLine(x)
  PROVE  IndInv'
<1>1. /\ proc[x].pc = "cap" /\ proc[x].n \in Nat /\ TypeOK /\ SizeFits
      /\ size \in Nat \cup {None} /\ Used \in Nat /\ MaxLogSize \in Nat
      /\ log \in Seq(Line) /\ Len(log) \in Nat
  BY Types, LineTypes, BuildLogsAssumption DEF CapLine, At, IndInv, Proc, Used
<1>2. Still /\ UNCHANGED <<status, stage, faults>> /\ Dropped' = Dropped
  BY DEF CapLine, quiet, Still, Dropped
<1>3. CASE Used + 1 > MaxLogSize
  <2>1. Goto(x, AfterAppend(x)) /\ UNCHANGED size
    BY <1>3 DEF CapLine
  <2>2. /\ AfterAppend(x) \in {"detach", "copy"} /\ AfterAppend(x) \in Pcs
        /\ x = Main => AfterAppend(x) = "copy"
    BY AfterAppendIs
  <2>3. PICK p \in Proc : /\ proc' = [proc EXCEPT ![x] = p]
                          /\ p.pc = AfterAppend(x) /\ p.n = proc[x].n
    BY <1>1, <2>1, <2>2, GotoIs
  <2>4. OrderKept(x, p)
    BY <1>1, <2>2, <2>3 DEF OrderKept
  <2>5. SizeFits'
    BY <1>1, <1>2, <2>1, <2>2, <2>3, MovedIs, PendingMoves, SizeStill DEF Still
  <2>6. StillTyped
    BY <1>1, <1>2, <2>1, Types DEF StillTyped
  <2>7. StageFits'
    BY <1>1, <1>2, <2>2, <2>3, MovedIs, StageMoves
  <2>8. QED
    BY <1>2, <2>2, <2>3, <2>4, <2>5, <2>6, <2>7, MoveCloses
<1>4. CASE ~(Used + 1 > MaxLogSize)
  <2>1. Goto(x, "store") /\ size' = Used + 1
    BY <1>4 DEF CapLine
  <2>2. PICK p \in Proc : /\ proc' = [proc EXCEPT ![x] = p]
                          /\ p.pc = "store" /\ p.n = proc[x].n
    BY <1>1, <2>1, GotoIs DEF Pcs
  <2>3. OrderKept(x, p)
    BY <1>1, <2>2 DEF OrderKept
  <2>4. Pending' = Pending \cup {x} /\ x \notin Pending
    BY <1>1, <2>2, MovedIs, PendingMoves DEF Pending
  <2>5. /\ IsFiniteSet(Pending') /\ Cardinality(Pending') = Cardinality(Pending) + 1
        /\ Cardinality(Pending) \in Nat
    BY <1>1, <2>4, FS_AddElement, FS_CardinalityType DEF SizeFits
  <2>6. Used' = Used + 1
    BY <1>1, <2>1, BuildLogsAssumption DEF Used
  <2>7. SizeFits'
    BY <1>1, <1>2, <1>4, <2>5, <2>6 DEF SizeFits, Still
  <2>8. StillTyped
    BY <1>1, <1>2, <2>1, Types DEF StillTyped
  <2>9. StageFits'
    BY <1>1, <1>2, <2>2, MovedIs, StageMoves
  <2>10. QED
    BY <1>2, <2>2, <2>3, <2>7, <2>8, <2>9, MoveCloses
<1>5. QED
  BY <1>3, <1>4

\* A counted line is stored, or lost.
LEMMA StoreLineOK ==
  ASSUME IndInv, NEW x \in Procs, StoreLine(x)
  PROVE  IndInv'
<1> DEFINE e == <<x, proc[x].n>>
<1>1. /\ proc[x].pc = "store" /\ proc[x].n \in Nat /\ TypeOK /\ SizeFits
      /\ log \in Seq(Line) /\ Len(log) \in Nat /\ Used \in Nat /\ MaxLogSize \in Nat
  BY Types, LineTypes, BuildLogsAssumption DEF StoreLine, At, IndInv, Proc, Used
<1>2. /\ UNCHANGED <<status, size, subs, stage, chan, fol, panic>>
      /\ Goto(x, AfterAppend(x)) /\ (Fault \/ UNCHANGED faults)
      /\ (log' = log \/ log' = Append(log, e))
  BY DEF StoreLine
<1>3. /\ AfterAppend(x) \in {"detach", "copy"} /\ AfterAppend(x) \in Pcs
      /\ x = Main => AfterAppend(x) = "copy"
  BY AfterAppendIs
<1>4. PICK p \in Proc : /\ proc' = [proc EXCEPT ![x] = p]
                        /\ p.pc = AfterAppend(x) /\ p.n = proc[x].n
  BY <1>1, <1>2, <1>3, GotoIs
<1>5. Moved(x, p) /\ OrderKept(x, p)
  <2>1. Moved(x, p)
    BY <1>1, <1>4, MovedIs
  <2>2. OrderKept(x, p)
    BY <1>1, <1>3, <1>4 DEF OrderKept
  <2>3. QED
    BY <2>1, <2>2
<1>6. e \in Line /\ e[1] = x /\ e[2] = proc[x].n
  BY <1>1 DEF Line
<1> HIDE DEF e
<1>7. log' \in Seq(Line) /\ Len(log') <= Len(log) + 1 /\ Len(log') \in Nat
  BY <1>1, <1>2, <1>6, AppendIs
<1>8. TypeOK'
  BY <1>1, <1>2, <1>5, <1>7, Types, TypesNext, FaultTyped DEF Moved
<1>9. SizeFits'
  <2>1. Pending' = Pending \ {x} /\ x \in Pending
    BY <1>1, <1>3, <1>4, <1>5, PendingMoves DEF Pending
  <2>2. /\ IsFiniteSet(Pending') /\ Cardinality(Pending') = Cardinality(Pending) - 1
        /\ Cardinality(Pending) \in Nat
    BY <1>1, <2>1, FS_RemoveElement, FS_CardinalityType DEF SizeFits
  <2>3. Used' = Used /\ Dropped' = Dropped
    BY <1>2 DEF Used, Dropped
  <2>4. QED
    BY <1>1, <1>7, <2>2, <2>3 DEF SizeFits
<1>10. ASSUME NEW y \in Writers
       PROVE  LogFits(y)'
  <2>1. /\ LogFits(y) /\ y \in Procs /\ proc[y].n \in Nat /\ proc[y].pc \in Pcs
        /\ proc'[y].n = proc[y].n
        /\ proc'[y].pc \in {"cap", "store"} => y # x /\ proc'[y] = proc[y]
    BY <1>1, <1>3, <1>4, <1>5, Types DEF IndInv, Procs, Proc, Moved
  <2>2. x = y => Below(log, y, e[2])
    BY <1>1, <1>6, <2>1 DEF LogFits
  <2>3. Increasing(log', y)
    BY <1>1, <1>2, <1>6, <2>1, <2>2, AppendIncreasing DEF LogFits
  <2>4. UpTo(log', y, proc[y].n)
    <3>1. e[1] = y => e[2] <= proc[y].n
      BY <1>6, <2>1
    <3>2. UpTo(log, y, proc[y].n)
      BY <2>1 DEF LogFits
    <3>3. QED
      BY <1>1, <1>2, <1>6, <2>1, <3>1, <3>2, AppendUpTo
  <2>5. proc'[y].pc \in {"cap", "store"} => Below(log', y, proc[y].n)
    BY <1>1, <1>2, <1>6, <2>1, AppendBelow DEF LogFits
  <2>6. QED
    BY <2>1, <2>3, <2>4, <2>5 DEF LogFits
<1>11. \A f \in Followers : ChanFits(f)'
  BY <1>2, <1>3, <1>4, <1>5, ChanMoves
<1>12. \A f \in Followers, y \in Writers : SeamFits(f, y)'
  BY <1>2, <1>5, SeamMoves
<1>13. StageFits'
  BY <1>2, <1>3, <1>4, <1>5, StageMoves
<1>14. QED
  BY <1>2, <1>8, <1>9, <1>10, <1>11, <1>12, <1>13 DEF IndInv

\* The list of followers is copied.
LEMMA CopySubsOK ==
  ASSUME IndInv, NEW x \in Procs, CopySubs(x)
  PROVE  IndInv'
<1> DEFINE p == [proc[x] EXCEPT !.pc = "send", !.to = subs]
<1>1. proc[x] \in Proc /\ subs \subseteq Followers /\ proc[x].pc = "copy"
  BY Types DEF IndInv, CopySubs, At
<1>2. p \in Proc /\ p.pc = "send" /\ p.to = subs /\ p.n = proc[x].n /\ p.n \in Nat
  BY <1>1 DEF Proc, Pcs
<1>3. proc' = [proc EXCEPT ![x] = p]
  BY DEF CopySubs
<1> HIDE DEF p
<1>4. OrderKept(x, p)
  BY <1>1, <1>2 DEF OrderKept
<1>5. Still /\ StillTyped /\ UNCHANGED size /\ Dropped' = Dropped
  BY Types DEF CopySubs, quiet, IndInv, Still, StillTyped, Dropped
<1>6. SizeFits'
  BY <1>1, <1>2, <1>3, <1>5, MovedIs, PendingMoves, SizeStill DEF IndInv, Still
<1>7. StageFits'
  BY <1>2, <1>3, <1>5, MovedIs, StageMoves DEF IndInv, CopySubs
<1>8. QED
  BY <1>2, <1>3, <1>4, <1>5, <1>6, <1>7, MoveCloses

\* A line that arrives in a channel is the next of its writer there, and not before
\* what the follower found in the table.
LEMMA SentFits ==
  ASSUME IndInv, NEW x \in Procs, NEW p \in Proc, Moved(x, p), UNCHANGED fol,
         NEW f \in Followers, Sending(x, f), p.pc = "send", p.n = proc[x].n,
         f \notin p.to, chan'[f].buf = Append(chan[f].buf, <<x, proc[x].n>>),
         NEW y \in Writers
  PROVE  SeamFits(f, y)'
<1> DEFINE s == fol[f].stored
           g == fol[f].got
           b == chan[f].buf
<1>1. /\ SeamFits(f, y) /\ y \in Procs /\ proc[y].n \in Nat /\ proc[x].n \in Nat
      /\ s \in Seq(Line) /\ g \in Seq(Line) /\ b \in Seq(Line)
  BY Types DEF IndInv, Procs, Proc, Fol, Chan
<1>2. PICK e \in Line : e = <<x, proc[x].n>>
  BY <1>1 DEF Line
<1>3. e[1] = x /\ e[2] = proc[x].n /\ chan'[f].buf = Append(b, e)
  BY <1>2
<1>4. proc'[y].n = proc[y].n
  BY <1>1 DEF Moved
<1>5. e[1] = y => /\ Below(g, y, e[2]) /\ Below(b, y, e[2])
                  /\ UpTo(s, y, e[2]) /\ e[2] <= proc[y].n
  BY <1>1, <1>3 DEF SeamFits, Unsent
<1>6. Increasing(Append(b, e), y)
  BY <1>1, <1>5, AppendIncreasing DEF SeamFits
<1>7. UpTo(Append(b, e), y, proc[y].n)
  <2>1. UpTo(b, y, proc[y].n)
    BY <1>1 DEF SeamFits
  <2>2. QED
    BY <1>1, <1>5, <2>1, AppendUpTo
<1>8. Before(g, Append(b, e), y)
  BY <1>1, <1>5, AppendBefore DEF SeamFits
<1>9. NotAfter(s, Append(b, e), y)
  BY <1>1, <1>5, AppendNotAfter DEF SeamFits
<1>10. Unsent(y, f)' => y # x /\ Unsent(y, f)
  BY <1>1 DEF Unsent, Sending, Moved
<1>11. Unsent(y, f)' => Below(g, y, proc[y].n) /\ Below(Append(b, e), y, proc[y].n)
  <2> SUFFICES ASSUME Unsent(y, f)'
               PROVE  Below(g, y, proc[y].n) /\ Below(Append(b, e), y, proc[y].n)
    OBVIOUS
  <2>1. y # x /\ Below(g, y, proc[y].n) /\ Below(b, y, proc[y].n)
    BY <1>1, <1>10 DEF SeamFits
  <2>2. QED
    BY <1>1, <1>3, <2>1, AppendBelow
<1>12. QED
  BY <1>1, <1>3, <1>4, <1>6, <1>7, <1>8, <1>9, <1>11 DEF SeamFits

\* One send: the line is put in the channel, or lost; a closed channel ends the process.
LEMMA SendLineOK ==
  ASSUME IndInv, NEW x \in Procs, SendLine(x)
  PROVE  IndInv'
<1>1. /\ proc[x] \in Proc /\ proc[x].pc = "send" /\ proc[x].n \in Nat /\ TypeOK
      /\ UNCHANGED <<status, log, size, subs, stage, fol, faults>>
      /\ panic # "close" /\ SizeFits /\ proc[x].to \subseteq Followers
      /\ chan \in [Followers -> Chan]
  BY Types DEF IndInv, SendLine, At, Proc
<1>2. Dropped' = Dropped /\ StillTyped
  BY <1>1, Types DEF Dropped, StillTyped
<1>3. CASE Goto(x, "idle") /\ UNCHANGED <<chan, panic>>
  BY <1>1, <1>2, <1>3, GotoCloses DEF Still
<1>4. ASSUME NEW f \in proc[x].to,
             proc' = [proc EXCEPT ![x].to = @ \ {f}],
             panic' = IF chan[f].closed THEN "send" ELSE panic,
             chan' = IF ~chan[f].closed /\ Len(chan[f].buf) < ChanSize
                       THEN [chan EXCEPT ![f].buf = Append(@, <<x, proc[x].n>>)]
                       ELSE chan
      PROVE  IndInv'
  <2> DEFINE p == [proc[x] EXCEPT !.to = proc[x].to \ {f}]
             e == <<x, proc[x].n>>
             c == [chan[f] EXCEPT !.buf = Append(chan[f].buf, e)]
  <2>1. f \in Followers /\ chan[f] \in Chan /\ Sending(x, f)
    BY <1>1, <1>4 DEF Sending
  <2>2. /\ p \in Proc /\ p.pc = "send" /\ p.n = proc[x].n /\ p.to = proc[x].to \ {f}
    BY <1>1 DEF Proc
  <2>3. proc' = [proc EXCEPT ![x] = p]
    BY <1>4
  <2> HIDE DEF p
  <2>4. Moved(x, p)
    BY <1>1, <2>2, <2>3, MovedIs
  <2>5. OrderKept(x, p)
    BY <1>1, <2>2 DEF OrderKept
  <2>6. chan[f].buf \in Seq(Line) /\ e \in Line
    BY <1>1, <2>1 DEF Chan, Line
  <2>7. Append(chan[f].buf, e) \in Seq(Line)
    BY <2>6, AppendIs
  <2>8. /\ c \in Chan /\ c.closed = chan[f].closed
        /\ c.buf = Append(chan[f].buf, e)
    BY <2>1, <2>7, Zenon DEF Chan
  <2>9. chan' = chan \/ chan' = [chan EXCEPT ![f] = c]
    BY <1>4
  <2> HIDE DEF c
  <2>10. /\ chan' \in [Followers -> Chan]
         /\ \A h \in Followers : chan'[h].closed = chan[h].closed
         /\ \A h \in Followers : h # f => chan'[h] = chan[h]
         /\ \/ chan'[f].buf = chan[f].buf
            \/ chan'[f].buf = Append(chan[f].buf, e)
    BY <1>1, <2>1, <2>8, <2>9
  <2>11. TypeOK'
    BY <1>1, <1>2, <1>4, <2>4, <2>10, Types, TypesNext DEF Moved, StillTyped
  <2>12. SizeFits'
    BY <1>1, <1>2, <2>2, <2>4, PendingMoves, SizeStill
  <2>13. StageFits'
    BY <1>1, <2>2, <2>4, StageMoves
  <2>14. ~Unsubscribed(f)
    BY <2>1 DEF IndInv, ChanFits
  <2>15. ASSUME NEW h \in Followers PROVE ChanFits(h)'
    BY <1>1, <2>2, <2>4, <2>5, <2>10, <2>14, ChanMoves
  <2>16. \A y \in Writers : LogFits(y)'
    BY <1>1, <2>2, <2>4, <2>5, LogMoves
  <2>17. ASSUME NEW h \in Followers, NEW y \in Writers PROVE SeamFits(h, y)'
    <3>1. CASE chan'[h].buf = chan[h].buf
      BY <1>1, <2>2, <2>4, <2>5, <3>1, SeamMoves
    <3>2. CASE h = f /\ chan'[f].buf = Append(chan[f].buf, e)
      BY <1>1, <2>1, <2>2, <2>4, <3>2, SentFits
    <3>3. QED
      BY <2>10, <3>1, <3>2
  <2>18. panic' # "close"
    BY <1>1, <1>4
  <2>19. QED
    BY <2>11, <2>12, <2>13, <2>15, <2>16, <2>17, <2>18 DEF IndInv
<1>5. QED
  BY <1>3, <1>4 DEF SendLine

----------------------------------------------------------------------------
(* Closing the channels *)

\* The list is taken out of the map: its channels are now this process's alone.
LEMMA DetachSubsOK ==
  ASSUME IndInv, NEW x \in Procs, DetachSubs(x)
  PROVE  IndInv'
<1> DEFINE p == [proc[x] EXCEPT !.pc = "close", !.to = subs]
<1>1. /\ proc[x] \in Proc /\ subs \subseteq Followers /\ proc[x].pc = "detach" /\ TypeOK
      /\ SizeFits /\ StageFits /\ subs' = {}
      /\ UNCHANGED <<status, log, size, stage, chan, fol, faults, panic>>
  BY Types DEF IndInv, DetachSubs, At, quiet
<1>2. p \in Proc /\ p.pc = "close" /\ p.to = subs /\ p.n = proc[x].n /\ p.n \in Nat
  BY <1>1 DEF Proc, Pcs
<1>3. proc' = [proc EXCEPT ![x] = p]
  BY DEF DetachSubs
<1> HIDE DEF p
<1>4. Moved(x, p)
  BY <1>1, <1>2, <1>3, MovedIs
<1>5. OrderKept(x, p)
  BY <1>2 DEF OrderKept
<1>6. TypeOK'
  BY <1>1, <1>4, Types, TypesNext DEF Moved
<1>7. SizeFits'
  BY <1>1, <1>2, <1>4, PendingMoves, SizeStill DEF Dropped
<1>8. StageFits'
  BY <1>1, <1>2, <1>4, StageMoves DEF StageFits
<1>9. ASSUME NEW f \in Followers PROVE ChanFits(f)'
  <2>1. ChanFits(f)
    BY DEF IndInv
  <2>2. \A y \in Procs : Closing(y, f)' => Closing(y, f) \/ (y = x /\ f \in subs)
    BY <1>2, <1>4 DEF Closing, Moved
  <2>3. \A y \in Procs : Sending(y, f)' => Sending(y, f)
    BY <1>2, <1>4 DEF Sending, Moved
  <2>4. Unsubscribed(f)' = Unsubscribed(f)
    BY <1>1 DEF Unsubscribed
  <2>5. QED
    BY <1>1, <2>1, <2>2, <2>3, <2>4 DEF ChanFits
<1>10. \A y \in Writers : LogFits(y)'
  BY <1>1, <1>2, <1>4, <1>5, LogMoves
<1>11. \A f \in Followers, y \in Writers : SeamFits(f, y)'
  BY <1>1, <1>2, <1>4, <1>5, SeamMoves
<1>12. QED
  BY <1>1, <1>6, <1>7, <1>8, <1>9, <1>10, <1>11 DEF IndInv

\* One close: the channel was open and in this list only.
LEMMA CloseSubsOK ==
  ASSUME IndInv, NEW x \in Procs, CloseSubs(x)
  PROVE  IndInv'
<1>1. /\ proc[x] \in Proc /\ proc[x].pc = "close" /\ proc[x].n \in Nat /\ TypeOK
      /\ UNCHANGED <<status, log, size, subs, fol, faults>>
      /\ panic # "close" /\ SizeFits /\ StageFits /\ proc[x].to \subseteq Followers
      /\ chan \in [Followers -> Chan] /\ stage \in Stages
  BY Types DEF IndInv, CloseSubs, At, Proc
<1>2. CASE /\ Goto(x, "done") /\ stage' = (IF x = Main THEN "drop" ELSE stage)
           /\ UNCHANGED <<chan, panic>>
  <2>1. Dropped' = Dropped
    BY <1>1, <1>2 DEF Dropped, StageFits
  <2>2. StillTyped
    BY <1>1, <1>2, Types DEF StillTyped, Stages
  <2>3. QED
    BY <1>1, <1>2, <2>1, <2>2, GotoCloses DEF Still
<1>3. ASSUME NEW f \in proc[x].to,
             proc' = [proc EXCEPT ![x].to = @ \ {f}],
             panic' = IF chan[f].closed THEN "close" ELSE panic,
             chan' = [chan EXCEPT ![f].closed = TRUE],
             UNCHANGED stage
      PROVE  IndInv'
  <2> DEFINE p == [proc[x] EXCEPT !.to = proc[x].to \ {f}]
             c == [chan[f] EXCEPT !.closed = TRUE]
  <2>1. f \in Followers /\ chan[f] \in Chan /\ Closing(x, f) /\ ChanFits(f)
    BY <1>1, <1>3 DEF Closing, IndInv
  <2>2. ~chan[f].closed /\ panic' = panic
    BY <1>3, <2>1 DEF ChanFits
  <2>3. /\ p \in Proc /\ p.pc = "close" /\ p.n = proc[x].n /\ p.to = proc[x].to \ {f}
    BY <1>1 DEF Proc
  <2>4. proc' = [proc EXCEPT ![x] = p]
    BY <1>3
  <2> HIDE DEF p
  <2>5. Moved(x, p)
    BY <1>1, <2>3, <2>4, MovedIs
  <2>6. OrderKept(x, p)
    BY <1>1, <2>3 DEF OrderKept
  <2>7. c \in Chan /\ c.buf = chan[f].buf
    BY <2>1, Zenon DEF Chan
  <2>8. chan' = [chan EXCEPT ![f] = c]
    BY <1>3
  <2> HIDE DEF c
  <2>9. /\ chan' \in [Followers -> Chan]
        /\ \A h \in Followers : chan'[h].buf = chan[h].buf
        /\ \A h \in Followers : h # f => chan'[h] = chan[h]
    BY <1>1, <2>1, <2>7, <2>8
  <2>10. TypeOK'
    BY <1>1, <1>3, <2>2, <2>5, <2>9, Types, TypesNext DEF Moved
  <2>11. SizeFits'
    BY <1>1, <1>3, <2>3, <2>5, PendingMoves, SizeStill DEF Dropped
  <2>12. StageFits'
    BY <1>1, <1>3, <2>3, <2>5, StageMoves DEF StageFits
  <2>13. ChanFits(f)'
    <3>1. \A y \in Procs : ~Closing(y, f)'
      BY <2>1, <2>3, <2>5 DEF Closing, Moved, ChanFits
    <3>2. f \notin subs /\ ~Unsubscribed(f)
      BY <2>1 DEF ChanFits
    <3>3. fol'[f] = fol[f] /\ fol[f].pc # "new"
      BY <1>1, <3>2 DEF Unsubscribed
    <3>4. QED
      BY <1>1, <3>1, <3>2, <3>3 DEF ChanFits, Unsubscribed
  <2>14. ASSUME NEW h \in Followers, h # f PROVE ChanFits(h)'
    BY <1>1, <2>3, <2>5, <2>6, <2>9, <2>14, ChanMoves
  <2>15. \A y \in Writers : LogFits(y)'
    BY <1>1, <2>3, <2>5, <2>6, LogMoves
  <2>16. \A h \in Followers, y \in Writers : SeamFits(h, y)'
    BY <1>1, <2>3, <2>5, <2>6, <2>9, SeamMoves
  <2>17. QED
    BY <1>1, <2>2, <2>10, <2>11, <2>12, <2>13, <2>14, <2>15, <2>16 DEF IndInv
<1>4. QED
  BY <1>2, <1>3 DEF CloseSubs

----------------------------------------------------------------------------
(* runBuild and CancelBuild *)

\* runBuild's own steps that move no line.
LEMMA RestingOK ==
  ASSUME IndInv, StartRun \/ BuildReturns \/ CancelContext
  PROVE  IndInv'
<1>1. /\ TypeOK /\ SizeFits /\ UNCHANGED <<log, size, subs, proc, chan, fol, panic>>
      /\ (Fault \/ UNCHANGED faults)
  BY DEF IndInv, StartRun, BuildReturns, CancelContext, quiet
<1>2. StillTyped
  BY <1>1, Types, FaultTyped DEF StillTyped, StartRun, BuildReturns, CancelContext, Stages
<1>3. Dropped' = Dropped /\ Pending' = Pending
  BY <1>1 DEF Dropped, Pending, StartRun, BuildReturns, CancelContext, On
<1>4. StageFits'
  BY <1>1 DEF IndInv, StageFits, StartRun, BuildReturns, CancelContext, On, At
<1>5. SizeFits'
  BY <1>1, <1>3, SizeStill
<1>6. QED
  BY <1>1, <1>2, <1>4, <1>5, RestCloses DEF Still

\* The counter is forgotten: what it covered is at most the limit.
LEMMA DropSizeOK ==
  ASSUME IndInv, DropSize
  PROVE  IndInv'
<1>1. /\ TypeOK /\ SizeFits /\ stage = "drop" /\ stage' = "leave" /\ size' = None
      /\ UNCHANGED <<status, log, subs, proc, chan, fol, faults, panic>>
      /\ log \in Seq(Line) /\ Len(log) \in Nat /\ Used \in Nat /\ MaxLogSize \in Nat
  BY Types, LineTypes, BuildLogsAssumption DEF IndInv, DropSize, quiet, Used
<1>2. StillTyped
  BY <1>1, Types DEF StillTyped, Stages
<1>3. ~Dropped /\ Dropped' /\ Pending' = Pending /\ Used' = 0
  BY <1>1 DEF Dropped, Pending, Used
<1>4. Cardinality(Pending) \in Nat
  BY <1>1, FS_CardinalityType DEF SizeFits
<1>5. SizeFits'
  BY <1>1, <1>3, <1>4 DEF SizeFits
<1>6. StageFits'
  BY <1>1 DEF IndInv, StageFits
<1>7. QED
  BY <1>1, <1>2, <1>5, <1>6, RestCloses DEF Still

\* runBuild writes a line.
LEMMA RunWritesOK ==
  ASSUME IndInv, BuildLine \/ ClosingLine
  PROVE  IndInv'
<1>1. Main \in Procs
  BY DEF Procs, Writers
<1>2. Still /\ UNCHANGED size /\ Write(Main) /\ proc[Main].pc = "idle"
  BY DEF BuildLine, ClosingLine, quiet, Still, On, At
<1>3. StillTyped
  BY Types DEF IndInv, BuildLine, ClosingLine, quiet, StillTyped, Stages
<1>4. Dropped' = Dropped
  BY DEF BuildLine, ClosingLine, On, Dropped
<1>5. QED
  BY <1>1, <1>2, <1>3, <1>4, WriteCloses

\* The result is recorded; a failed build closes its followers.
LEMMA RecordResultOK ==
  ASSUME IndInv, RecordResult
  PROVE  IndInv'
<1>1. /\ TypeOK /\ SizeFits /\ Main \in Procs /\ proc[Main].pc = "idle"
      /\ UNCHANGED <<log, size, subs, chan, fol, panic>>
      /\ (Fault \/ UNCHANGED faults)
      /\ status' \in {"pending", "running", "succeeded", "failed"}
  BY Types DEF IndInv, RecordResult, SetFromRunning, On, At, Procs, Writers
<1>2. Dropped' = Dropped /\ StillTyped
  BY <1>1, Types, FaultTyped DEF RecordResult, On, Dropped, StillTyped, Stages
<1>3. CASE stage' = "closing" /\ Goto(Main, "detach")
  BY <1>1, <1>2, <1>3, GotoCloses DEF Still
<1>4. CASE UNCHANGED proc
  <2>1. SizeFits' /\ StageFits'
    BY <1>1, <1>2, <1>4, SizeStill DEF Pending, StageFits
  <2>2. QED
    BY <1>1, <1>2, <1>4, <2>1, RestCloses DEF Still
<1>5. QED
  BY <1>3, <1>4 DEF RecordResult

\* A deployed build closes its followers.
LEMMA DeployEndsOK ==
  ASSUME IndInv, DeployEnds
  PROVE  IndInv'
<1>1. Main \in Procs /\ proc[Main].pc = "idle"
  BY DEF Procs, Writers, DeployEnds, On, At
<1>2. Still /\ UNCHANGED size /\ Goto(Main, "detach") /\ stage' = "closing"
  BY DEF DeployEnds, quiet, Still
<1>3. StillTyped
  BY Types DEF IndInv, DeployEnds, quiet, StillTyped, Stages
<1>4. Dropped' = Dropped
  BY DEF DeployEnds, On, Dropped
<1>5. QED
  BY <1>1, <1>2, <1>3, <1>4, GotoCloses

\* CancelBuild reads the row.
LEMMA ReadBuildOK ==
  ASSUME IndInv, NEW k \in Procs, ReadBuild(k)
  PROVE  IndInv'
<1>1. k # Main /\ proc[k].pc = "read"
  BY BuildLogsAssumption DEF ReadBuild, At, Writers
<1>2. Still /\ UNCHANGED <<size, stage>> /\ (Goto(k, "mark") \/ Goto(k, "done"))
  BY DEF ReadBuild, quiet, Still
<1>3. StillTyped /\ Dropped' = Dropped
  BY Types DEF IndInv, ReadBuild, quiet, StillTyped, Dropped
<1>4. QED
  BY <1>1, <1>2, <1>3, GotoCloses

\* CancelBuild marks the row and writes its line.
LEMMA MarkCancelledOK ==
  ASSUME IndInv, NEW k \in Procs, MarkCancelled(k)
  PROVE  IndInv'
<1>1. Still /\ UNCHANGED <<size, stage>> /\ Write(k) /\ proc[k].pc = "mark"
  BY DEF MarkCancelled, Still, At
<1>2. StillTyped /\ Dropped' = Dropped
  BY Types, FaultTyped DEF IndInv, MarkCancelled, StillTyped, Dropped
<1>3. QED
  BY <1>1, <1>2, WriteCloses

----------------------------------------------------------------------------
(* StreamBuildLogs *)

\* A follower's step moves no process.
FollowerMoves(f, r) ==
  /\ r \in Fol /\ fol' = [fol EXCEPT ![f] = r]
  /\ UNCHANGED <<status, log, size, stage, proc, faults, panic>>

\* Such a step keeps the invariant if it keeps the follower's part.
LEMMA FollowerCloses ==
  ASSUME IndInv, NEW f \in Followers, NEW r, FollowerMoves(f, r),
         subs' \subseteq Followers, chan' \in [Followers -> Chan],
         \A h \in Followers : h # f => chan'[h] = chan[h] /\ (h \in subs' <=> h \in subs),
         ChanFits(f)', \A x \in Writers : SeamFits(f, x)'
  PROVE  IndInv'
<1>1. /\ TypeOK /\ SizeFits /\ StageFits /\ fol'[f] = r
      /\ fol' \in [Followers -> Fol] /\ \A h \in Followers : h # f => fol'[h] = fol[h]
  BY Types DEF IndInv, FollowerMoves
<1>2. TypeOK'
  BY <1>1, Types, TypesNext DEF FollowerMoves
<1>3. SizeFits' /\ StageFits'
  BY <1>1, SizeStill DEF FollowerMoves, Pending, Dropped, StageFits
<1>4. ASSUME NEW h \in Followers, h # f PROVE ChanFits(h)'
  BY <1>1, <1>4 DEF IndInv, ChanFits, FollowerMoves, Unsubscribed, Closing, Sending
<1>5. \A x \in Writers : LogFits(x)'
  BY DEF IndInv, LogFits, FollowerMoves
<1>6. ASSUME NEW h \in Followers, h # f, NEW x \in Writers PROVE SeamFits(h, x)'
  BY <1>1, <1>6 DEF IndInv, SeamFits, FollowerMoves, Unsent, Sending
<1>7. QED
  BY <1>2, <1>3, <1>4, <1>5, <1>6 DEF IndInv, FollowerMoves

\* The follower finds the stored lines, each once and in order.
LEMMA ReadLogOK ==
  ASSUME IndInv, NEW f \in Followers, ReadLog(f)
  PROVE  IndInv'
<1> DEFINE l == IF status \in {"succeeded", "failed"} THEN "ended" ELSE "subscribe"
           r == [fol[f] EXCEPT !.stored = log, !.pc = l]
<1>1. /\ fol[f] \in Fol /\ log \in Seq(Line) /\ fol[f].pc = "new" /\ TypeOK
      /\ UNCHANGED <<status, log, size, subs, stage, proc, chan, faults, panic>>
      /\ ChanFits(f) /\ l \in {"ended", "subscribe"}
  BY Types DEF IndInv, ReadLog, Follows
<1>2. /\ r \in Fol /\ r.stored = log /\ r.got = fol[f].got /\ r.pc = l
  BY <1>1 DEF Fol
<1>3. fol' = [fol EXCEPT ![f] = r]
  BY DEF ReadLog
<1> HIDE DEF r, l
<1>4. fol'[f] = r
  BY <1>1, <1>3, Types
<1>5. /\ Unsubscribed(f) /\ chan[f].buf = <<>> /\ fol[f].got = <<>>
      /\ \A x \in Procs : ~Closing(x, f) /\ ~Sending(x, f)
  BY <1>1 DEF ChanFits, Unsubscribed
<1>6. ChanFits(f)'
  BY <1>1, <1>2, <1>4, <1>5 DEF ChanFits, Closing, Sending, Unsubscribed
<1>7. ASSUME NEW x \in Writers PROVE SeamFits(f, x)'
  <2>1. LogFits(x) /\ proc[x].n \in Nat
    BY <1>1, Types DEF IndInv, Procs, Proc
  <2>2. Increasing(log, x) /\ UpTo(log, x, proc[x].n)
    BY <2>1 DEF LogFits
  <2>3. /\ fol'[f].stored = log /\ fol'[f].got = <<>> /\ chan'[f].buf = <<>>
        /\ proc' = proc
    BY <1>1, <1>2, <1>4, <1>5
  <2>4. QED
    BY <2>2, <2>3, EmptyFits DEF SeamFits
<1>8. QED
  BY <1>1, <1>2, <1>3, <1>6, <1>7, Types, FollowerCloses DEF FollowerMoves

\* The channel enters the map, open and empty.
LEMMA SubscribeLogsOK ==
  ASSUME IndInv, NEW f \in Followers, SubscribeLogs(f)
  PROVE  IndInv'
<1> DEFINE r == [fol[f] EXCEPT !.pc = "follow"]
<1>1. /\ fol[f] \in Fol /\ fol[f].pc = "subscribe" /\ TypeOK /\ subs' = subs \cup {f}
      /\ UNCHANGED <<status, log, size, stage, proc, chan, faults, panic>>
      /\ ChanFits(f)
  BY Types DEF IndInv, SubscribeLogs, Follows
<1>2. /\ r \in Fol /\ r.stored = fol[f].stored /\ r.got = fol[f].got /\ r.pc = "follow"
  BY <1>1 DEF Fol
<1>3. fol' = [fol EXCEPT ![f] = r]
  BY DEF SubscribeLogs
<1> HIDE DEF r
<1>4. fol'[f] = r
  BY <1>1, <1>3, Types
<1>5. /\ ~chan[f].closed
      /\ \A x \in Procs : ~Closing(x, f) /\ ~Sending(x, f)
  BY <1>1 DEF ChanFits, Unsubscribed
<1>6. ChanFits(f)'
  BY <1>1, <1>2, <1>4, <1>5 DEF ChanFits, Closing, Sending, Unsubscribed
<1>7. ASSUME NEW x \in Writers PROVE SeamFits(f, x)'
  <2>1. SeamFits(f, x)
    BY DEF IndInv
  <2>2. /\ fol'[f].stored = fol[f].stored /\ fol'[f].got = fol[f].got
        /\ chan' = chan /\ proc' = proc
    BY <1>1, <1>2, <1>4
  <2>3. QED
    BY <2>1, <2>2 DEF SeamFits, Unsent, Sending
<1>8. subs' \subseteq Followers /\ chan' \in [Followers -> Chan]
  BY <1>1, Types
<1>9. QED
  BY <1>1, <1>2, <1>3, <1>6, <1>7, <1>8, FollowerCloses DEF FollowerMoves

\* The follower ends.
LEMMA EndsOK ==
  ASSUME IndInv, NEW f \in Followers, Follows(f, "follow"),
         fol' = [fol EXCEPT ![f].pc = "ended"],
         UNCHANGED <<status, log, size, subs, stage, proc, chan, faults, panic>>
  PROVE  IndInv'
<1> DEFINE r == [fol[f] EXCEPT !.pc = "ended"]
<1>1. fol[f] \in Fol /\ fol[f].pc = "follow" /\ TypeOK /\ ChanFits(f)
  BY Types DEF IndInv, Follows
<1>2. /\ r \in Fol /\ r.stored = fol[f].stored /\ r.got = fol[f].got /\ r.pc = "ended"
  BY <1>1 DEF Fol
<1>3. fol' = [fol EXCEPT ![f] = r]
  OBVIOUS
<1> HIDE DEF r
<1>4. fol'[f] = r
  BY <1>1, <1>3, Types
<1>5. ChanFits(f)'
  BY <1>1, <1>2, <1>4 DEF ChanFits, Closing, Sending, Unsubscribed
<1>6. ASSUME NEW x \in Writers PROVE SeamFits(f, x)'
  BY <1>2, <1>4 DEF IndInv, SeamFits, Unsent, Sending
<1>7. QED
  BY <1>1, <1>2, <1>3, <1>5, <1>6, Types, FollowerCloses DEF FollowerMoves

\* A line is received, in the order of the channel.
LEMMA ReceiveOK ==
  ASSUME IndInv, NEW f \in Followers, Receive(f)
  PROVE  IndInv'
<1>1. CASE fol' = [fol EXCEPT ![f].pc = "ended"] /\ UNCHANGED chan
  BY <1>1, EndsOK DEF Receive
<1>2. CASE /\ chan[f].buf # <<>>
           /\ fol' = [fol EXCEPT ![f].got = Append(@, Head(chan[f].buf))]
           /\ chan' = [chan EXCEPT ![f].buf = Tail(@)]
  <2>1. PICK b \in Seq(Line), g \in Seq(Line), s \in Seq(Line) :
          b = chan[f].buf /\ g = fol[f].got /\ s = fol[f].stored
    BY Types DEF IndInv, Chan, Fol
  <2>2. PICK h, t : h = Append(g, Head(b)) /\ t = Tail(b)
    OBVIOUS
  <2>3. /\ fol[f] \in Fol /\ fol[f].pc = "follow" /\ TypeOK /\ ChanFits(f)
        /\ chan[f] \in Chan /\ fol \in [Followers -> Fol] /\ chan \in [Followers -> Chan]
        /\ UNCHANGED <<status, log, size, subs, stage, proc, faults, panic>>
    BY Types DEF IndInv, Receive, Follows
  <2>4. ASSUME NEW x \in Writers
        PROVE  /\ h \in Seq(Line) /\ t \in Seq(Line)
               /\ Flow(h, t, s, x, proc[x].n)
               /\ Quiet(g, b, x, proc[x].n) => Quiet(h, t, x, proc[x].n)
    <3>1. proc[x].n \in Nat
      BY <2>3, Types DEF Procs, Proc
    <3>2. PICK m \in Nat : m = proc[x].n
      BY <3>1
    <3>3. Flow(g, b, s, x, m)
      BY <2>1, <3>2 DEF IndInv, SeamFits, Flow
    <3>4. b # <<>>
      BY <1>2, <2>1
    <3>5. QED
      BY <2>2, <3>2, <3>3, <3>4, ReceiveFits
  <2>5. h \in Seq(Line) /\ t \in Seq(Line)
    <3>1. Main \in Writers
      BY DEF Writers
    <3>2. QED
      BY <2>4, <3>1
  <2> DEFINE r == [fol[f] EXCEPT !.got = h]
             c == [chan[f] EXCEPT !.buf = t]
  <2>6. r \in Fol /\ r.stored = s /\ r.got = h /\ r.pc = "follow"
    BY <2>1, <2>3, <2>5 DEF Fol
  <2>7. c \in Chan /\ c.buf = t /\ c.closed = chan[f].closed
    BY <2>3, <2>5, Zenon DEF Chan
  <2>8. fol' = [fol EXCEPT ![f] = r] /\ chan' = [chan EXCEPT ![f] = c]
    BY <1>2, <2>1, <2>2
  <2> HIDE DEF r, c
  <2>9. /\ fol'[f] = r /\ chan'[f] = c /\ chan' \in [Followers -> Chan]
        /\ \A i \in Followers : i # f => chan'[i] = chan[i]
    BY <2>3, <2>6, <2>7, <2>8
  <2>10. ChanFits(f)'
    BY <2>3, <2>6, <2>7, <2>9 DEF ChanFits, Closing, Sending, Unsubscribed
  <2>11. ASSUME NEW x \in Writers PROVE SeamFits(f, x)'
    <3>1. SeamFits(f, x)
      BY DEF IndInv
    <3>2. Unsent(x, f)' = Unsent(x, f)
      BY <2>3 DEF Unsent, Sending
    <3>3. /\ Increasing(s, x) /\ UpTo(s, x, proc[x].n)
          /\ Unsent(x, f) => Below(g, x, proc[x].n) /\ Below(b, x, proc[x].n)
      BY <2>1, <3>1 DEF SeamFits
    <3>4. /\ fol'[f].stored = s /\ fol'[f].got = h /\ chan'[f].buf = t /\ proc' = proc
      BY <2>3, <2>6, <2>7, <2>9
    <3>5. QED
      BY <2>4, <3>2, <3>3, <3>4 DEF SeamFits, Flow, Quiet
  <2>12. FollowerMoves(f, r) /\ subs' \subseteq Followers
    BY <2>3, <2>6, <2>8, Types DEF FollowerMoves
  <2>13. QED
    BY <2>3, <2>9, <2>10, <2>11, <2>12, FollowerCloses
<1>3. QED
  BY <1>1, <1>2 DEF Receive

----------------------------------------------------------------------------
(* The theorems *)

\* The invariant holds initially.
LEMMA InitOK == Init => IndInv
<1> SUFFICES ASSUME Init PROVE IndInv
  OBVIOUS
<1>1. /\ {MaxLines, MaxLogSize, ChanSize} \subseteq Nat \ {0} /\ MaxFaults \in Nat
      /\ MaxLogSize \in Nat
  BY BuildLogsAssumption
<1>2. /\ \A x \in Procs : /\ proc[x].pc \in {"read", "idle"} /\ proc[x].n = 0
                          /\ proc[x].to = {} /\ proc[x] \in Proc
      /\ proc \in [Procs -> Proc]
  BY DEF Init, Proc, Pcs
<1>3. <<>> \in Seq(Line) /\ Len(log) = 0 /\ log = <<>>
  BY EmptySeq DEF Init
<1>4. /\ \A f \in Followers : chan[f].buf = <<>> /\ ~chan[f].closed /\ chan[f] \in Chan
      /\ chan \in [Followers -> Chan]
  BY <1>3, Zenon DEF Init, Chan
<1>5. /\ \A f \in Followers : fol[f].pc = "new" /\ fol[f].stored = <<>> /\ fol[f].got = <<>>
      /\ fol \in [Followers -> Fol]
  BY <1>3 DEF Init, Fol
<1>6. TypeOK
  BY <1>1, <1>2, <1>3, <1>4, <1>5, Types DEF Init, Stages
<1>7. Pending = {} /\ Used = 0 /\ ~Dropped
  BY <1>2 DEF Pending, Used, Init, Dropped
<1>8. SizeFits
  BY <1>1, <1>3, <1>7, FS_EmptySet DEF SizeFits
<1>9. StageFits
  BY <1>2 DEF StageFits, Procs, Writers
<1>10. \A f \in Followers : ChanFits(f)
  BY <1>2, <1>4, <1>5 DEF ChanFits, Closing, Sending, Init
<1>11. \A x \in Writers : LogFits(x)
  <2>1. \A x \in Writers : x \in Procs
    BY DEF Procs
  <2>2. QED
    BY <1>2, <1>3, <2>1, EmptyFits DEF LogFits
<1>12. \A f \in Followers, x \in Writers : SeamFits(f, x)
  BY <1>4, <1>5, EmptyFits DEF SeamFits
<1>13. QED
  BY <1>6, <1>8, <1>9, <1>10, <1>11, <1>12 DEF IndInv, Init

\* Every step, and stuttering, keeps the invariant.
LEMMA NextOK == IndInv /\ [Next]_vars => IndInv'
<1> SUFFICES ASSUME IndInv, [Next]_vars PROVE IndInv'
  OBVIOUS
<1>1. CASE UNCHANGED vars
  <2>1. Still /\ UNCHANGED <<proc, size>> /\ StillTyped /\ Dropped' = Dropped
    BY <1>1, Types DEF vars, IndInv, Still, StillTyped, Dropped
  <2>2. SizeFits' /\ StageFits'
    BY <1>1, <2>1, SizeStill DEF vars, IndInv, Still, Pending, StageFits
  <2>3. QED
    BY <2>1, <2>2, RestCloses
<1>2. ASSUME NEW x \in Procs, LogStep(x) \/ StreamLine(x) \/ ReadBuild(x) \/ MarkCancelled(x)
      PROVE  IndInv'
  BY <1>2, CapLineOK, StoreLineOK, CopySubsOK, SendLineOK, DetachSubsOK, CloseSubsOK,
     StreamLineOK, ReadBuildOK, MarkCancelledOK DEF LogStep
<1>3. CASE RunStep
  BY <1>3, RestingOK, DropSizeOK, RunWritesOK, RecordResultOK, DeployEndsOK DEF RunStep
<1>4. ASSUME NEW f \in Followers, ReadLog(f) \/ SubscribeLogs(f) \/ Receive(f) \/ Leave(f)
      PROVE  IndInv'
  BY <1>4, ReadLogOK, SubscribeLogsOK, ReceiveOK, EndsOK DEF Leave
<1>5. QED
  BY <1>1, <1>2, <1>3, <1>4 DEF Next

\* The inductive invariant holds in every reachable state.
THEOREM BuildLogsInvariant == Spec => []IndInv
  BY InitOK, NextOK, PTL DEF Spec

\* Every variable of a build's log keeps its type.
THEOREM BuildLogsTypeCorrect == Spec => []TypeOK
<1>1. IndInv => TypeOK
  BY DEF IndInv
<1>2. QED
  BY <1>1, BuildLogsInvariant, PTL

\* runBuild and any number of CancelBuilds never close a follower's channel twice:
\* closeLogSubs takes the list out of the map, so a channel is in the map or in one
\* closer's list, and a follower subscribes once.
THEOREM ChannelsCloseOnce == Spec => []ClosedOnce
<1>1. IndInv => ClosedOnce
  BY DEF IndInv, ClosedOnce
<1>2. QED
  BY <1>1, BuildLogsInvariant, PTL

\* The stored log stays within the limit while runBuild is at work and within
\* twice the limit ever after, however many goroutines append at once.
THEOREM LogStaysLimited == Spec => []LogLimited
<1>1. IndInv => LogLimited
  <2> SUFFICES ASSUME IndInv PROVE LogLimited
    OBVIOUS
  <2>1. /\ Len(log) \in Nat /\ Used \in Nat /\ MaxLogSize \in Nat /\ SizeFits
    BY Types, LineTypes, BuildLogsAssumption DEF IndInv, Used
  <2>2. Cardinality(Pending) \in Nat
    BY <2>1, FS_CardinalityType DEF SizeFits
  <2>3. QED
    BY <2>1, <2>2 DEF SizeFits, LogLimited, Dropped
<1>2. QED
  BY <1>1, BuildLogsInvariant, PTL

\* A set without two different members has at most one.
LEMMA AtMostOne ==
  ASSUME NEW S, \A a, b \in S : a = b
  PROVE  Cardinality(S) <= 1
<1>1. CASE S = {}
  BY <1>1, FS_EmptySet
<1>2. CASE S # {}
  <2>1. PICK a \in S : TRUE
    BY <1>2
  <2>2. S = {a}
    BY <2>1
  <2>3. QED
    BY <2>2, FS_Singleton
<1>3. QED
  BY <1>1, <1>2

\* A follower sees the lines of each goroutine in order, and at most one of them
\* twice, however its read of the table and its subscription fall between the
\* statements and the sends of the writers.
THEOREM FollowersSeeOrder == Spec => []FollowerSeam
<1>1. IndInv => FollowerSeam
  <2> SUFFICES ASSUME IndInv, NEW f \in Followers, NEW x \in Writers
               PROVE  LET seen == fol[f].stored \o fol[f].got
                          own  == LinesOf(seen, x)
                          twice == {i \in own : \E j \in own : j < i /\ seen[j] = seen[i]}
                      IN /\ \A i, j \in own : i < j => seen[i][2] <= seen[j][2]
                         /\ Cardinality(twice) <= 1
    BY DEF FollowerSeam
  <2>1. PICK s \in Seq(Line), g \in Seq(Line) : s = fol[f].stored /\ g = fol[f].got
    BY Types DEF IndInv, Fol
  <2>2. /\ Increasing(s, x) /\ Increasing(g, x) /\ NotAfter(s, g, x)
    BY <2>1 DEF IndInv, SeamFits
  <2> DEFINE seen == s \o g
             own  == LinesOf(seen, x)
             twice == {i \in own : \E j \in own : j < i /\ seen[j] = seen[i]}
  <2>3. /\ Len(seen) = Len(s) + Len(g) /\ Len(s) \in Nat /\ Len(g) \in Nat
        /\ \A i \in 1 .. Len(s) + Len(g) :
             seen[i] = IF i <= Len(s) THEN s[i] ELSE g[i - Len(s)]
    BY ConcatProperties, LenProperties
  <2>4. /\ \A i \in 1 .. Len(s) : s[i][2] \in Nat
        /\ \A i \in 1 .. Len(g) : g[i][2] \in Nat
    BY LineTypes
  <2>5. own = {i \in 1 .. Len(s) + Len(g) : seen[i][1] = x}
    BY <2>3 DEF LinesOf
  <2> HIDE DEF seen, own
  <2>6. ASSUME NEW i \in own
        PROVE  /\ i \in Nat /\ seen[i][2] \in Nat
               /\ \/ i \in 1 .. Len(s) /\ seen[i] = s[i] /\ s[i][1] = x
                  \/ /\ i - Len(s) \in 1 .. Len(g) /\ i > Len(s)
                     /\ seen[i] = g[i - Len(s)] /\ g[i - Len(s)][1] = x
    BY <2>3, <2>4, <2>5
  <2>7. ASSUME NEW i \in own, NEW j \in own, i < j
        PROVE  /\ seen[i][2] <= seen[j][2]
               /\ seen[i][2] = seen[j][2] => i <= Len(s) /\ j > Len(s)
    <3>1. CASE j <= Len(s)
      <4>1. seen[i] = s[i] /\ seen[j] = s[j] /\ i \in 1 .. Len(s) /\ j \in 1 .. Len(s)
            /\ s[i][1] = x /\ s[j][1] = x
        BY <2>3, <2>6, <2>7, <3>1
      <4>2. s[i][2] < s[j][2] /\ s[i][2] \in Nat /\ s[j][2] \in Nat
        BY <2>2, <2>4, <2>7, <4>1 DEF Increasing
      <4>3. QED
        BY <4>1, <4>2
    <3>2. CASE i > Len(s)
      <4>1. /\ seen[i] = g[i - Len(s)] /\ seen[j] = g[j - Len(s)]
            /\ i - Len(s) \in 1 .. Len(g) /\ j - Len(s) \in 1 .. Len(g)
            /\ g[i - Len(s)][1] = x /\ g[j - Len(s)][1] = x
            /\ i - Len(s) < j - Len(s)
        BY <2>3, <2>6, <2>7, <3>2
      <4>2. /\ g[i - Len(s)][2] < g[j - Len(s)][2]
            /\ g[i - Len(s)][2] \in Nat /\ g[j - Len(s)][2] \in Nat
        BY <2>2, <2>4, <4>1 DEF Increasing
      <4>3. QED
        BY <4>1, <4>2
    <3>3. CASE i <= Len(s) /\ j > Len(s)
      <4>1. /\ seen[i] = s[i] /\ seen[j] = g[j - Len(s)]
            /\ i \in 1 .. Len(s) /\ j - Len(s) \in 1 .. Len(g)
            /\ s[i][1] = x /\ g[j - Len(s)][1] = x
        BY <2>3, <2>6, <2>7, <3>3
      <4>2. QED
        BY <2>2, <3>3, <4>1 DEF NotAfter
    <3>4. QED
      BY <2>3, <2>6, <3>1, <3>2, <3>3
  <2>8. ASSUME NEW a \in twice, NEW b \in twice PROVE a = b
    <3>1. PICK i \in own : i < a /\ seen[i] = seen[a]
      OBVIOUS
    <3>2. PICK j \in own : j < b /\ seen[j] = seen[b]
      OBVIOUS
    <3>3. a \in own /\ b \in own /\ a \in Nat /\ b \in Nat /\ i \in Nat /\ j \in Nat
      BY <2>6
    <3>4. i <= Len(s) /\ a > Len(s) /\ j <= Len(s) /\ b > Len(s)
      BY <2>7, <3>1, <3>2, <3>3
    <3>5. CASE a < b
      <4>1. seen[a][2] # seen[b][2] /\ seen[a][2] <= seen[b][2]
        BY <2>3, <2>7, <3>3, <3>4, <3>5
      <4>2. seen[j][2] <= seen[a][2]
        BY <2>3, <2>7, <3>3, <3>4
      <4>3. QED
        BY <2>6, <3>2, <3>3, <4>1, <4>2
    <3>6. CASE b < a
      <4>1. seen[a][2] # seen[b][2] /\ seen[b][2] <= seen[a][2]
        BY <2>3, <2>7, <3>3, <3>4, <3>6, SMTT(30)
      <4>2. seen[i][2] <= seen[b][2]
        BY <2>3, <2>7, <3>3, <3>4
      <4>3. QED
        BY <2>6, <3>1, <3>3, <4>1, <4>2
    <3>7. QED
      BY <3>3, <3>5, <3>6
  <2>9. Cardinality(twice) <= 1
    BY <2>8, AtMostOne
  <2>10. QED
    BY <2>1, <2>7, <2>9 DEF seen, own
<1>2. QED
  BY <1>1, BuildLogsInvariant, PTL

=============================================================================
