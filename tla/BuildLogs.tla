------------------------------ MODULE BuildLogs ------------------------------
(***************************************************************************)
(* internal/builds, the log of one build: runBuild and the streamLines     *)
(* goroutines of internal/builder write lines (appendLog, notifyLogSubs),  *)
(* followers read (StreamBuildLogs), and both runBuild and CancelBuild     *)
(* close the followers' channels. The build itself is module Builds.       *)
(***************************************************************************)
EXTENDS Naturals, Sequences, FiniteSets

CONSTANTS
  Main,            \* the goroutine of runBuild
  Streams,         \* streamLines goroutines: nobody waits for them to end
  Cancels,         \* bound: CancelBuild requests
  Followers,       \* bound: StreamBuildLogs requests, each with its channel
  MaxLines,        \* bound: lines of one goroutine
  MaxFaults,       \* bound: failed statements
  MaxLogSize,      \* 5 MB, counted in lines
  ChanSize,        \* 100
  None

Writers == Streams \cup {Main}
Procs == Writers \cup Cancels

ASSUME BuildLogsAssumption ==
  /\ {MaxLines, MaxLogSize, ChanSize} \subseteq Nat \ {0} /\ MaxFaults \in Nat
  /\ None \notin Nat /\ Main \notin Streams /\ Cancels \cap Writers = {}
  /\ IsFiniteSet(Followers)

VARIABLES
  status,     \* builds.status
  log,        \* builds.log, as lines
  size,       \* logSizes[id]; None: no entry
  subs,       \* logSubs[id]
  stage,      \* where runBuild is
  proc,       \* what each writer and each CancelBuild is doing
  chan,       \* the followers' channels
  fol,        \* the followers
  faults,     \* failed statements still to come
  panic       \* the process has died of a send on, or close of, a closed channel

vars == <<status, log, size, subs, stage, proc, chan, fol, faults, panic>>
quiet == <<chan, fol, faults, panic>>

Line == Procs \X Nat

Stages == {"start", "build", "failLine", "recordFailed", "recordSucceeded",
           "deployLine", "deploy", "deployed", "closing", "drop", "leave", "over"}

TypeOK ==
  /\ status \in {"pending", "running", "succeeded", "failed"}
  /\ log \in Seq(Line)
  /\ size \in Nat \cup {None}
  /\ subs \subseteq Followers
  /\ stage \in Stages
  /\ proc \in [Procs -> [pc: {"idle", "cap", "store", "copy", "send", "detach", "close",
                              "read", "mark", "done"},
                         n: Nat, to: SUBSET Followers]]
  /\ chan \in [Followers -> [buf: Seq(Line), closed: BOOLEAN]]
  /\ fol \in [Followers -> [pc: {"new", "subscribe", "follow", "ended"},
                            stored: Seq(Line), got: Seq(Line)]]
  /\ faults \in Nat
  /\ panic \in {"none", "send", "close"}

Init ==
  /\ status = "pending" /\ log = <<>> /\ size = None /\ subs = {}
  /\ stage = "start" /\ faults = MaxFaults /\ panic = "none"
  /\ proc = [x \in Procs |-> [pc |-> IF x \in Cancels THEN "read" ELSE "idle",
                              n |-> 0, to |-> {}]]
  /\ chan = [f \in Followers |-> [buf |-> <<>>, closed |-> FALSE]]
  /\ fol = [f \in Followers |-> [pc |-> "new", stored |-> <<>>, got |-> <<>>]]

----------------------------------------------------------------------------
(* Writing a line: appendLog, then notifyLogSubs *)

At(x, l) == proc[x].pc = l /\ panic = "none"

\* A statement fails, which is only logged.
Fault == faults > 0 /\ faults' = faults - 1

Goto(x, l) == proc' = [proc EXCEPT ![x].pc = l]

\* logCb is called with the next line.
Write(x) == proc' = [proc EXCEPT ![x].pc = "cap", ![x].n = @ + 1]

\* CancelBuild appends its line without notifying, and then closes.
AfterAppend(x) == IF x \in Cancels THEN "detach" ELSE "copy"

\* A stream is read while the command runs, and what is buffered after it.
StreamLine(x) ==
  /\ x \in Streams /\ At(x, "idle") /\ proc[x].n < MaxLines
  /\ stage # "start"
  /\ Write(x)
  /\ UNCHANGED <<status, log, size, subs, stage, quiet>>

Used == IF size = None THEN 0 ELSE size

\* Mutant of CapLine: the limit is compared with the size before the line.
CapBefore(x) ==
  /\ At(x, "cap")
  /\ IF Used > MaxLogSize
       THEN Goto(x, AfterAppend(x)) /\ UNCHANGED size
       ELSE Goto(x, "store") /\ size' = Used + 1
  /\ UNCHANGED <<status, log, subs, stage, quiet>>

\* A full log drops the line, which is still sent to the followers.
CapLine(x) ==
  /\ At(x, "cap")
  /\ IF Used + 1 > MaxLogSize
       THEN Goto(x, AfterAppend(x)) /\ UNCHANGED size
       ELSE Goto(x, "store") /\ size' = Used + 1
  /\ UNCHANGED <<status, log, subs, stage, quiet>>

\* The UPDATE uses the build's context, cancelled when runBuild returns, or the
\* request's; an error is only logged.
StoreLine(x) ==
  /\ At(x, "store")
  /\ \/ /\ x \in Cancels \/ stage # "over"
        /\ log' = Append(log, <<x, proc[x].n>>)
        /\ UNCHANGED faults
     \/ x \notin Cancels /\ stage = "over" /\ UNCHANGED <<log, faults>>
     \/ Fault /\ UNCHANGED log
  /\ Goto(x, AfterAppend(x))
  /\ UNCHANGED <<status, size, subs, stage, chan, fol, panic>>

CopySubs(x) ==
  /\ At(x, "copy")
  /\ proc' = [proc EXCEPT ![x].pc = "send", ![x].to = subs]
  /\ UNCHANGED <<status, log, size, subs, stage, quiet>>

\* Sends never block: a full channel loses the line. A closed one panics.
SendLine(x) ==
  /\ At(x, "send")
  /\ \/ proc[x].to = {} /\ Goto(x, "idle") /\ UNCHANGED <<chan, panic>>
     \/ \E f \in proc[x].to :
          /\ proc' = [proc EXCEPT ![x].to = @ \ {f}]
          /\ panic' = IF chan[f].closed THEN "send" ELSE panic
          /\ chan' = IF ~chan[f].closed /\ Len(chan[f].buf) < ChanSize
                       THEN [chan EXCEPT ![f].buf = Append(@, <<x, proc[x].n>>)]
                       ELSE chan
  /\ UNCHANGED <<status, log, size, subs, stage, fol, faults>>

\* Mutant of DetachSubs: the list stays in the map.
DetachCopy(x) ==
  /\ At(x, "detach")
  /\ proc' = [proc EXCEPT ![x].pc = "close", ![x].to = subs]
  /\ UNCHANGED <<status, log, size, subs, stage, quiet>>

\* closeLogSubs: the list is taken out of the map under the lock.
DetachSubs(x) ==
  /\ At(x, "detach")
  /\ proc' = [proc EXCEPT ![x].pc = "close", ![x].to = subs]
  /\ subs' = {}
  /\ UNCHANGED <<status, log, size, stage, quiet>>

CloseSubs(x) ==
  /\ At(x, "close")
  /\ \/ /\ proc[x].to = {} /\ Goto(x, "done")
        /\ stage' = IF x = Main THEN "drop" ELSE stage
        /\ UNCHANGED <<chan, panic>>
     \/ \E f \in proc[x].to :
          /\ proc' = [proc EXCEPT ![x].to = @ \ {f}]
          /\ panic' = IF chan[f].closed THEN "close" ELSE panic
          /\ chan' = [chan EXCEPT ![f].closed = TRUE]
          /\ UNCHANGED stage
  /\ UNCHANGED <<status, log, size, subs, fol, faults>>

LogStep(x) ==
  CapLine(x) \/ StoreLine(x) \/ CopySubs(x) \/ SendLine(x) \/ DetachSubs(x) \/ CloseSubs(x)

----------------------------------------------------------------------------
(* runBuild *)

On(l) == stage = l /\ At(Main, "idle")

\* pending -> running; a build cancelled before, or one whose UPDATE fails,
\* returns at once and closes nothing.
StartRun ==
  /\ On("start")
  /\ \/ /\ status = "pending" /\ status' = "running" /\ stage' = "build"
        /\ UNCHANGED faults
     \/ status # "pending" /\ stage' = "drop" /\ UNCHANGED <<status, faults>>
     \/ Fault /\ stage' = "drop" /\ UNCHANGED status
  /\ UNCHANGED <<log, size, subs, proc, chan, fol, panic>>

BuildLine ==
  /\ On("build") /\ proc[Main].n < MaxLines
  /\ Write(Main)
  /\ UNCHANGED <<status, log, size, subs, stage, quiet>>

BuildReturns ==
  /\ On("build")
  /\ stage' \in {"failLine", "recordSucceeded"}
  /\ UNCHANGED <<status, log, size, subs, proc, quiet>>

\* A failure is logged before it is recorded; a deploy before and after it.
ClosingLine ==
  /\ \/ On("failLine") /\ stage' = "recordFailed"
     \/ On("deployLine") /\ stage' = "deploy"
     \/ On("deploy") /\ stage' = "deployed"
  /\ Write(Main)
  /\ UNCHANGED <<status, log, size, subs, quiet>>

\* UPDATE ... WHERE status = 'running', an error only logged.
SetFromRunning(st) ==
  \/ status' = (IF status = "running" THEN st ELSE status) /\ UNCHANGED faults
  \/ Fault /\ UNCHANGED status

RecordResult ==
  /\ \/ /\ On("recordFailed") /\ SetFromRunning("failed")
        /\ stage' = "closing" /\ Goto(Main, "detach")
     \/ /\ On("recordSucceeded") /\ SetFromRunning("succeeded")
        /\ stage' = "deployLine" /\ UNCHANGED proc
  /\ UNCHANGED <<log, size, subs, chan, fol, panic>>

\* Mutant of DeployEnds: only a failed build closes its followers.
DeployEndsOpen ==
  /\ On("deployed")
  /\ stage' = "drop"
  /\ UNCHANGED <<status, log, size, subs, proc, quiet>>

DeployEnds ==
  /\ On("deployed")
  /\ stage' = "closing" /\ Goto(Main, "detach")
  /\ UNCHANGED <<status, log, size, subs, quiet>>

\* The deferred calls: logSizes first, then the context.
DropSize ==
  /\ stage = "drop" /\ panic = "none"
  /\ stage' = "leave" /\ size' = None
  /\ UNCHANGED <<status, log, subs, proc, quiet>>

CancelContext ==
  /\ stage = "leave" /\ panic = "none"
  /\ stage' = "over"
  /\ UNCHANGED <<status, log, size, subs, proc, quiet>>

RunStep ==
  \/ StartRun \/ BuildLine \/ BuildReturns \/ ClosingLine \/ RecordResult
  \/ DeployEnds \/ DropSize \/ CancelContext

----------------------------------------------------------------------------
(* CancelBuild *)

ReadBuild(k) ==
  /\ k \in Cancels /\ At(k, "read")
  /\ Goto(k, IF status \in {"pending", "running"} THEN "mark" ELSE "done")
  /\ UNCHANGED <<status, log, size, subs, stage, quiet>>

\* Mutant of MarkCancelled: a status outside the vocabulary.
MarkAborted(k) ==
  /\ At(k, "mark")
  /\ \/ status' = "cancelled" /\ UNCHANGED faults
     \/ Fault /\ UNCHANGED status
  /\ Write(k)
  /\ UNCHANGED <<log, size, subs, stage, chan, fol, panic>>

\* Whatever the status is by now.
MarkCancelled(k) ==
  /\ At(k, "mark")
  /\ \/ status' = "failed" /\ UNCHANGED faults
     \/ Fault /\ UNCHANGED status
  /\ Write(k)
  /\ UNCHANGED <<log, size, subs, stage, chan, fol, panic>>

----------------------------------------------------------------------------
(* StreamBuildLogs *)

Follows(f, l) == fol[f].pc = l /\ panic = "none"

\* One SELECT reads status and log; the log is written to the response.
ReadLog(f) ==
  /\ Follows(f, "new")
  /\ fol' = [fol EXCEPT ![f].stored = log, ![f].pc =
       IF status \in {"succeeded", "failed"} THEN "ended" ELSE "subscribe"]
  /\ UNCHANGED <<status, log, size, subs, stage, proc, chan, faults, panic>>

\* Mutant of SubscribeLogs: the log is read again after the subscription.
SubscribeAndRead(f) ==
  /\ Follows(f, "subscribe")
  /\ subs' = subs \cup {f}
  /\ fol' = [fol EXCEPT ![f].pc = "follow", ![f].got = log]
  /\ UNCHANGED <<status, log, size, stage, proc, chan, faults, panic>>

SubscribeLogs(f) ==
  /\ Follows(f, "subscribe")
  /\ subs' = subs \cup {f}
  /\ fol' = [fol EXCEPT ![f].pc = "follow"]
  /\ UNCHANGED <<status, log, size, stage, proc, chan, faults, panic>>

Receive(f) ==
  /\ Follows(f, "follow")
  /\ \/ /\ chan[f].buf # <<>>
        /\ fol' = [fol EXCEPT ![f].got = Append(@, Head(chan[f].buf))]
        /\ chan' = [chan EXCEPT ![f].buf = Tail(@)]
     \/ /\ chan[f].buf = <<>> /\ chan[f].closed
        /\ fol' = [fol EXCEPT ![f].pc = "ended"] /\ UNCHANGED chan
  /\ UNCHANGED <<status, log, size, subs, stage, proc, faults, panic>>

\* The request ends; the channel stays subscribed.
Leave(f) ==
  /\ Follows(f, "follow")
  /\ fol' = [fol EXCEPT ![f].pc = "ended"]
  /\ UNCHANGED <<status, log, size, subs, stage, proc, chan, faults, panic>>

Next ==
  \/ \E x \in Procs : LogStep(x) \/ StreamLine(x) \/ ReadBuild(x) \/ MarkCancelled(x)
  \/ RunStep
  \/ \E f \in Followers : ReadLog(f) \/ SubscribeLogs(f) \/ Receive(f) \/ Leave(f)

Spec == Init /\ [][Next]_vars

\* Every command of a build has a timeout and no step of a goroutine blocks; a
\* follower that is sent something writes it, but nobody need leave.
FairSpec ==
  /\ Spec /\ WF_vars(RunStep)
  /\ \A x \in Procs : WF_vars(LogStep(x))
  /\ \A f \in Followers : WF_vars(Receive(f))

----------------------------------------------------------------------------
\* Both runBuild and CancelBuild close the channels of a build; no channel is
\* closed twice, which would end the process.
ClosedOnce == panic # "close"

\* The log keeps its limit while runBuild is at work. Its size is forgotten when
\* runBuild ends, so what stragglers and a late CancelBuild append is limited
\* anew: at most once.
LogLimited ==
  /\ stage \notin {"leave", "over"} => Len(log) <= MaxLogSize
  /\ Len(log) <= 2 * MaxLogSize

LinesOf(s, x) == {i \in 1 .. Len(s) : s[i][1] = x}

\* A follower gets the lines of each goroutine in their order and at most one of
\* them twice: the one that was in the stored log already and not sent out yet
\* when it subscribed.
FollowerSeam ==
  \A f \in Followers, x \in Writers :
    LET seen == fol[f].stored \o fol[f].got
        own  == LinesOf(seen, x)
        twice == {i \in own : \E j \in own : j < i /\ seen[j] = seen[i]}
    IN /\ \A i, j \in own : i < j => seen[i][2] <= seen[j][2]
       /\ Cardinality(twice) <= 1

\* A follower subscribed while the build is at work is let go, without leaving by
\* itself, whether the build fails, succeeds or is cancelled. (One that subscribes
\* after its channel list was taken, or to a build that never starts, is not.)
SubscribersReleased ==
  \A f \in Followers :
    (fol[f].pc = "follow" /\ stage \in Stages \ {"start", "closing", "drop", "leave", "over"})
      ~> (fol[f].pc = "ended" \/ panic # "none")
=============================================================================
