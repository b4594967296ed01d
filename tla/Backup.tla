-------------------------------- MODULE Backup --------------------------------
(***************************************************************************)
(* cmd/ah/backup.go: "ah backup" snapshots the state and the metering      *)
(* database into timestamped .db.gz files and prunes the directory. Runs   *)
(* follow one another, none in the same second; any of them may be killed. *)
(***************************************************************************)
EXTENDS Integers, FiniteSets

CONSTANTS
  Keep,       \* 10
  MaxRuns     \* bound

Kinds == {"state", "metering"}

\* A name: ah-<time>.db.gz or ah-metering-<time>.db.gz, with .vacuumtmp or .tmp
\* while it is being made.
File == [kind: Kinds, time: 1 .. MaxRuns, form: {"gz", "vacuumtmp", "tmp"}]

VARIABLES
  dir,     \* the backups directory
  time,    \* of the latest run
  run      \* what it is doing: the step, the database, the files to delete

vars == <<dir, time, run>>

IdleRun == [pc |-> "idle", kind |-> "state", toDelete |-> {}]

Init == dir = {} /\ time = 0 /\ run = IdleRun

Made(form) == [kind |-> run.kind, time |-> time, form |-> form]

At(l) == run.pc = l

Goto(l) == run' = [run EXCEPT !.pc = l]

\* The directory is there and the disk has room, or the run ends here.
StartBackup ==
  /\ At("idle") /\ time < MaxRuns
  /\ time' = time + 1
  /\ Goto("vacuum") \/ UNCHANGED run
  /\ UNCHANGED dir

\* backupSQLite failed: fatal for the state database, a warning for the other.
BackupFails ==
  run' = IF run.kind = "state" THEN IdleRun ELSE [run EXCEPT !.pc = "list"]

Vacuum ==
  /\ At("vacuum")
  /\ \/ dir' = dir \cup {Made("vacuumtmp")} /\ Goto("gzip")
     \/ UNCHANGED dir /\ BackupFails
  /\ UNCHANGED time

\* Both temporary files are removed whatever happens.
Gzip ==
  /\ At("gzip")
  /\ \/ dir' = dir \cup {Made("tmp")} /\ Goto("rename")
     \/ dir' = dir \ {Made("vacuumtmp")} /\ BackupFails
  /\ UNCHANGED time

Rename ==
  /\ At("rename")
  /\ \/ /\ dir' = (dir \ {Made("tmp"), Made("vacuumtmp")}) \cup {Made("gz")}
        /\ run' = IF run.kind = "state" THEN [IdleRun EXCEPT !.pc = "stat"]
                                        ELSE [IdleRun EXCEPT !.pc = "list"]
     \/ dir' = dir \ {Made("tmp"), Made("vacuumtmp")} /\ BackupFails
  /\ UNCHANGED time

\* The metering database exists once the server has run.
StatMetering ==
  /\ At("stat")
  /\ \/ run' = [IdleRun EXCEPT !.pc = "vacuum", !.kind = "metering"]
     \/ Goto("list")
  /\ UNCHANGED <<dir, time>>

Backups == {f \in dir : f.form = "gz"}

\* sort.Strings: "ah-2..." comes before "ah-metering-...".
NameBefore(f, g) == \/ f.kind = "state" /\ g.kind = "metering"
                    \/ f.kind = g.kind /\ f.time < g.time

ListBackups ==
  /\ At("list")
  /\ LET extra == Cardinality(Backups) - Keep
         before(f) == {g \in Backups : NameBefore(g, f)}
     IN run' = [IdleRun EXCEPT !.pc = "prune", !.toDelete =
                  {f \in Backups : Cardinality(before(f)) < extra}]
  /\ UNCHANGED <<dir, time>>

\* A file that cannot be removed is only logged.
Prune ==
  /\ At("prune")
  /\ \/ run.toDelete = {} /\ run' = IdleRun /\ UNCHANGED dir
     \/ \E f \in run.toDelete :
          /\ run' = [run EXCEPT !.toDelete = @ \ {f}]
          /\ dir' \in {dir \ {f}, dir}
  /\ UNCHANGED time

Killed ==
  /\ ~At("idle") /\ run' = IdleRun
  /\ UNCHANGED <<dir, time>>

Next ==
  \/ StartBackup \/ Vacuum \/ Gzip \/ Rename \/ StatMetering \/ ListBackups
  \/ Prune \/ Killed

Spec == Init /\ [][Next]_vars

----------------------------------------------------------------------------
\* "Keeps last 10 backups": whatever a run prunes, it is not what it has just
\* made.
OwnBackupKept == [][\A f \in Backups \ Backups' : f.time < time]_vars
===============================================================================
