---------------------------- MODULE ScheduleTick ----------------------------
(***************************************************************************)
(* The runtime of the portable Schedules of one target                     *)
(* (schedule_runner.py, with the pointer schedule_store.py publishes).     *)
(*                                                                         *)
(* A process is one invocation of the bridge: a host heartbeat (Ticks,     *)
(* `schedule tick`) or a manual run (Manuals, `schedule run`).  A          *)
(* heartbeat claims the UTC minute under a short, non-blocking target      *)
(* lock, leaves the lock, and runs the due Schedules one by one, each      *)
(* under the non-blocking run lock of its name.  `apply` republishes or    *)
(* removes the snapshot pointer at any time.  A process may be killed at   *)
(* any point: the kernel then drops its file locks, and its vendor child,  *)
(* which inherits none of them, lives on.                                  *)
(***************************************************************************)
EXTENDS Naturals, Sequences

CONSTANTS
  Ticks,        \* invocations of `schedule tick`
  Manuals,      \* invocations of `schedule run NAME`
  Schedules,    \* names of Schedules
  Snapshots,    \* digests of immutable schedule snapshots
  Named,        \* Named[d]: the Schedules snapshot d contains
  Due,          \* Due[d][m]: those due in minute m, in catalog order
  MaxMinute,    \* bound: minutes 0..MaxMinute of the host clock
  MaxPublish,   \* bound: number of times apply moves the pointer
  None

Procs == Ticks \cup Manuals
Minutes == 0..MaxMinute
Claims == [minute: Minutes, digest: Snapshots]

ASSUME ProcsAssumption == Ticks \cap Manuals = {} /\ None \notin Procs
ASSUME BoundAssumption == MaxMinute \in Nat /\ MaxPublish \in Nat
ASSUME SnapshotAssumption ==
  /\ None \notin Snapshots /\ None \notin Claims
  /\ Named \in [Snapshots -> SUBSET Schedules]
  /\ Due \in [Snapshots -> [Minutes -> Seq(Schedules)]]
\* Names are unique in a snapshot: _read_snapshot_file refuses any other.
ASSUME NamesAssumption ==
  \A d \in Snapshots, m \in Minutes : \A i, j \in 1..Len(Due[d][m]) :
    Due[d][m][i] = Due[d][m][j] => i = j

VARIABLES
  clock,       \* the host's UTC minute
  published,   \* digest the pointer of schedules/<target>.json selects, or None
  everSeen,    \* digests the pointer has selected so far (history)
  moves,       \* number of pointer changes (bound only)
  marker,      \* <target>.last.json: the last claimed minute and digest, or None
  claimLock,   \* holder of <target>.lock, or None
  runLock,     \* runLock[s]: holder of <target>.<s>.run.lock, or None
  vendor,      \* vendor[s]: processes whose vendor child for s is alive
  pc,          \* control state of each process
  minute,      \* minute a tick computed when it started
  snap,        \* digest a process read, or None
  todo,        \* Schedules a process still has to run
  results,     \* TickResult.runs: Schedules a process has accounted for
  starts,      \* starts[m][d][s]: vendor launches by ticks (history)
  disorder     \* a claim or a publication was out of order (history)

vars == <<clock, published, everSeen, moves, marker, claimLock, runLock, vendor,
          pc, minute, snap, todo, results, starts, disorder>>
envVars == <<clock, published, everSeen, moves>>
lockVars == <<marker, claimLock, runLock>>

Init ==
  /\ clock = 0
  /\ published \in Snapshots \cup {None}
  /\ everSeen = {published} \ {None}
  /\ moves = 0
  /\ marker = None
  /\ claimLock = None
  /\ runLock = [s \in Schedules |-> None]
  /\ vendor = [s \in Schedules |-> {}]
  /\ pc = [p \in Procs |-> "unborn"]
  /\ minute = [p \in Procs |-> 0]
  /\ snap = [p \in Procs |-> None]
  /\ todo = [p \in Procs |-> << >>]
  /\ results = [p \in Procs |-> << >>]
  /\ starts = [m \in Minutes |-> [d \in Snapshots |-> [s \in Schedules |-> 0]]]
  /\ disorder = FALSE

Goto(p, from, to) == pc[p] = from /\ pc' = [pc EXCEPT ![p] = to]

-----------------------------------------------------------------------------
(* The environment: time, and an `apply` that moves the pointer with one   *)
(* os.replace or unlinks it.                                               *)

Elapse ==
  /\ clock < MaxMinute
  /\ clock' = clock + 1
  /\ UNCHANGED <<published, everSeen, moves, lockVars, vendor, pc, minute, snap,
                 todo, results, starts, disorder>>

Publish(d) ==
  /\ moves < MaxPublish /\ published # d
  /\ published' = d
  /\ everSeen' = everSeen \cup {d}
  /\ moves' = moves + 1
  /\ disorder' = (disorder \/ d \in everSeen)
  /\ UNCHANGED <<clock, lockVars, vendor, pc, minute, snap, todo, results, starts>>

Unpublish ==
  /\ moves < MaxPublish /\ published # None
  /\ published' = None
  /\ moves' = moves + 1
  /\ UNCHANGED <<clock, everSeen, lockVars, vendor, pc, minute, snap, todo,
                 results, starts, disorder>>

-----------------------------------------------------------------------------
(* run_due_schedules: the claim.                                           *)

StartTick(p) ==
  /\ Goto(p, "unborn", "read")
  /\ minute' = [minute EXCEPT ![p] = clock]
  /\ UNCHANGED <<envVars, lockVars, vendor, snap, todo, results, starts, disorder>>

\* Fault: the early return for an absent pointer is lost.
ReadTick_Fault(p) ==
  /\ p \in Ticks
  /\ Goto(p, "read", "claim")
  /\ snap' = [snap EXCEPT ![p] = published]
  /\ UNCHANGED <<envVars, lockVars, vendor, minute, todo, results, starts, disorder>>

ReadTick(p) ==
  /\ p \in Ticks
  /\ Goto(p, "read", IF published = None THEN "skipped" ELSE "claim")
  /\ snap' = [snap EXCEPT ![p] = published]
  /\ UNCHANGED <<envVars, lockVars, vendor, minute, todo, results, starts, disorder>>

\* "another tick is active" when the lock is not free.
TakeClaimLock(p) ==
  /\ Goto(p, "claim", IF claimLock = None THEN "check" ELSE "skipped")
  /\ claimLock' = IF claimLock = None THEN p ELSE claimLock
  /\ UNCHANGED <<envVars, marker, runLock, vendor, minute, snap, todo, results,
                 starts, disorder>>

Claim(p) == [minute |-> minute[p], digest |-> snap[p]]

\* Fault: the marker is not looked at.
CheckMarker_Fault(p) ==
  /\ Goto(p, "check", "mark")
  /\ UNCHANGED <<envVars, lockVars, vendor, minute, snap, todo, results, starts,
                 disorder>>

\* "minute already processed" when the marker holds this very claim.
CheckMarker(p) ==
  /\ Goto(p, "check", IF marker = Claim(p) THEN "skipped" ELSE "mark")
  /\ claimLock' = IF marker = Claim(p) THEN None ELSE claimLock
  /\ UNCHANGED <<envVars, marker, runLock, vendor, minute, snap, todo, results,
                 starts, disorder>>

OutOfOrder(p) ==
  \/ marker # None /\ minute[p] < marker.minute
  \/ snap[p] # published

WriteMarker(p) ==
  /\ Goto(p, "mark", "due")
  /\ marker' = Claim(p)
  /\ disorder' = (disorder \/ OutOfOrder(p))
  /\ UNCHANGED <<envVars, claimLock, runLock, vendor, minute, snap, todo, results,
                 starts>>

\* Fault: the due work is done under the claim lock.
LeaveClaim_Fault(p) ==
  /\ Goto(p, "due", "next")
  /\ todo' = [todo EXCEPT ![p] = Due[snap[p]][minute[p]]]
  /\ UNCHANGED <<envVars, lockVars, vendor, minute, snap, results, starts, disorder>>

LeaveClaim(p) ==
  /\ Goto(p, "due", "next")
  /\ todo' = [todo EXCEPT ![p] = Due[snap[p]][minute[p]]]
  /\ claimLock' = None
  /\ UNCHANGED <<envVars, marker, runLock, vendor, minute, snap, results, starts,
                 disorder>>

-----------------------------------------------------------------------------
(* run_named_schedule: no claim, no marker.                                *)

ReadManual(p) ==
  /\ p \in Manuals
  /\ snap' = [snap EXCEPT ![p] = published]
  /\ \/ /\ published # None
        /\ Goto(p, "read", "next")
        /\ \E s \in Named[published] : todo' = [todo EXCEPT ![p] = <<s>>]
     \/ Goto(p, "read", "skipped") /\ UNCHANGED todo   \* nothing published, or unknown
  /\ UNCHANGED <<envVars, lockVars, vendor, minute, results, starts, disorder>>

-----------------------------------------------------------------------------
(* _execute_snapshots: one Schedule after the other.                       *)

Account(p) ==
  /\ results' = [results EXCEPT ![p] = Append(@, Head(todo[p]))]
  /\ todo' = [todo EXCEPT ![p] = Tail(@)]

Finish(p) ==
  /\ todo[p] = << >>
  /\ Goto(p, "next", "done")
  /\ UNCHANGED <<envVars, lockVars, vendor, minute, snap, todo, results, starts,
                 disorder>>

\* "a previous run is still active": the recurrence is skipped, not queued.
SkipBusy(p) ==
  /\ pc[p] = "next" /\ todo[p] # << >>
  /\ runLock[Head(todo[p])] # None
  /\ Account(p)
  /\ UNCHANGED <<envVars, lockVars, vendor, pc, minute, snap, starts, disorder>>

\* Fault: the result of the run lock is ignored.
TakeRunLock_Fault(p) ==
  /\ todo[p] # << >>
  /\ runLock' = [runLock EXCEPT ![Head(todo[p])] = p]
  /\ Goto(p, "next", "launch")
  /\ UNCHANGED <<envVars, marker, claimLock, vendor, minute, snap, todo, results,
                 starts, disorder>>

TakeRunLock(p) ==
  /\ todo[p] # << >>
  /\ runLock[Head(todo[p])] = None
  /\ runLock' = [runLock EXCEPT ![Head(todo[p])] = p]
  /\ Goto(p, "next", "launch")
  /\ UNCHANGED <<envVars, marker, claimLock, vendor, minute, snap, todo, results,
                 starts, disorder>>

\* Fault: the first error ends the loop.
LaunchFails_Fault(p) ==
  /\ Goto(p, "launch", "done")
  /\ runLock' = [runLock EXCEPT ![Head(todo[p])] = None]
  /\ Account(p)
  /\ UNCHANGED <<envVars, marker, claimLock, vendor, minute, snap, starts, disorder>>

\* The invocation cannot be built or the executable cannot start.
LaunchFails(p) ==
  /\ Goto(p, "launch", "release")
  /\ UNCHANGED <<envVars, lockVars, vendor, minute, snap, todo, results, starts,
                 disorder>>

Launch(p) ==
  /\ Goto(p, "launch", "wait")
  /\ vendor' = [vendor EXCEPT ![Head(todo[p])] = @ \cup {p}]
  /\ starts' = IF p \in Manuals THEN starts
               ELSE [starts EXCEPT ![minute[p]][snap[p]][Head(todo[p])] = @ + 1]
  /\ UNCHANGED <<envVars, lockVars, minute, snap, todo, results, disorder>>

\* The child exits, or subprocess.run kills and reaps it at timeout_seconds.
VendorEnds(p) ==
  /\ Goto(p, "wait", "release")
  /\ vendor' = [vendor EXCEPT ![Head(todo[p])] = @ \ {p}]
  /\ UNCHANGED <<envVars, lockVars, minute, snap, todo, results, starts, disorder>>

\* Success, non-zero exit, timeout and launch failure all go on to the next.
ReleaseRunLock(p) ==
  /\ Goto(p, "release", "next")
  /\ runLock' = [runLock EXCEPT ![Head(todo[p])] = None]
  /\ Account(p)
  /\ UNCHANGED <<envVars, marker, claimLock, vendor, minute, snap, starts, disorder>>

-----------------------------------------------------------------------------
(* A killed process, or one an uncaught error ends: its memory and its     *)
(* flocks are gone.                                                        *)

Crash(p) ==
  /\ pc[p] \notin {"unborn", "skipped", "done", "crashed"}
  /\ pc' = [pc EXCEPT ![p] = "crashed"]
  /\ claimLock' = IF claimLock = p THEN None ELSE claimLock
  /\ runLock' = [s \in Schedules |-> IF runLock[s] = p THEN None ELSE runLock[s]]
  /\ minute' = [minute EXCEPT ![p] = 0]
  /\ snap' = [snap EXCEPT ![p] = None]
  /\ todo' = [todo EXCEPT ![p] = << >>]
  /\ results' = [results EXCEPT ![p] = << >>]
  /\ UNCHANGED <<envVars, marker, vendor, starts, disorder>>

OrphanEnds(p, s) ==
  /\ pc[p] = "crashed" /\ p \in vendor[s]
  /\ vendor' = [vendor EXCEPT ![s] = @ \ {p}]
  /\ UNCHANGED <<envVars, lockVars, pc, minute, snap, todo, results, starts, disorder>>

-----------------------------------------------------------------------------
ClaimStep(p) == ReadTick(p) \/ TakeClaimLock(p) \/ CheckMarker(p) \/ WriteMarker(p)
                \/ LeaveClaim(p)
RunStep(p) == Finish(p) \/ SkipBusy(p) \/ TakeRunLock(p) \/ LaunchFails(p)
              \/ Launch(p) \/ ReleaseRunLock(p)
OwnStep(p) == ClaimStep(p) \/ ReadManual(p) \/ RunStep(p)

Next ==
  \/ Elapse \/ Unpublish
  \/ \E d \in Snapshots : Publish(d)
  \/ \E p \in Procs : StartTick(p) \/ OwnStep(p) \/ VendorEnds(p) \/ Crash(p)
  \/ \E p \in Procs, s \in Schedules : OrphanEnds(p, s)

Spec == Init /\ [][Next]_vars

(* A started process is scheduled by the host until it ends.  Nothing is   *)
(* assumed of the vendor children here: they may run for ever.             *)
FairSpec == Spec /\ \A p \in Procs : WF_vars(OwnStep(p))
\* The mandatory timeout_seconds of a Schedule: every supervised child ends.
RunsEnd == \A p \in Procs : WF_vars(VendorEnds(p))

-----------------------------------------------------------------------------
Holding == {"launch", "wait", "release"}
Claiming == {"check", "mark", "due"}

TypeOK ==
  /\ clock \in Minutes
  /\ published \in Snapshots \cup {None}
  /\ everSeen \subseteq Snapshots
  /\ moves \in 0..MaxPublish
  /\ marker \in Claims \cup {None}
  /\ claimLock \in Procs \cup {None}
  /\ runLock \in [Schedules -> Procs \cup {None}]
  /\ vendor \in [Schedules -> SUBSET Procs]
  /\ pc \in [Procs -> {"unborn", "read", "claim", "next", "skipped", "done", "crashed"}
                      \cup Claiming \cup Holding]
  /\ minute \in [Procs -> Minutes]
  /\ snap \in [Procs -> Snapshots \cup {None}]
  /\ todo \in [Procs -> Seq(Schedules)]
  /\ results \in [Procs -> Seq(Schedules)]
  /\ starts \in [Minutes -> [Snapshots -> [Schedules -> Nat]]]
  /\ disorder \in BOOLEAN

(* No two live bridge processes supervise vendor work of one Schedule name *)
(* at once, be they heartbeats of one minute, of two, of two snapshots, or *)
(* manual runs.                                                            *)
OneSupervisedRun ==
  \A p, q \in Procs, s \in Schedules :
    /\ p \in vendor[s] /\ pc[p] # "crashed"
    /\ q \in vendor[s] /\ pc[q] # "crashed"
    => p = q

(* A minute is not claimed again while last.json still names it: of two    *)
(* heartbeats racing for one minute and snapshot the later sees the marker.*)
NoRepeatedClaim ==
  [][\A p \in Ticks : pc[p] = "mark" /\ pc'[p] = "due" => marker # Claim(p)]_vars

(* When claims follow the clock and the pointer never returns to an old    *)
(* snapshot, every Schedule starts at most once per minute and snapshot,   *)
(* whatever processes race, crash or are started twice.                    *)
AtMostOnceInOrder ==
  ~disorder => \A m \in Minutes, d \in Snapshots, s \in Schedules : starts[m][d][s] <= 1

(* What the docstring of run_due_schedules promises without any condition. *)
AtMostOnce ==
  \A m \in Minutes, d \in Snapshots, s \in Schedules : starts[m][d][s] <= 1

(* Vendor work of one Schedule never overlaps, orphans included.           *)
NoVendorOverlap ==
  \A s \in Schedules : \A p, q \in vendor[s] : p = q

(* A heartbeat that claimed a minute and ends by itself has accounted for  *)
(* every due Schedule, in catalog order: one that fails or is busy does    *)
(* not take the later ones with it.                                        *)
ResultsComplete ==
  \A p \in Ticks : pc[p] = "done" => results[p] = Due[snap[p]][minute[p]]

(* The claim lock is given back even when vendor work never ends (FairSpec *)
(* does not assume RunsEnd), so a long Schedule does not make later        *)
(* minutes disappear.                                                      *)
ClaimLockFreed == \A p \in Ticks : claimLock = p ~> claimLock # p

(* When runs end, every run lock is given back, whatever the outcome of    *)
(* the run, so a Schedule is not skipped as busy for ever.                 *)
RunLockFreed == RunsEnd => \A p \in Procs, s \in Schedules : runLock[s] = p ~> runLock[s] # p

(* No lock is kept: neither a later minute nor a later run of a Schedule   *)
(* can disappear behind one for ever.                                      *)
LocksFreed == ClaimLockFreed /\ RunLockFreed
=============================================================================
