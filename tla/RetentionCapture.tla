-------------------------- MODULE RetentionCapture --------------------------
(***************************************************************************)
(* Deletion of Skill backups by `state prune --yes` (retention.py and      *)
(* retention_capture.py): one group of snapshots, the private run and      *)
(* quarantine directories, the durable manifests and the retention lock.   *)
(*                                                                         *)
(* A pruner reviews a plan, takes the lock, settles interrupted runs,      *)
(* requires a fresh plan to equal the reviewed one, and then handles the   *)
(* candidates one by one: rename into a private slot, record, verify after *)
(* the move, check the kept siblings again, record, erase.  Every rename   *)
(* and every manifest write is a step of its own; a pruner may be stopped  *)
(* between any two, and the owner of the backups does not take the lock.   *)
(*                                                                         *)
(* An object is one inode: it keeps its identity through renames, and no   *)
(* later object has the same.  Directory fsyncs are kept: what a step did  *)
(* is durable when the next begins.                                        *)
(***************************************************************************)
EXTENDS Naturals, FiniteSets

CONSTANTS
  Names,       \* snapshot names, newer ones higher
  Limit,       \* [bridge.retention] skill_backups
  Objects,     \* directories and symlinks
  Links,       \* those that are symlinks
  Pruners,     \* processes
  MaxRuns,     \* bound: capture runs (run_id of the k-th is k)
  MaxMeddle,   \* bound: steps of the owner, the operator or others
  MaxFaults,   \* bound: stopped pruners and failed system calls
  Tamper,      \* whether someone exchanges captured trees
  None

Runs == 1..MaxRuns

ASSUME NumbersAssumption ==
  /\ Names \subseteq Nat /\ IsFiniteSet(Names)
  /\ Limit \in Nat \ {0} /\ MaxRuns \in Nat /\ MaxMeddle \in Nat /\ MaxFaults \in Nat
ASSUME ObjectsAssumption ==
  /\ Links \subseteq Objects /\ IsFiniteSet(Objects) /\ Tamper \in BOOLEAN
  /\ None \notin Objects \cup Names \cup Runs \cup Pruners

VARIABLES
  saved,      \* saved[n]: object at name n of the group, or None
  slot,       \* slot[r][n]: object in the item slot of run r for candidate n
  quar,       \* quar[r][n]: object of that slot under quarantine/<run>
  body,       \* content of each object
  mounted,    \* objects with a mount inside
  recent,     \* objects changed within the quiescence window
  dir,        \* dir[r]: "none", "bare" (no manifest) or "live" run directory
  want,       \* want[r][n]: reviewed object in the manifest of r, or None
  st,         \* st[r][n]: recorded state of the item
  qdir,       \* runs with a directory under quarantine/
  copied,     \* those of them that hold a manifest copy
  lock,       \* holder of the retention lock, or None
  pc,         \* control state of each pruner
  mode,       \* "recover" or "capture"
  run,        \* run a pruner works on
  left,       \* items it still has to handle
  queue,      \* interrupted runs it still has to recover
  alarm,      \* recovery quarantined something
  plan,       \* reviewed plan
  quiet,      \* objects not changed since the cutoff of that plan
  late,       \* kept objects taken away after the last check (history)
  made, meddles, faults   \* counters, for the bounds

trees == <<saved, slot, quar, body, mounted, recent>>
records == <<dir, want, st, qdir, copied, made>>
memory == <<mode, run, left, queue, alarm, plan, quiet>>
vars == <<trees, records, lock, pc, memory, late, meddles, faults>>

NoPlan == [acts |-> {}, kept |-> {}, deferred |-> {}]

Init ==
  /\ saved \in [Names -> Objects \cup {None}]
  /\ \A m, n \in Names : saved[m] = saved[n] /\ saved[m] # None => m = n
  /\ slot = [r \in Runs |-> [n \in Names |-> None]]
  /\ quar = slot
  /\ body = [o \in Objects |-> IF \E n \in Names : saved[n] = o THEN "whole" ELSE "unborn"]
  /\ mounted = {} /\ recent = {}
  /\ dir = [r \in Runs |-> "none"]
  /\ want = slot
  /\ st = [r \in Runs |-> [n \in Names |-> "none"]]
  /\ qdir = {} /\ copied = {}
  /\ lock = None
  /\ pc = [p \in Pruners |-> "idle"]
  /\ mode = [p \in Pruners |-> "recover"]
  /\ run = [p \in Pruners |-> None]
  /\ left = [p \in Pruners |-> {}]
  /\ queue = left
  /\ alarm = [p \in Pruners |-> FALSE]
  /\ plan = [p \in Pruners |-> NoPlan]
  /\ quiet = left /\ late = left
  /\ made = 0 /\ meddles = 0 /\ faults = 0

Goto(p, from, to) == pc[p] = from /\ pc' = [pc EXCEPT ![p] = to]
Fault == faults < MaxFaults /\ faults' = faults + 1
Item(p) == CHOOSE n \in left[p] : \A m \in left[p] : n <= m
InSlot(p) == slot[run[p]][Item(p)]
Record(p, state) == st' = [st EXCEPT ![run[p]][Item(p)] = state]
Touch(o) ==
  /\ recent' = recent \cup {o}
  /\ quiet' = [p \in Pruners |-> quiet[p] \ {o}]

Group == {n \in Names : saved[n] # None}
Unsettled == {"intent", "captured", "verified"}

-----------------------------------------------------------------------------
(* build_retention_plan, read-only.                                        *)

Kept == {n \in Group : Cardinality({m \in Group : m > n}) < Limit}
Ready(n, still) == saved[n] \notin Links /\ saved[n] \in still
PlanOf(still) ==
  LET acts == {n \in Group \ Kept : Ready(n, still)}
      named(S) == {<<n, saved[n]>> : n \in S}
  IN  [acts |-> named(acts),
       kept |-> IF acts = {} THEN {} ELSE named(Kept),
       deferred |-> Group \ (Kept \cup acts)]

InQuarantine(r) == {n \in Names : quar[r][n] # None}
\* What an interrupted run may have moved there; recovery will record it.
Awaiting(r) ==
  {n \in Names : dir[r] = "live" /\ st[r][n] \in Unsettled /\ slot[r][n] = None}

BlockedRun(r) == \E n \in Names :
  slot[r][n] # None /\ (dir[r] = "bare" \/ st[r][n] \notin Unsettled)
BlockedQuarantine(r) ==
  r \in copied \/ ~ InQuarantine(r) \subseteq Awaiting(r)
Blocked(still) ==
  \/ \E n \in Group : saved[n] \notin Links /\ body[saved[n]] # "whole"
  \/ \E n \in Group \ Kept : Ready(n, still) /\ saved[n] \in mounted
  \/ \E r \in Runs : BlockedRun(r) \/ BlockedQuarantine(r)

-----------------------------------------------------------------------------
(* `state prune --yes` and apply_retention_plan up to the recovery.        *)

Review(p) ==
  /\ Goto(p, "idle", "reviewed")
  /\ LET still == Objects \ recent
     IN  /\ ~ Blocked(still)
         /\ plan' = [plan EXCEPT ![p] = PlanOf(still)]
         /\ quiet' = [quiet EXCEPT ![p] = still]
  /\ UNCHANGED <<trees, records, lock, mode, run, left, queue, alarm, late, meddles, faults>>

\* A pruner leaves: its lock and its memory are gone.
Leave(p) ==
  /\ pc' = [pc EXCEPT ![p] = "idle"]
  /\ lock' = IF lock = p THEN None ELSE lock
  /\ mode' = [mode EXCEPT ![p] = "recover"]
  /\ run' = [run EXCEPT ![p] = None]
  /\ left' = [left EXCEPT ![p] = {}]
  /\ queue' = [queue EXCEPT ![p] = {}]
  /\ alarm' = [alarm EXCEPT ![p] = FALSE]
  /\ plan' = [plan EXCEPT ![p] = NoPlan]
  /\ quiet' = [quiet EXCEPT ![p] = {}]
  /\ UNCHANGED late

\* Fault: the lock is taken although another pruner holds it.
TakeLock_Fault(p) ==
  /\ Goto(p, "reviewed", "scan")
  /\ lock' = p
  /\ queue' = [queue EXCEPT ![p] = {r \in Runs : dir[r] # "none"}]
  /\ UNCHANGED <<trees, records, mode, run, left, alarm, plan, quiet, late, meddles, faults>>

TakeLock(p) ==
  /\ Goto(p, "reviewed", "scan")
  /\ lock = None
  /\ lock' = p
  /\ queue' = [queue EXCEPT ![p] = {r \in Runs : dir[r] # "none"}]
  /\ UNCHANGED <<trees, records, mode, run, left, alarm, plan, quiet, late, meddles, faults>>

\* "another retention operation holds the lock"
LockBusy(p) ==
  /\ pc[p] = "reviewed" /\ lock # None
  /\ Leave(p)
  /\ UNCHANGED <<trees, records, meddles, faults>>

-----------------------------------------------------------------------------
(* recover_interrupted: run by run, item by item.                          *)

\* Fault: a run directory without a manifest is left alone.
RecoverRun_Fault(p) ==
  /\ pc[p] = "scan"
  /\ \E r \in queue[p] :
       /\ queue' = [queue EXCEPT ![p] = @ \ {r}]
       /\ run' = [run EXCEPT ![p] = r]
       /\ left' = [left EXCEPT ![p] = {n \in Names : st[r][n] # "none"}]
       /\ pc' = [pc EXCEPT ![p] = IF dir[r] = "bare" THEN "scan" ELSE "item"]
  /\ UNCHANGED <<trees, records, lock, mode, alarm, plan, quiet, late, meddles, faults>>

RecoverRun(p) ==
  /\ pc[p] = "scan"
  /\ \E r \in queue[p] :
       /\ queue' = [queue EXCEPT ![p] = @ \ {r}]
       /\ run' = [run EXCEPT ![p] = r]
       /\ left' = [left EXCEPT ![p] = {n \in Names : st[r][n] # "none"}]
       /\ pc' = [pc EXCEPT ![p] = IF dir[r] = "bare" THEN "rmdir" ELSE "item"]
  /\ UNCHANGED <<trees, records, lock, mode, alarm, plan, quiet, late, meddles, faults>>

\* Fault: a slot found empty is never looked for in the quarantine.
RecoverItem_Fault(p) ==
  /\ pc[p] = "item" /\ mode[p] = "recover" /\ left[p] # {}
  /\ LET n == Item(p)
         state == st[run[p]][n]
     IN  IF InSlot(p) # None
         THEN /\ pc' = [pc EXCEPT ![p] = IF state = "verified" THEN "delete" ELSE "settle"]
              /\ UNCHANGED <<st, left>>
         ELSE /\ st' = IF state = "verified" THEN [st EXCEPT ![run[p]][n] = "deleted"] ELSE st
              /\ left' = [left EXCEPT ![p] = @ \ {n}]
              /\ UNCHANGED pc
  /\ UNCHANGED <<trees, dir, want, qdir, copied, made, lock, mode, run, queue, alarm, plan,
                 quiet, late, meddles, faults>>

\* A recorded terminal state with an occupied slot would raise; see
\* CapturesAccounted.
RecoverItem(p) ==
  /\ pc[p] = "item" /\ mode[p] = "recover" /\ left[p] # {}
  /\ LET n == Item(p)
         state == st[run[p]][n]
         moved == state \in Unsettled /\ quar[run[p]][n] # None
     IN  IF InSlot(p) # None \/ moved
         THEN /\ state \in Unsettled
              /\ pc' = [pc EXCEPT ![p] = IF InSlot(p) = None THEN "quarnote"
                                         ELSE IF state = "verified" THEN "delete"
                                         ELSE "settle"]
              /\ UNCHANGED <<st, left>>
         ELSE /\ st' = IF state = "verified" THEN [st EXCEPT ![run[p]][n] = "deleted"] ELSE st
              /\ left' = [left EXCEPT ![p] = @ \ {n}]
              /\ UNCHANGED pc
  /\ UNCHANGED <<trees, dir, want, qdir, copied, made, lock, mode, run, queue, alarm, plan,
                 quiet, late, meddles, faults>>

\* _remove_empty_quarantine_runs, when no interrupted run is left.
Sweep(p) ==
  /\ Goto(p, "scan", "fresh")
  /\ queue[p] = {}
  /\ qdir' = {r \in qdir : InQuarantine(r) # {} \/ r \in copied}
  /\ UNCHANGED <<trees, dir, want, st, copied, made, lock, memory, late, meddles, faults>>

\* Every reason to stop before anything is captured: quarantined in
\* recovery, changed since the review, blocked, or nothing to do (or the
\* bound on runs is reached).
StopFresh(p) ==
  /\ pc[p] = "fresh"
  /\ \/ alarm[p]
     \/ PlanOf(quiet[p]) # plan[p]
     \/ Blocked(quiet[p])
     \/ plan[p].acts = {}
     \/ made = MaxRuns
  /\ Leave(p)
  /\ UNCHANGED <<trees, records, meddles, faults>>

-----------------------------------------------------------------------------
(* capture_and_delete: the run directory, then each candidate.             *)

MakeRun(p) ==
  /\ Goto(p, "fresh", "intent")
  /\ ~alarm[p] /\ PlanOf(quiet[p]) = plan[p] /\ ~ Blocked(quiet[p]) /\ plan[p].acts # {}
  /\ made < MaxRuns
  /\ made' = made + 1
  /\ run' = [run EXCEPT ![p] = made']
  /\ dir' = [dir EXCEPT ![made'] = "bare"]
  /\ mode' = [mode EXCEPT ![p] = "capture"]
  /\ UNCHANGED <<trees, want, st, qdir, copied, lock, left, queue, alarm, plan, quiet, late,
                 meddles, faults>>

Candidates(p) == {n \in Names : \E o \in Objects : <<n, o>> \in plan[p].acts}
Reviewed(p, n) == CHOOSE o \in Objects : <<n, o>> \in plan[p].acts

\* Fault: the manifest takes the identity found now, not the reviewed one.
WriteIntent_Fault(p) ==
  /\ Goto(p, "intent", "item")
  /\ dir' = [dir EXCEPT ![run[p]] = "live"]
  /\ want' = [want EXCEPT ![run[p]] =
               [n \in Names |-> IF n \in Candidates(p) THEN saved[n] ELSE None]]
  /\ st' = [st EXCEPT ![run[p]] =
               [n \in Names |-> IF n \in Candidates(p) THEN "intent" ELSE "none"]]
  /\ left' = [left EXCEPT ![p] = Candidates(p)]
  /\ UNCHANGED <<trees, qdir, copied, made, lock, mode, run, queue, alarm, plan, quiet, late,
                 meddles, faults>>

WriteIntent(p) ==
  /\ Goto(p, "intent", "item")
  /\ dir' = [dir EXCEPT ![run[p]] = "live"]
  /\ want' = [want EXCEPT ![run[p]] =
               [n \in Names |-> IF n \in Candidates(p) THEN Reviewed(p, n) ELSE None]]
  /\ st' = [st EXCEPT ![run[p]] =
               [n \in Names |-> IF n \in Candidates(p) THEN "intent" ELSE "none"]]
  /\ left' = [left EXCEPT ![p] = Candidates(p)]
  /\ UNCHANGED <<trees, qdir, copied, made, lock, mode, run, queue, alarm, plan, quiet, late,
                 meddles, faults>>

KeptInPlace(p) == \A k \in plan[p].kept : saved[k[1]] = k[2]

\* An item that ends a capture ends the loop: stop_reason.
After(p) == IF mode[p] = "capture" THEN {} ELSE left[p] \ {Item(p)}

\* "retained snapshot changed after planning": stop, nothing was moved.
CheckKept(p) ==
  /\ Goto(p, "item", IF KeptInPlace(p) THEN "move" ELSE "item")
  /\ mode[p] = "capture" /\ left[p] # {}
  /\ left' = IF KeptInPlace(p) THEN left ELSE [left EXCEPT ![p] = {}]
  /\ UNCHANGED <<trees, records, lock, mode, run, queue, alarm, plan, quiet, late, meddles,
                 faults>>

\* Whatever is at the name now moves.
Move(p) ==
  /\ Goto(p, "move", "note")
  /\ saved[Item(p)] # None
  /\ slot' = [slot EXCEPT ![run[p]][Item(p)] = saved[Item(p)]]
  /\ saved' = [saved EXCEPT ![Item(p)] = None]
  /\ Touch(saved[Item(p)])
  /\ UNCHANGED <<quar, body, mounted, records, lock, mode, run, left, queue, alarm, plan,
                 late, meddles, faults>>

\* The rename fails: nothing moved, stop.
MoveBusy(p) ==
  /\ Goto(p, "move", "item")
  /\ IF saved[Item(p)] = None THEN UNCHANGED faults ELSE Fault
  /\ left' = [left EXCEPT ![p] = {}]
  /\ UNCHANGED <<trees, records, lock, mode, run, queue, alarm, plan, quiet, late, meddles>>

NoteCaptured(p) ==
  /\ Goto(p, "note", "verify")
  /\ Record(p, "captured")
  /\ UNCHANGED <<trees, dir, want, qdir, copied, made, lock, memory, late, meddles, faults>>

Matches(p) ==
  /\ InSlot(p) = want[run[p]][Item(p)]
  /\ InSlot(p) \notin Links \cup mounted
  /\ body[InSlot(p)] = "whole"

Verify(p) ==
  /\ Goto(p, "verify", IF Matches(p) THEN "recheck" ELSE "settle")
  /\ UNCHANGED <<trees, records, lock, memory, late, meddles, faults>>

\* Fault: the kept siblings are not looked at again after the move.
Recheck_Fault(p) ==
  /\ Goto(p, "recheck", "seal")
  /\ late' = [late EXCEPT ![p] = {}]
  /\ UNCHANGED <<trees, records, lock, memory, meddles, faults>>

Recheck(p) ==
  /\ Goto(p, "recheck", IF KeptInPlace(p) THEN "seal" ELSE "settle")
  /\ late' = [late EXCEPT ![p] = {}]
  /\ UNCHANGED <<trees, records, lock, memory, meddles, faults>>

Seal(p) ==
  /\ Goto(p, "seal", "delete")
  /\ Record(p, "verified")
  /\ UNCHANGED <<trees, dir, want, qdir, copied, made, lock, memory, late, meddles, faults>>

-----------------------------------------------------------------------------
(* _delete_verified, for a capture and for a recovery.                     *)

\* The slot's identity and mounts are checked, and the rmtree begins.
StartErase(p) ==
  /\ Goto(p, "delete", "erasing")
  /\ InSlot(p) = want[run[p]][Item(p)] /\ InSlot(p) \notin mounted
  /\ body' = [body EXCEPT ![InSlot(p)] = "partial"]
  /\ UNCHANGED <<saved, slot, quar, mounted, recent, records, lock, memory, late, meddles,
                 faults>>

\* Fault: a recovery puts back what it may not delete.
RefuseErase_Fault(p) ==
  /\ Goto(p, "delete", "settle")
  /\ InSlot(p) # want[run[p]][Item(p)] \/ InSlot(p) \in mounted
  /\ Record(p, "captured")
  /\ UNCHANGED <<trees, dir, want, qdir, copied, made, lock, memory, late, meddles, faults>>

\* A mount, or any refusal of a recovery, quarantines.  An identity that
\* differs in a capture is recorded as unverified before it is settled.
RefuseErase(p) ==
  /\ pc[p] = "delete"
  /\ InSlot(p) # want[run[p]][Item(p)] \/ InSlot(p) \in mounted
  /\ LET demote == mode[p] = "capture" /\ InSlot(p) # want[run[p]][Item(p)]
     IN  /\ Goto(p, "delete", IF demote THEN "settle" ELSE "quar")
         /\ st' = IF demote THEN [st EXCEPT ![run[p]][Item(p)] = "captured"] ELSE st
  /\ UNCHANGED <<trees, dir, want, qdir, copied, made, lock, memory, late, meddles, faults>>

\* An OSError before or during the rmtree: pending cleanup, next item.
EraseFails(p) ==
  /\ pc[p] \in {"delete", "erasing"}
  /\ IF pc[p] = "erasing" /\ InSlot(p) \in mounted THEN UNCHANGED faults ELSE Fault
  /\ pc' = [pc EXCEPT ![p] = "item"]
  /\ left' = [left EXCEPT ![p] = @ \ {Item(p)}]
  /\ UNCHANGED <<trees, records, lock, mode, run, queue, alarm, plan, quiet, late, meddles>>

Erase(p) ==
  /\ Goto(p, "erasing", "erased")
  /\ InSlot(p) \notin mounted
  /\ body' = [body EXCEPT ![InSlot(p)] = "gone"]
  /\ slot' = [slot EXCEPT ![run[p]][Item(p)] = None]
  /\ UNCHANGED <<saved, quar, mounted, recent, records, lock, memory, late, meddles, faults>>

NoteDeleted(p) ==
  /\ Goto(p, "erased", "item")
  /\ Record(p, "deleted")
  /\ left' = [left EXCEPT ![p] = @ \ {Item(p)}]
  /\ UNCHANGED <<trees, dir, want, qdir, copied, made, lock, mode, run, queue, alarm, plan,
                 quiet, late, meddles, faults>>

-----------------------------------------------------------------------------
(* _settle_unverified and _quarantine.                                     *)

Settle(p) ==
  /\ LET free == InSlot(p) \notin Links /\ saved[Item(p)] = None
     IN  Goto(p, "settle", IF free THEN "back" ELSE "quar")
  /\ UNCHANGED <<trees, records, lock, memory, late, meddles, faults>>

PutBack(p) ==
  /\ Goto(p, "back", "noteback")
  /\ saved[Item(p)] = None
  /\ saved' = [saved EXCEPT ![Item(p)] = InSlot(p)]
  /\ slot' = [slot EXCEPT ![run[p]][Item(p)] = None]
  /\ Touch(InSlot(p))
  /\ UNCHANGED <<quar, body, mounted, records, lock, mode, run, left, queue, alarm, plan,
                 late, meddles, faults>>

\* The name was taken since the check, or the emptied group is gone.
PutBackFails(p) ==
  /\ Goto(p, "back", "quar")
  /\ saved[Item(p)] # None \/ Group = {}
  /\ UNCHANGED <<trees, records, lock, memory, late, meddles, faults>>

NoteRestored(p) ==
  /\ Goto(p, "noteback", "item")
  /\ Record(p, "restored")
  /\ left' = [left EXCEPT ![p] = After(p)]
  /\ UNCHANGED <<trees, dir, want, qdir, copied, made, lock, mode, run, queue, alarm, plan,
                 quiet, late, meddles, faults>>

MakeQuarantine(p) ==
  /\ Goto(p, "quar", "quarmove")
  /\ qdir' = qdir \cup {run[p]}
  /\ UNCHANGED <<trees, dir, want, st, copied, made, lock, memory, late, meddles, faults>>

QuarantineMove(p) ==
  /\ Goto(p, "quarmove", "quarnote")
  /\ run[p] \in qdir
  /\ quar' = [quar EXCEPT ![run[p]][Item(p)] = InSlot(p)]
  /\ slot' = [slot EXCEPT ![run[p]][Item(p)] = None]
  /\ UNCHANGED <<saved, body, mounted, recent, records, lock, memory, late, meddles, faults>>

NoteQuarantined(p) ==
  /\ Goto(p, "quarnote", "quarcopy")
  /\ Record(p, "quarantined")
  /\ UNCHANGED <<trees, dir, want, qdir, copied, made, lock, memory, late, meddles, faults>>

\* The operator removed the quarantine directory meanwhile: an error ends
\* the apply.
QuarantineLost(p) ==
  /\ pc[p] \in {"quarmove", "quarcopy"} /\ run[p] \notin qdir
  /\ Leave(p)
  /\ UNCHANGED <<trees, records, meddles, faults>>

\* Fault: the capture goes on with its next candidate.
CopyManifest_Fault(p) ==
  /\ Goto(p, "quarcopy", "item")
  /\ run[p] \in qdir
  /\ copied' = copied \cup {run[p]}
  /\ alarm' = [alarm EXCEPT ![p] = TRUE]
  /\ left' = [left EXCEPT ![p] = @ \ {Item(p)}]
  /\ UNCHANGED <<trees, dir, want, st, qdir, made, lock, mode, run, queue, plan, quiet, late,
                 meddles, faults>>

CopyManifest(p) ==
  /\ Goto(p, "quarcopy", "item")
  /\ run[p] \in qdir
  /\ copied' = copied \cup {run[p]}
  /\ alarm' = [alarm EXCEPT ![p] = TRUE]
  /\ left' = [left EXCEPT ![p] = After(p)]
  /\ UNCHANGED <<trees, dir, want, st, qdir, made, lock, mode, run, queue, plan, quiet, late,
                 meddles, faults>>

-----------------------------------------------------------------------------
(* _finalize_run: a run with a slot left is kept; else the manifest is     *)
(* unlinked, then the directory.                                           *)

RunEnd(p) == IF mode[p] = "capture" THEN "end" ELSE "scan"

DropManifest(p) ==
  /\ Goto(p, "item", "rmdir")
  /\ left[p] = {} /\ \A n \in Names : slot[run[p]][n] = None
  /\ dir' = [dir EXCEPT ![run[p]] = "bare"]
  /\ want' = [want EXCEPT ![run[p]] = [n \in Names |-> None]]
  /\ st' = [st EXCEPT ![run[p]] = [n \in Names |-> "none"]]
  /\ UNCHANGED <<trees, qdir, copied, made, lock, memory, late, meddles, faults>>

KeepRun(p) ==
  /\ Goto(p, "item", RunEnd(p))
  /\ left[p] = {} /\ \E n \in Names : slot[run[p]][n] # None
  /\ UNCHANGED <<trees, records, lock, memory, late, meddles, faults>>

RemoveRun(p) ==
  /\ Goto(p, "rmdir", RunEnd(p))
  /\ \A n \in Names : slot[run[p]][n] = None
  /\ dir' = [dir EXCEPT ![run[p]] = "none"]
  /\ UNCHANGED <<trees, want, st, qdir, copied, made, lock, memory, late, meddles, faults>>

\* The final plan only reports.
End(p) ==
  /\ pc[p] = "end"
  /\ Leave(p)
  /\ UNCHANGED <<trees, records, meddles, faults>>

\* Killed, or an error the code lets propagate: no finalization.
Abort(p) ==
  /\ pc[p] # "idle"
  /\ Fault
  /\ Leave(p)
  /\ UNCHANGED <<trees, records, meddles>>

-----------------------------------------------------------------------------
(* Everyone else: the owner of the backups, `apply` and `sync` saving new  *)
(* ones, the operator.  None of them takes the retention lock.             *)

Meddle == meddles < MaxMeddle /\ meddles' = meddles + 1
Meddled == UNCHANGED <<slot, records, lock, pc, mode, run, left, queue, alarm, plan, faults>>

\* A kept object that leaves after the last check of the capturing pruner.
LeavesLate(o) ==
  late' = [p \in Pruners |-> IF pc[p] \in {"seal", "delete"} THEN late[p] \cup {o} ELSE late[p]]

\* A snapshot is copied in place: it is visible before it is complete.
Save(o, n) ==
  /\ Meddle /\ body[o] = "unborn" /\ saved[n] = None
  /\ saved' = [saved EXCEPT ![n] = o]
  /\ \E b \in {"whole"} \cup (IF o \in Links THEN {} ELSE {"edited"}) :
       body' = [body EXCEPT ![o] = b]
  /\ Touch(o)
  /\ UNCHANGED <<quar, mounted, late>> /\ Meddled

\* The copy is completed, or content is changed or repaired.
Alter(n) ==
  /\ Meddle /\ saved[n] \notin Links \cup {None}
  /\ body' = [body EXCEPT ![saved[n]] = IF @ = "whole" THEN "edited" ELSE "whole"]
  /\ Touch(saved[n])
  /\ UNCHANGED <<saved, quar, mounted, late>> /\ Meddled

Rename(m, n) ==
  /\ Meddle /\ saved[m] # None /\ saved[n] = None
  /\ saved' = [saved EXCEPT ![n] = saved[m], ![m] = None]
  /\ Touch(saved[m]) /\ LeavesLate(saved[m])
  /\ UNCHANGED <<quar, body, mounted>> /\ Meddled

Remove(n) ==
  /\ Meddle /\ saved[n] # None
  /\ saved' = [saved EXCEPT ![n] = None]
  /\ body' = [body EXCEPT ![saved[n]] = "gone"]
  /\ mounted' = mounted \ {saved[n]}
  /\ LeavesLate(saved[n])
  /\ UNCHANGED <<quar, recent, quiet>> /\ Meddled

Mount(o) ==
  /\ Meddle /\ o \notin Links /\ body[o] \notin {"unborn", "gone"}
  /\ mounted' = IF o \in mounted THEN mounted \ {o} ELSE mounted \cup {o}
  /\ UNCHANGED <<saved, quar, body, recent, quiet, late>> /\ Meddled

\* Fifteen minutes without a change.
Quiesce(o) ==
  /\ o \in recent
  /\ recent' = recent \ {o}
  /\ UNCHANGED <<saved, quar, body, mounted, quiet, late, meddles>> /\ Meddled

\* "quarantined capture requires operator review and manual removal"
Resolve(r) ==
  /\ Meddle /\ r \in qdir /\ BlockedQuarantine(r)
  /\ qdir' = qdir \ {r} /\ copied' = copied \ {r}
  /\ LET S == {quar[r][n] : n \in InQuarantine(r)}
     IN  /\ body' = [o \in Objects |-> IF o \in S THEN "gone" ELSE body[o]]
         /\ mounted' = mounted \ S
  /\ quar' = [quar EXCEPT ![r] = [n \in Names |-> None]]
  /\ UNCHANGED <<saved, slot, recent, dir, want, st, made, lock, pc, memory, late, faults>>

\* Someone exchanges a captured tree; not while its rmtree runs.
Exchange(r, n, o) ==
  /\ Tamper /\ Meddle /\ body[o] = "unborn"
  /\ slot[r][n] # None /\ body[slot[r][n]] # "partial"
  /\ slot' = [slot EXCEPT ![r][n] = o]
  /\ body' = [body EXCEPT ![o] = "whole"]
  /\ UNCHANGED <<saved, quar, mounted, recent, records, lock, pc, memory, late, faults>>

Others ==
  \/ \E o \in Objects, n \in Names : Save(o, n)
  \/ \E n \in Names : Alter(n) \/ Remove(n)
  \/ \E m, n \in Names : Rename(m, n)
  \/ \E o \in Objects : Mount(o) \/ Quiesce(o)
  \/ \E r \in Runs : Resolve(r)
  \/ \E r \in Runs, n \in Names, o \in Objects : Exchange(r, n, o)

-----------------------------------------------------------------------------
Apply(p) ==
  TakeLock(p) \/ LockBusy(p) \/ RecoverRun(p) \/ RecoverItem(p) \/ Sweep(p) \/ StopFresh(p)
  \/ MakeRun(p) \/ WriteIntent(p)
Take(p) ==
  CheckKept(p) \/ Move(p) \/ MoveBusy(p) \/ NoteCaptured(p) \/ Verify(p) \/ Recheck(p)
  \/ Seal(p)
Delete(p) == StartErase(p) \/ RefuseErase(p) \/ EraseFails(p) \/ Erase(p) \/ NoteDeleted(p)
Return(p) ==
  Settle(p) \/ PutBack(p) \/ PutBackFails(p) \/ NoteRestored(p) \/ MakeQuarantine(p)
  \/ QuarantineMove(p) \/ QuarantineLost(p) \/ NoteQuarantined(p) \/ CopyManifest(p)
Close(p) == DropManifest(p) \/ KeepRun(p) \/ RemoveRun(p) \/ End(p)

Step(p) == Review(p) \/ Apply(p) \/ Take(p) \/ Delete(p) \/ Return(p) \/ Close(p)

Next == Others \/ \E p \in Pruners : Step(p) \/ Abort(p)

Spec == Init /\ [][Next]_vars

(* The operator runs prune again and again, and a running pruner goes on.  *)
FairSpec == Spec /\ \A p \in Pruners : WF_vars(Step(p))

-----------------------------------------------------------------------------
States ==
  {"idle", "reviewed", "scan", "item", "delete", "erasing", "erased", "settle", "back",
   "noteback", "quar", "quarmove", "quarnote", "quarcopy", "rmdir", "fresh", "intent", "move",
   "note", "verify", "recheck", "seal", "end"}
Bodies == {"unborn", "whole", "edited", "partial", "gone"}
ItemStates == Unsettled \cup {"none", "deleted", "restored", "quarantined"}
Pairs == Names \X Objects
Plans == [acts: SUBSET Pairs, kept: SUBSET Pairs, deferred: SUBSET Names]
Holders == [Runs -> [Names -> Objects \cup {None}]]

TypeOK ==
  /\ saved \in [Names -> Objects \cup {None}]
  /\ slot \in Holders /\ quar \in Holders /\ want \in Holders
  /\ body \in [Objects -> Bodies]
  /\ mounted \subseteq Objects /\ recent \subseteq Objects
  /\ dir \in [Runs -> {"none", "bare", "live"}]
  /\ st \in [Runs -> [Names -> ItemStates]]
  /\ \A r \in Runs, n \in Names : st[r][n] # "none" => want[r][n] # None
  /\ qdir \subseteq Runs /\ copied \subseteq Runs
  /\ lock \in Pruners \cup {None}
  /\ pc \in [Pruners -> States]
  /\ mode \in [Pruners -> {"recover", "capture"}]
  /\ run \in [Pruners -> Runs \cup {None}]
  /\ left \in [Pruners -> SUBSET Names]
  /\ queue \in [Pruners -> SUBSET Runs]
  /\ alarm \in [Pruners -> BOOLEAN]
  /\ plan \in [Pruners -> Plans]
  /\ quiet \in [Pruners -> SUBSET Objects]
  /\ late \in [Pruners -> SUBSET Objects]
  /\ made \in 0..MaxRuns /\ meddles \in 0..MaxMeddle /\ faults \in 0..MaxFaults

(* The mapping to RetentionPromise: where an object is, and what the       *)
(* manifest of its slot says of it.                                        *)
SlotOf(o, r, n) == slot[r][n] = o
PhaseOf(o) ==
  IF \E n \in Names : saved[n] = o THEN "saved"
  ELSE IF \E r \in Runs, n \in Names : quar[r][n] = o THEN "quarantined"
  ELSE IF \E r \in Runs, n \in Names : SlotOf(o, r, n) THEN
         IF body[o] = "partial" THEN "erasing"
         ELSE IF \E r \in Runs, n \in Names :
                   SlotOf(o, r, n) /\ st[r][n] = "verified" /\ want[r][n] = o
              THEN "approved" ELSE "held"
  ELSE IF body[o] = "unborn" THEN "unborn" ELSE "gone"
At(o, n) == saved[n] = o \/ \E r \in Runs : slot[r][n] = o \/ quar[r][n] = o
NameOf(o) == IF \E n \in Names : At(o, n) THEN CHOOSE n \in Names : At(o, n) ELSE None

(* A manifest that says "deleted" tells the truth: the reviewed tree was   *)
(* not restored and is not quarantined, however a crash and a recovery     *)
(* divided the work.  It is in no place of the bridge: it was erased, or   *)
(* whoever exchanged it took it away.                                      *)
DeletedIsGone ==
  \A r \in Runs, n \in Names : st[r][n] = "deleted" => PhaseOf(want[r][n]) = "gone"

(* A captured tree always lies in a run whose manifest still has to settle *)
(* it: recovery never meets a slot it would refuse to touch.               *)
CapturesAccounted ==
  \A r \in Runs, n \in Names :
    slot[r][n] # None => dir[r] = "live" /\ st[r][n] \in Unsettled

(* The manifests can be relied on: what they report as deleted is gone,    *)
(* and what they do not report yet is still where they say.                *)
ManifestsTrue == DeletedIsGone /\ CapturesAccounted

(* A capture erases only while every kept sibling is in place, but for one *)
(* that somebody took away after the last check, which nothing can close.  *)
KeptWhenErased ==
  [][\A p \in Pruners :
       mode[p] = "capture" /\ pc[p] = "delete" /\ pc'[p] = "erasing" =>
         \A k \in plan[p].kept : saved[k[1]] = k[2] \/ k[2] \in late[p]]_vars

(* No tree's erasure begins while its group holds fewer than Limit         *)
(* snapshots, but for ones taken after the last check: what ADR-0008 says  *)
(* of the check of the kept siblings.                                      *)
FloorKept ==
  [][\A p \in Pruners :
       pc[p] = "delete" /\ pc'[p] = "erasing" /\ body[InSlot(p)] = "whole" =>
         Cardinality(Group) >= Limit \/ late[p] # {}]_vars

(* What a capturing pruner believes of its manifest and slot is so: the    *)
(* recovery of no other pruner works on a live run.                        *)
LiveRunUntouched ==
  \A p \in Pruners : mode[p] = "capture" =>
    /\ pc[p] \in {"move", "note"} => st[run[p]][Item(p)] = "intent"
    /\ pc[p] \in {"verify", "recheck", "seal"} => st[run[p]][Item(p)] = "captured"
    /\ pc[p] \in {"delete", "erasing"} => st[run[p]][Item(p)] = "verified"
    /\ pc[p] \in {"note", "verify", "recheck", "seal", "delete", "erasing"} =>
         dir[run[p]] = "live" /\ InSlot(p) # None

(* Nothing is captured while a quarantined tree waits for the operator.    *)
QuarantineStops ==
  [][\A r \in Runs, n \in Names :
       slot[r][n] = None /\ slot'[r][n] # None => \A q \in Runs : InQuarantine(q) = {}]_vars

(* Captures and their erasures stay within what the operator reviewed: the *)
(* siblings that were to be kept are there, and no earlier question is open. *)
CapturesGuarded == KeptWhenErased /\ QuarantineStops

(* Every interrupted run is settled in the end, by whatever prune runs     *)
(* next, unless something needs the operator.                              *)
RunsSettled ==
  []<>(Blocked(Objects \ recent) \/ \A r \in Runs : dir[r] = "none")

Promise == INSTANCE RetentionPromise WITH
  phase <- [o \in Objects |-> PhaseOf(o)],
  name <- [o \in Objects |-> NameOf(o)],
  intact <- {o \in Objects : body[o] = "whole"},
  mounted <- mounted

(* The capture protocol implements what retention promises for every tree. *)
PromiseKept == Promise!PSpec
=============================================================================
