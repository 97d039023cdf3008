--------------------------- MODULE SkillReconcile ---------------------------
(***************************************************************************)
(* Reconciliation of the standalone Skills of one target by `apply` and    *)
(* `sync-skills` (the Skill parts of planner.py and applier.py, and        *)
(* filesystem.py): links, managed copies with a marker, their updates and  *)
(* removals through a verified backup and a local swap, and the durable    *)
(* ownership records that decide what the next plan may touch.             *)
(*                                                                         *)
(* Every rename, unlink and record is a step; a command may be killed      *)
(* between any two or be ended by an exception, and the user changes       *)
(* sources, selection, link mode and destinations meanwhile: no lock is    *)
(* held.                                                                   *)
(*                                                                         *)
(* Content is compared by digest in the code, so it stands for its digest; *)
(* bytecode caches, which the digests ignore, are no content.              *)
(***************************************************************************)
EXTENDS Naturals

CONSTANTS
  Skills,
  Versions,    \* contents a canonical source can have
  Procs,       \* running commands
  Commands,    \* those the user runs, of "apply" and "sync"
  MaxMeddle,   \* bound: steps of the user
  MaxFaults,   \* bound: kills, exceptions and failed system calls
  None

ASSUME BoundsAssumption == MaxMeddle \in Nat /\ MaxFaults \in Nat
ASSUME CommandsAssumption == Commands \subseteq {"apply", "sync"}
ASSUME VersionsAssumption == Versions \cap {"canonical", "own", "torn"} = {}

Modes == {"symlink", "copy"}

\* What lies at a path.  `mark` is the digest in the marker of a copy; data
\* "own" is the user's, "torn" what a failed removal leaves.
Nodes ==
  [kind: {"link"}, mark: {None}, data: {"canonical", "own"}]
    \cup [kind: {"tree"}, mark: Versions \cup {None}, data: Versions \cup {"own", "torn"}]
ASSUME NoneAssumption ==
  /\ None \notin Skills \cup Versions \cup Procs \cup Modes \cup {"apply", "sync"}
  /\ None \notin Nodes
Link == [kind |-> "link", mark |-> None, data |-> "canonical"]
Copy(v) == [kind |-> "tree", mark |-> v, data |-> v]
OwnLink == [kind |-> "link", mark |-> None, data |-> "own"]
Edited(m) == [kind |-> "tree", mark |-> m, data |-> "own"]
OwnTree == [kind |-> "tree", mark |-> None, data |-> "own"]

VARIABLES
  source,     \* content of each canonical Skill
  selected,   \* Skills the catalog and governance give the target
  linkmode,   \* configured mode, AUTO resolved
  dest,       \* node at each destination, or None
  owned,      \* owned[n]: mode in the ownership record of the target, or None
  spare,      \* retained backups of each Skill
  litter,     \* swaps left beside each destination
  pc,         \* control state of each command
  cmd,        \* "apply" or "sync"
  mode,       \* link mode the command has read
  plan,       \* reviewed plan
  chosen,     \* Skills selected when the command rebuilt the plan
  memo,       \* ownership it works from
  todo,       \* Skills whose actions are to come
  at,         \* Skill of the current action
  want,       \* validated node that is to be replaced or removed
  saved,      \* a verified backup of it has been made
  old,        \* that node, displaced
  late,       \* the user wrote there after the last validation (history)
  excused,    \* Skills that may conflict by the user's doing, or where an
              \* install was left without a record (history)
  meddles, faults   \* counters, for the bounds

disk == <<dest, owned, spare, litter>>
catalog == <<source, selected, linkmode>>
task == <<cmd, mode, plan, chosen, memo, todo>>
action == <<at, want, saved, old, late>>
vars == <<disk, catalog, pc, task, action, excused, meddles, faults>>

NoPlan == [n \in Skills |-> [do |-> "none", digest |-> None]]

Init ==
  /\ source \in [Skills -> Versions]
  /\ selected \in SUBSET Skills
  /\ linkmode \in Modes
  /\ dest = [n \in Skills |-> None]
  /\ owned = [n \in Skills |-> None]
  /\ spare = [n \in Skills |-> {}]
  /\ litter = spare
  /\ pc = [p \in Procs |-> "idle"]
  /\ cmd = [p \in Procs |-> None]
  /\ mode = cmd
  /\ plan = [p \in Procs |-> NoPlan]
  /\ chosen = [p \in Procs |-> {}]
  /\ memo = [p \in Procs |-> owned]
  /\ todo = chosen
  /\ at = cmd /\ want = cmd /\ old = cmd
  /\ saved = [p \in Procs |-> FALSE] /\ late = saved
  /\ excused = {}
  /\ meddles = 0 /\ faults = 0

Goto(p, from, to) == pc[p] = from /\ pc' = [pc EXCEPT ![p] = to]
Fault == faults < MaxFaults /\ faults' = faults + 1

-----------------------------------------------------------------------------
(* build_plan: one action for each Skill, read from the disk.              *)

IsLink(x) == x # None /\ x.kind = "link"
\* An unmodified managed copy.
Intact(x) == x # None /\ x.kind = "tree" /\ x.mark # None /\ x.data = x.mark

PlanLink(n) ==
  IF dest[n] = None THEN "link"
  ELSE IF dest[n] = Link /\ owned[n] = "symlink" THEN "noop"
  ELSE "conflict"

PlanCopy(n) ==
  IF dest[n] = None THEN "create"
  ELSE IF dest[n] = Link /\ owned[n] = "symlink" THEN "migrate"
  ELSE IF ~ Intact(dest[n]) \/ owned[n] = None THEN "conflict"
  ELSE IF owned[n] = "symlink" THEN
         IF dest[n].data = source[n] THEN "update" ELSE "conflict"
  ELSE IF dest[n].data = source[n] THEN "noop" ELSE "update"

PlanRemoval(n) ==
  IF dest[n] = None THEN "gone"
  ELSE IF owned[n] = "symlink" /\ dest[n] = Link THEN "unlink"
  ELSE IF owned[n] = "copy" /\ Intact(dest[n]) THEN "remove"
  ELSE "conflict"

Do(n, m) ==
  IF n \in selected THEN IF m = "symlink" THEN PlanLink(n) ELSE PlanCopy(n)
  ELSE IF owned[n] # None THEN PlanRemoval(n) ELSE "none"

PlanOf(m) ==
  [n \in Skills |->
    [do |-> Do(n, m),
     digest |-> IF n \in selected THEN source[n]
                ELSE IF Do(n, m) = "remove" THEN dest[n].mark ELSE None]]

Changing == {"link", "create", "migrate", "update", "unlink", "remove"}
Conflicts(m) == \E n \in Skills : Do(n, m) = "conflict"

-----------------------------------------------------------------------------
(* The command up to its first action.                                     *)

Review(p) ==
  /\ Goto(p, "idle", "reviewed")
  /\ ~ Conflicts(linkmode)
  /\ \E c \in Commands : cmd' = [cmd EXCEPT ![p] = c]
  /\ mode' = [mode EXCEPT ![p] = linkmode]
  /\ plan' = [plan EXCEPT ![p] = PlanOf(linkmode)]
  /\ UNCHANGED <<disk, catalog, chosen, memo, todo, action, excused, meddles, faults>>

\* The command ends; a swap it has not removed stays, and so does the
\* backup if `kept`.
Leave(p, kept) ==
  /\ pc' = [pc EXCEPT ![p] = "idle"]
  /\ litter' = IF old[p] = None THEN litter ELSE [litter EXCEPT ![at[p]] = @ \cup {old[p]}]
  /\ spare' = IF kept THEN [spare EXCEPT ![at[p]] = @ \cup {want[p]}] ELSE spare
  /\ cmd' = [cmd EXCEPT ![p] = None] /\ mode' = [mode EXCEPT ![p] = None]
  /\ plan' = [plan EXCEPT ![p] = NoPlan]
  /\ chosen' = [chosen EXCEPT ![p] = {}] /\ todo' = [todo EXCEPT ![p] = {}]
  /\ memo' = [memo EXCEPT ![p] = [n \in Skills |-> None]]
  /\ at' = [at EXCEPT ![p] = None]
  /\ want' = [want EXCEPT ![p] = None] /\ old' = [old EXCEPT ![p] = None]
  /\ saved' = [saved EXCEPT ![p] = FALSE] /\ late' = [late EXCEPT ![p] = FALSE]

\* "changed after planning; review a fresh plan", or conflicts.
Refuse(p) ==
  /\ pc[p] = "reviewed"
  /\ PlanOf(mode[p]) # plan[p] \/ Conflicts(mode[p])
  /\ Leave(p, FALSE)
  /\ UNCHANGED <<dest, owned, catalog, excused, meddles, faults>>

Begin(p) ==
  /\ Goto(p, "reviewed", "next")
  /\ PlanOf(mode[p]) = plan[p] /\ ~ Conflicts(mode[p])
  /\ chosen' = [chosen EXCEPT ![p] = selected]
  /\ memo' = [memo EXCEPT ![p] = owned]
  /\ todo' = [todo EXCEPT ![p] = {n \in Skills : plan[p][n].do \in Changing}]
  /\ UNCHANGED <<disk, catalog, cmd, mode, plan, action, excused, meddles, faults>>

Act(p) == plan[p][at[p]].do
Digest(p) == plan[p][at[p]].digest
Creates(p) == Act(p) \in {"link", "create"}
Checkpointed(p) == cmd[p] = "sync" /\ Creates(p)

Pick(p) ==
  /\ pc[p] = "next"
  /\ \E n \in todo[p] :
       /\ at' = [at EXCEPT ![p] = n]
       /\ pc' = [pc EXCEPT ![p] =
            IF cmd[p] = "sync" /\ plan[p][n].do \in {"link", "create"} THEN "checkpoint"
            ELSE "start"]
  /\ UNCHANGED <<disk, catalog, task, want, saved, old, late, excused, meddles,
                 faults>>

\* Fault: the record is written only when all is done.
Checkpoint_Fault(p) ==
  /\ Goto(p, "checkpoint", "start")
  /\ UNCHANGED <<disk, catalog, task, action, excused, meddles, faults>>

\* write_skill_state_entries before a create of `sync-skills`.
Checkpoint(p) ==
  /\ Goto(p, "checkpoint", "start")
  /\ owned' = [memo[p] EXCEPT ![at[p]] = mode[p]]
  /\ UNCHANGED <<dest, spare, litter, catalog, task, action, excused, meddles, faults>>

\* An exception leaves the action: the checkpoint of a create is undone.
Fail(p, kept) ==
  IF Checkpointed(p)
  THEN /\ pc' = [pc EXCEPT ![p] = "rollback"]
       /\ UNCHANGED <<spare, litter, task, action>>
  ELSE Leave(p, kept)

Rollback(p) ==
  /\ pc[p] = "rollback"
  /\ owned' = memo[p]
  /\ Leave(p, FALSE)
  /\ UNCHANGED <<dest, catalog, excused, meddles, faults>>

-----------------------------------------------------------------------------
(* apply_link and apply_copy, new destinations.                            *)

\* The canonical source still has the planned digest, and a copy of it is
\* staged and verified; or not.
Stage(p) ==
  /\ Goto(p, "start", IF Creates(p) THEN "put" ELSE "validate")
  /\ Act(p) \notin {"unlink", "remove"} /\ source[at[p]] = Digest(p)
  /\ UNCHANGED <<disk, catalog, task, action, excused, meddles, faults>>

StageFails(p) ==
  /\ pc[p] = "start" /\ Act(p) \notin {"unlink", "remove"}
  /\ IF source[at[p]] = Digest(p) THEN Fault ELSE UNCHANGED faults
  /\ Fail(p, FALSE)
  /\ UNCHANGED <<dest, owned, catalog, excused, meddles>>

Made(p) == IF Act(p) = "link" THEN Link ELSE Copy(Digest(p))

\* A symlink is created, or the staged tree is renamed, only where nothing
\* is.  `apply` has made no record of it.
Put(p) ==
  /\ Goto(p, "put", "landed")
  /\ dest[at[p]] = None
  /\ dest' = [dest EXCEPT ![at[p]] = Made(p)]
  /\ excused' = IF cmd[p] = "apply" THEN excused \cup {at[p]} ELSE excused
  /\ UNCHANGED <<owned, spare, litter, catalog, task, action, meddles, faults>>

PutRefused(p) ==
  /\ pc[p] = "put" /\ dest[at[p]] # None
  /\ Fail(p, FALSE)
  /\ UNCHANGED <<dest, owned, catalog, excused, meddles, faults>>

-----------------------------------------------------------------------------
(* apply_copy of an update, apply_remove of a copy or a link.              *)

\* What a reviewed action expects to find.
Expected(p) ==
  IF Act(p) \in {"migrate", "unlink"} THEN dest[at[p]] = Link
  ELSE /\ Intact(dest[at[p]])
       /\ Act(p) = "remove" => dest[at[p]].mark = Digest(p)

Validate(p) ==
  /\ pc[p] = "validate" \/ (pc[p] = "start" /\ Act(p) \in {"unlink", "remove"})
  /\ IF Expected(p)
     THEN /\ pc' = [pc EXCEPT ![p] = IF Act(p) = "unlink" THEN "unlink" ELSE "snapshot"]
          /\ want' = [want EXCEPT ![p] = dest[at[p]]]
          /\ UNCHANGED <<spare, litter, task, at, saved, old, late>>
     ELSE Fail(p, FALSE)
  /\ UNCHANGED <<dest, owned, catalog, excused, meddles, faults>>

\* Fault: an update goes on without a backup.
Snapshot_Fault(p) ==
  /\ Goto(p, "snapshot", "revalidate")
  /\ saved' = [saved EXCEPT ![p] = Act(p) = "remove"]
  /\ UNCHANGED <<disk, catalog, task, at, want, old, late, excused, meddles, faults>>

\* The destination is copied to the backup, and the backup verified.
Snapshot(p) ==
  /\ Goto(p, "snapshot", "revalidate")
  /\ dest[at[p]] = want[p]
  /\ saved' = [saved EXCEPT ![p] = TRUE]
  /\ UNCHANGED <<disk, catalog, task, at, want, old, late, excused, meddles, faults>>

SnapshotFails(p) ==
  /\ pc[p] = "snapshot"
  /\ IF dest[at[p]] = want[p] THEN Fault ELSE UNCHANGED faults
  /\ Fail(p, FALSE)
  /\ UNCHANGED <<dest, owned, catalog, excused, meddles>>

\* Fault: the destination is not looked at again after the backup.
Revalidate_Fault(p) ==
  /\ Goto(p, "revalidate", "swap")
  /\ UNCHANGED <<disk, catalog, task, action, excused, meddles, faults>>

\* Drift while the backup was made aborts.
Revalidate(p) ==
  /\ pc[p] = "revalidate"
  /\ IF dest[at[p]] = want[p]
     THEN /\ pc' = [pc EXCEPT ![p] = "swap"]
          /\ UNCHANGED <<spare, litter, task, action>>
     ELSE Fail(p, FALSE)
  /\ UNCHANGED <<dest, owned, catalog, excused, meddles, faults>>

\* Fault: a destination that is gone counts as swapped.
Swap_Fault(p) ==
  /\ Goto(p, "swap", IF Act(p) = "remove" THEN "drop" ELSE "install")
  /\ old' = [old EXCEPT ![p] = dest[at[p]]]
  /\ dest' = [dest EXCEPT ![at[p]] = None]
  /\ UNCHANGED <<owned, spare, litter, catalog, task, at, want, saved, late, excused, meddles,
                 faults>>

\* Whatever is there now is renamed aside.
Swap(p) ==
  /\ Goto(p, "swap", IF Act(p) = "remove" THEN "drop" ELSE "install")
  /\ dest[at[p]] # None
  /\ old' = [old EXCEPT ![p] = dest[at[p]]]
  /\ dest' = [dest EXCEPT ![at[p]] = None]
  /\ UNCHANGED <<owned, spare, litter, catalog, task, at, want, saved, late, excused, meddles,
                 faults>>

SwapFails(p) ==
  /\ pc[p] = "swap"
  /\ IF dest[at[p]] = None THEN UNCHANGED faults ELSE Fault
  /\ Fail(p, FALSE)
  /\ UNCHANGED <<dest, owned, catalog, excused, meddles>>

Install(p) ==
  /\ Goto(p, "install", "drop")
  /\ dest[at[p]] = None
  /\ dest' = [dest EXCEPT ![at[p]] = Made(p)]
  /\ UNCHANGED <<owned, spare, litter, catalog, task, action, excused, meddles, faults>>

InstallFails(p) ==
  /\ Goto(p, "install", "unswap")
  /\ IF dest[at[p]] = None THEN Fault ELSE UNCHANGED faults
  /\ UNCHANGED <<disk, catalog, task, action, excused, meddles>>

\* os.replace puts a link over a link, and a tree where nothing is.
Replaceable(p) ==
  dest[at[p]] = None \/ (IsLink(old[p]) /\ IsLink(dest[at[p]]))

\* The swap is put back and the backup dropped, or both stay.
Unswap(p) ==
  /\ Goto(p, "unswap", "failed")
  /\ IF Replaceable(p)
     THEN /\ dest' = [dest EXCEPT ![at[p]] = old[p]]
          /\ old' = [old EXCEPT ![p] = None]
          /\ saved' = [saved EXCEPT ![p] = FALSE]
     ELSE UNCHANGED <<dest, old, saved>>
  /\ UNCHANGED <<owned, spare, litter, catalog, task, at, want, late, excused, meddles, faults>>

\* The swap is removed.
Drop(p) ==
  /\ Goto(p, "drop", "landed")
  /\ old' = [old EXCEPT ![p] = None]
  /\ UNCHANGED <<disk, catalog, task, at, want, saved, late, excused, meddles, faults>>

Torn(x) ==
  IF x.kind = "tree" THEN [kind |-> "tree", mark |-> x.mark, data |-> "torn"] ELSE x

\* It fails half-way: an update is in place all the same, a removal has to
\* put back what the backup holds.
DropFails(p) ==
  /\ Goto(p, "drop", IF Act(p) = "remove" THEN "restore" ELSE "failed")
  /\ Fault
  /\ old' = [old EXCEPT ![p] = Torn(@)]
  /\ UNCHANGED <<disk, catalog, task, at, want, saved, late, excused, meddles>>

\* Fault: the damaged swap is put back.
Restore_Fault(p) ==
  /\ Goto(p, "restore", "failed")
  /\ dest' = IF dest[at[p]] = None THEN [dest EXCEPT ![at[p]] = old[p]] ELSE dest
  /\ UNCHANGED <<owned, spare, litter, catalog, task, action, excused, meddles, faults>>

\* _restore_copy_backup_to_destination, never over something; then the
\* damaged swap is removed, or stays.  The command fails in any case.
Restore(p) ==
  /\ Goto(p, "restore", "failed")
  /\ IF dest[at[p]] = None
     THEN /\ dest' = [dest EXCEPT ![at[p]] = want[p]]
          /\ \E rest \in {None, old[p]} : old' = [old EXCEPT ![p] = rest]
     ELSE UNCHANGED <<dest, old>>
  /\ UNCHANGED <<owned, spare, litter, catalog, task, at, want, saved, late, excused, meddles,
                 faults>>

Failed(p) ==
  /\ pc[p] = "failed"
  /\ Fail(p, saved[p])
  /\ UNCHANGED <<dest, owned, catalog, excused, meddles, faults>>

\* Path.unlink takes whatever is no directory.
Unlink(p) ==
  /\ Goto(p, "unlink", "landed")
  /\ IsLink(dest[at[p]])
  /\ dest' = [dest EXCEPT ![at[p]] = None]
  /\ UNCHANGED <<owned, spare, litter, catalog, task, action, excused, meddles, faults>>

UnlinkFails(p) ==
  /\ pc[p] = "unlink"
  /\ ~ IsLink(dest[at[p]])
  /\ Fail(p, FALSE)
  /\ UNCHANGED <<dest, owned, catalog, excused, meddles, faults>>

-----------------------------------------------------------------------------
(* The end of an action and of the command.                                *)

Landed(p) ==
  /\ Goto(p, "landed", "next")
  /\ memo' = IF Checkpointed(p) THEN [memo EXCEPT ![p][at[p]] = mode[p]] ELSE memo
  /\ todo' = [todo EXCEPT ![p] = @ \ {at[p]}]
  /\ spare' = IF saved[p] THEN [spare EXCEPT ![at[p]] = @ \cup {want[p]}] ELSE spare
  /\ at' = [at EXCEPT ![p] = None] /\ want' = [want EXCEPT ![p] = None]
  /\ saved' = [saved EXCEPT ![p] = FALSE] /\ late' = [late EXCEPT ![p] = FALSE]
  /\ UNCHANGED <<dest, owned, litter, catalog, cmd, mode, plan, chosen, old, excused, meddles,
                 faults>>

\* Fault: the record holds every Skill of the catalog, not the selected ones.
Finish_Fault(p) ==
  /\ pc[p] = "next" /\ todo[p] = {}
  /\ owned' = [n \in Skills |-> mode[p]]
  /\ Leave(p, FALSE)
  /\ UNCHANGED <<dest, catalog, excused, meddles, faults>>

\* write_skill_state, when every action has succeeded.
Finish(p) ==
  /\ pc[p] = "next" /\ todo[p] = {}
  /\ owned' = [n \in Skills |-> IF n \in chosen[p] THEN mode[p] ELSE None]
  /\ Leave(p, FALSE)
  /\ UNCHANGED <<dest, catalog, excused, meddles, faults>>

Running == {"start", "put", "validate", "snapshot", "revalidate", "swap", "install", "unswap",
            "drop", "restore", "failed", "unlink", "landed"}

\* Ctrl-C or another exception ends the action, also one that has just
\* created its destination: its checkpoint is undone all the same.
Interrupt(p) ==
  /\ pc[p] \in Running
  /\ Fault
  /\ Fail(p, saved[p])
  /\ excused' = IF pc[p] = "landed" /\ Creates(p) THEN excused \cup {at[p]} ELSE excused
  /\ UNCHANGED <<dest, owned, catalog, meddles>>

\* Killed, or an exception outside an action, as of a record that fails.
Kill(p) ==
  /\ pc[p] # "idle"
  /\ Fault
  /\ Leave(p, saved[p])
  /\ UNCHANGED <<dest, owned, catalog, excused, meddles>>

-----------------------------------------------------------------------------
(* The user.                                                               *)

Meddle == meddles < MaxMeddle /\ meddles' = meddles + 1
Others == UNCHANGED <<owned, spare, litter, pc, task, at, want, saved, old, faults>>

EditSource(n, v) ==
  /\ Meddle /\ v # source[n]
  /\ source' = [source EXCEPT ![n] = v]
  /\ excused' = excused \cup {n}
  /\ UNCHANGED <<selected, linkmode, dest, late>> /\ Others

Select(n) ==
  /\ Meddle
  /\ selected' = IF n \in selected THEN selected \ {n} ELSE selected \cup {n}
  /\ UNCHANGED <<source, linkmode, dest, late, excused>> /\ Others

\* Copies do not become links again: a conflict by design.
SwitchMode ==
  /\ Meddle
  /\ linkmode' = IF linkmode = "symlink" THEN "copy" ELSE "symlink"
  /\ excused' = IF linkmode = "copy" THEN Skills ELSE excused
  /\ UNCHANGED <<source, selected, dest, late>> /\ Others

\* Something of the user's own, or nothing, takes the place of what is
\* there; a managed copy may also be edited.
Write(n) ==
  /\ Meddle
  /\ \E x \in {None, OwnLink, OwnTree}
              \cup (IF Intact(dest[n]) THEN {Edited(dest[n].mark)} ELSE {}) :
       /\ x # dest[n]
       /\ dest' = [dest EXCEPT ![n] = x]
  /\ late' = [p \in Procs |->
       late[p] \/ (at[p] = n /\ pc[p] \in {"swap", "install", "unswap", "unlink"})]
  /\ UNCHANGED <<catalog, excused>> /\ Others

User ==
  \/ \E n \in Skills, v \in Versions : EditSource(n, v)
  \/ \E n \in Skills : Select(n) \/ Write(n)
  \/ SwitchMode

-----------------------------------------------------------------------------
Prepare(p) == Review(p) \/ Refuse(p) \/ Begin(p) \/ Pick(p) \/ Checkpoint(p) \/ Rollback(p)
Create(p) == Stage(p) \/ StageFails(p) \/ Put(p) \/ PutRefused(p)
Replace(p) ==
  Validate(p) \/ Snapshot(p) \/ SnapshotFails(p) \/ Revalidate(p) \/ Swap(p) \/ SwapFails(p)
  \/ Install(p) \/ InstallFails(p) \/ Unswap(p)
Remove(p) ==
  Drop(p) \/ DropFails(p) \/ Restore(p) \/ Failed(p) \/ Unlink(p) \/ UnlinkFails(p)
Step(p) == Prepare(p) \/ Create(p) \/ Replace(p) \/ Remove(p) \/ Landed(p) \/ Finish(p)

Next == User \/ \E p \in Procs : Step(p) \/ Interrupt(p) \/ Kill(p)

Spec == Init /\ [][Next]_vars

(* The user runs a command again and again, and a running command goes on. *)
FairSpec == Spec /\ \A p \in Procs : WF_vars(Step(p))

-----------------------------------------------------------------------------
States == Running \cup {"idle", "reviewed", "next", "checkpoint", "rollback"}
Acts == Changing \cup {"none", "noop", "gone", "conflict"}
Records == [Skills -> Modes \cup {None}]

TypeOK ==
  /\ source \in [Skills -> Versions] /\ selected \subseteq Skills /\ linkmode \in Modes
  /\ dest \in [Skills -> Nodes \cup {None}]
  /\ owned \in Records
  /\ spare \in [Skills -> SUBSET Nodes] /\ litter \in [Skills -> SUBSET Nodes]
  /\ pc \in [Procs -> States]
  /\ cmd \in [Procs -> {"apply", "sync", None}]
  /\ mode \in [Procs -> Modes \cup {None}]
  /\ plan \in [Procs -> [Skills -> [do: Acts, digest: Versions \cup {None}]]]
  /\ chosen \in [Procs -> SUBSET Skills] /\ todo \in [Procs -> SUBSET Skills]
  /\ memo \in [Procs -> Records]
  /\ at \in [Procs -> Skills \cup {None}]
  /\ want \in [Procs -> Nodes \cup {None}] /\ old \in [Procs -> Nodes \cup {None}]
  /\ saved \in [Procs -> BOOLEAN] /\ late \in [Procs -> BOOLEAN]
  /\ excused \subseteq Skills
  /\ meddles \in 0..MaxMeddle /\ faults \in 0..MaxFaults
  /\ \A p \in Procs :
       /\ pc[p] \in Running \cup {"checkpoint", "rollback"} => at[p] \in Skills
       /\ saved[p] => want[p] # None
       /\ pc[p] \in {"install", "unswap", "drop", "restore"} => old[p] # None

Own(x) == x # None /\ x.data = "own"
\* Every node of a Skill that is at its destination or swapped aside.
Held(n) ==
  ({dest[n]} \cup {old[p] : p \in {q \in Procs : at[q] = n}} \cup litter[n]) \ {None}

(* No command destroys what the user has put at a destination, by removal, *)
(* update, restoration or the failure of one, unless it came there after   *)
(* the last validation, a window that no check can close.  So with one     *)
(* command at a time; nothing in the code keeps two of them apart.         *)
UserContentKept ==
  [][pc' # pc =>
      \A n \in Skills : \A x \in Held(n) :
        Own(x) => x \in Held(n)' \/ (\E p \in Procs : at[p] = n /\ late[p])]_vars

(* What the bridge had installed, link or copy, and a command swaps out    *)
(* and removes is in a retained backup, also when that removal fails.      *)
Backed(n) == spare[n] \cup {want[p] : p \in {q \in Procs : at[q] = n /\ saved[q]}}
BackupKept ==
  [][\A p \in Procs :
      pc[p] = "drop" /\ pc'[p] \in {"landed", "restore", "failed"} /\ ~ Own(old[p]) =>
        old[p] \in Backed(at[p])']_vars

(* A destination is never the damaged rest of a removal that failed.       *)
InstalledWhole == \A n \in Skills : dest[n] # None => dest[n].data # "torn"

(* Whatever point a `sync-skills` is stopped at, the next plan resumes: a  *)
(* selected Skill conflicts only because of the user's own content, a      *)
(* changed source, a return to links, or an install without a record.      *)
ResumesCleanly ==
  \A n \in selected : Do(n, linkmode) = "conflict" => Own(dest[n]) \/ n \in excused

(* The mapping to SkillPromise: what is swapped out or left as litter is   *)
(* aside; a backup is kept from the moment the swap begins to be removed   *)
(* or can no longer be put back.                                           *)
Working(n) == {p \in Procs : at[p] = n}
Aside(n) == ({old[p] : p \in Working(n)} \ {None}) \cup litter[n]
KeptFor(n) ==
  spare[n] \cup {want[p] : p \in {q \in Working(n) :
                                   saved[q] /\ pc[q] \in {"landed", "restore", "failed"}}}

Promise == INSTANCE SkillPromise WITH
  Whole <- {x \in Nodes : x.data \notin {"own", "torn"}},
  Users <- {x \in Nodes : x.data = "own"},
  Rests <- {x \in Nodes : x.data = "torn"},
  Links <- {x \in Nodes : x.kind = "link"},
  place <- dest,
  aside <- [n \in Skills |-> Aside(n)],
  kept <- [n \in Skills |-> KeptFor(n)],
  exposed <- {n \in Skills : \E p \in Working(n) : late[p]}

(* Creates, updates, migrations and removals, with whatever fails or stops *)
(* them, handle everything that ever lies at a destination as SkillPromise *)
(* says.  So with one command at a time.                                   *)
PromiseKept == Promise!PSpec

(* An abrupt stop leaves evidence: what `sync-skills` has created is in    *)
(* the ownership record.                                                   *)
CreatesRecorded ==
  \A n \in Skills : dest[n] # None /\ ~ Own(dest[n]) => owned[n] # None

(* What the user puts at a destination while it is swapped out is not      *)
(* replaced by a command: an unmanaged destination is a conflict.          *)
NothingReplaced ==
  [][pc' # pc => \A n \in Skills : Own(dest[n]) => dest'[n] \in {dest[n], None}]_vars

(* Commands run again and again bring the destinations and the record to   *)
(* the selected Skills for good, or stop at a conflict.                    *)
Settled == \A n \in Skills : Do(n, linkmode) \in {"noop", "none"}
Converges == <>[](Settled \/ Conflicts(linkmode))
=============================================================================
