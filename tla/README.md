# Verification of agent-config-bridge

The bridge publishes one catalog of agent configuration (instructions, Skills,
plugins, hooks, settings, MCP servers, Schedules) into the homes of two products,
Codex and Claude Code, records what it owns there, and runs the Schedules.  This
directory is its formal side: TLA+ models translated from the Python code, TLC
configurations that check them on small instances, and TLAPS proofs of what holds
for every size.  Paths below are relative to the package
`src/agent_config_bridge/` unless they name a document.

Contents: 1 what the system is made of, 2 the modules and the code they stand
for, 3 the model-checking runs, 4 fairness, 5 the proofs, 6 disagreements between
code and documents, 7 what the models leave out, 8 the plan.

## 1. Inventory

| component | state it keeps | operations | what must hold |
|---|---|---|---|
| Schedule runtime (`schedule_runner.py`) | per target a claim lock `<target>.lock`, a marker `<target>.last.json` with the last claimed minute and snapshot, a run lock per Schedule name; vendor child processes | heartbeat (`schedule tick`), manual run (`schedule run`) | a Schedule starts at most once per minute and snapshot; no two supervised runs of a name overlap; one that fails or is busy takes no other with it; locks are given back |
| Schedule store (`schedule_store.py`) | immutable snapshot files, one pointer per target | publish, remove, read | a reader sees one whole snapshot |
| Retention capture (`retention_capture.py`) | under the state root: run directories with item slots, a durable manifest each, a quarantine, the retention lock | capture and delete, recover interrupted runs, settle, quarantine | only a reviewed, intact, unmounted tree is erased; what was captured is never lost track of; nothing that was partly erased comes back |
| Retention planning (`retention.py`) | none (reads the groups) | select, block, defer, compare the fresh plan with the reviewed one, apply | the group keeps its newest `limit` snapshots; a plan is applied only if nothing changed |
| Skill delivery (`filesystem.py`) | links or managed copies at the destinations, backups, local swaps | link, copy, update, migrate, remove | the user's content is never destroyed; what is replaced is backed up first; a failure puts back the old state |
| Driver (`applier.py`) | checkpoints of `sync-skills` | apply, sync-skills | an interrupted command can be repeated |
| Planner (`planner.py`) | none | one action for each Skill, instruction, setting, MCP entry | an unowned destination is a conflict |
| Ownership state (`state.py`) | `<state>/*.json`, one document per kind | atomic replacement | the record agrees with the disk, or the next plan can repair it |
| Instructions (`instructions.py`, `instruction_profiles.py`) | one file at the destination, symlink or managed copy, to which the product may append; `.old` files and a backup tree | plan, create, update, remove, recover | what users and products write survives every update; the path is not left empty |
| Settings (`settings.py`) | leaves and containers of the product's settings document, an ownership digest for each | plan, patch, record | only owned, unmodified leaves are changed; a written value was reviewed |
| MCP servers (`mcp.py`, `mcp_ownership.py`) | leaves in the Codex document, entries in the Claude one, one ownership record per target | patch (Codex), register (Claude), adopt, release | a table of the user is never merged into or removed; a server table stays loadable |
| Plugin and hook registration (`marketplace_registry.py`, `cli.py`) | the product's registry of marketplaces and Plugins, an ownership record | `register`, through the product's command line | what was installed can be found again; repeating an interrupted registration converges |
| Marketplace (`renderer.py`) | content-addressed builds, the published tree, markers | freeze, build, publish | what is published is the catalog of one moment; its versions grow; the path is not left empty |
| Host scheduler (`scheduler_registration.py`, `scheduler_backends.py`) | a marked block in the shared crontab, or a task; an ownership digest | register, refresh, remove | the lines of others and of other targets stay |
| Schedule catalog (`schedules.py`) | none | parse, due in a minute | a Schedule is due when the cron it was written for says so |
| Governance (`governance.py`) | none (reads the ledger) | validate the ledger, resolve what a target is given | a faulty ledger is refused, never silently narrower |
| Migration import (`skill_migration.py`) | new directories in catalog and conflict store | choose among variants, import, retain the others | no variant is lost or replaced, also when it is killed and run again |
| Catalog (`catalog.py`), configuration (`config.py`, `models.py`, `platforms.py`, `path_safety.py`), provenance (`provenance.py`), doctor (`doctor.py`) | none, or visible markers | validation, parsing, reports, import of new directories | read-only or refusing what exists |

**How they interact.**  `apply` asks the planner for a plan, shows it, builds it
again when it is confirmed, refuses if the two differ, and then drives the
components one after the other; each writes its own ownership document only when
its work is done.  `sync-skills` is the Skill part alone, with a record before
every create.  `schedule register` puts a heartbeat into the host scheduler; the
heartbeat is a new process every minute that reads the pointer `apply` publishes.
Skill delivery produces the backups that retention deletes.  All processes share
state only through files; two of them (the heartbeat and retention) use advisory
locks, the others none.

**What is hard.**  Processes overlap (heartbeats, manual runs, an `apply` or a
`prune` next to them, and always the user, who edits the same trees); any of them
may be killed between two system calls; plans go stale between review and use;
the files carry the only memory that survives.  `PROJECT.json` lists these
hazards one by one at their lines, with the property that would notice each, or
the reason why none does yet.

## 2. The modules

Every module keeps the control of the code (each rename, unlink, lock, record,
early return and error exit is a step of its own, in the code's order) and
abstracts its data.  `PROJECT.json` maps each definition to its lines.  An
operator `X_Fault` is a plausible wrong version of the operator `X` (a dropped
guard, a lost reset); no specification uses it.  It is substituted for `X` to see that
the property which should depend on `X` really fails without it.

### ScheduleTick

One target.  A *process* is one invocation of the bridge: `Ticks` are heartbeats
(`run_due_schedules`), `Manuals` manual runs (`run_named_schedule`).

| model | code |
|---|---|
| `published`, `Publish`, `Unpublish` | the pointer of `schedule_store.py`, moved by one `os.replace` or unlinked by `apply` |
| `marker`, `CheckMarker`, `WriteMarker` | `<target>.last.json`: read, compared, replaced |
| `claimLock`, `TakeClaimLock`, `LeaveClaim` | the non-blocking target lock around the claim only |
| `runLock`, `TakeRunLock`, `SkipBusy`, `ReleaseRunLock` | the non-blocking run lock of a name, "a previous run is still active" |
| `vendor`, `Launch`, `LaunchFails`, `VendorEnds` | the child process; its end is an exit or the mandatory timeout |
| `todo`, `results`, `Finish` | the loop of `_execute_snapshots` and `TickResult.runs` |
| `Crash`, `OrphanEnds` | the bridge is killed or an error escapes: flocks go, the vendor child stays |
| `starts`, `everSeen`, `disorder` | history: launches counted per minute, snapshot and name; whether a claim or a publication came out of order |

`Due` and `Named` are constants: which Schedules a snapshot holds and which are
due in a minute is the matter of `schedules.py`.

### RetentionPromise and RetentionCapture

`RetentionPromise` is the abstract specification: every tree is *unborn*, *saved*
under a name, *held*, *approved*, *erasing*, *quarantined* or *gone*.  A held tree
goes back under its own name if that is free, is set aside, or is approved if it
is intact; only an approved tree that is still intact and holds no mount is
erased; one whose erasure has begun never comes back.

`RetentionCapture` is the protocol of `state prune --yes` for one group of
backups.

| model | code |
|---|---|
| `saved` | the group directory: which tree is at which name |
| `slot`, `quar` | item slots of the run directories, `quarantine/<run>/` |
| `dir`, `want`, `st` | run directory, manifest with the reviewed identity and the state of each item |
| `qdir`, `copied` | quarantine directories and the manifest copies in them |
| `lock`, `TakeLock`, `LockBusy` | the retention lock |
| `Review`, `PlanOf`, `Blocked` | `build_retention_plan`: kept, actions, deferred, and every blocker |
| `RecoverRun`, `RecoverItem`, `Sweep` | `recover_interrupted` |
| `StopFresh`, `MakeRun`, `WriteIntent` | comparison with the fresh plan; the run directory, then its manifest |
| `CheckKept` ... `Seal` | one candidate: kept siblings, rename into the slot, "captured", verification after the move, kept siblings again, "verified" |
| `StartErase` ... `NoteDeleted` | `_delete_verified`, from a capture and from a recovery |
| `Settle` ... `CopyManifest` | `_settle_unverified`, `_restore`, `_quarantine` |
| `DropManifest`, `KeepRun`, `RemoveRun` | `_finalize_run` |
| `Save`, `Alter`, `Rename`, `Remove`, `Mount`, `Quiesce`, `Resolve`, `Exchange` | everyone who does not take the lock: `apply` writing a new backup, the owner, the operator clearing the quarantine, somebody who swaps a captured tree |

The mapping `Promise` computes the phase of a tree from where it lies and what
the manifest of its slot says; `PromiseKept` is that the protocol implements the
abstract specification under it.

### SkillPromise and SkillReconcile

`SkillPromise` is the abstract specification, of what lies at the destinations and
nothing else.  Content that is not the user's own is taken *aside*, never away; what is
aside is put back, left there, or destroyed, but only with a backup that is *kept* for
good, or if a destruction had already damaged it; a destination is filled only while
nothing is there, or a link is put back over a link.  The user's content is touched
only where it is *exposed*: he wrote it after the last look of the command at work.

`SkillReconcile` is the Skills of one target, `apply` and `sync-skills`.

| model | code |
|---|---|
| `source`, `selected`, `linkmode` | catalog content (by digest), governance's selection, the configured mode |
| `dest` | what lies at a destination: a link to the canonical source, a copy with the digest in its marker, the user's own link or tree, an edited copy |
| `owned` | the Skill record of `state.py` |
| `PlanLink`, `PlanCopy`, `PlanRemoval`, `Do`, `PlanOf` | `planner.py`'s decision for a Skill |
| `Review`, `Refuse`, `Begin` | plan, "changed after planning", conflict gate |
| `Checkpoint`, `Rollback`, `Landed`, `Finish` | the records of `applier.py` before a create, after an exception, after an action, at the end |
| `Stage`, `Put`, `PutRefused` | creation of a link, of a staged and verified copy |
| `Validate`, `Snapshot`, `Revalidate`, `Swap`, `Install`, `Unswap`, `Drop` | update and migration in `apply_copy`: validate, backup, validate again, rename aside, install, remove the swap |
| `Restore`, `Failed`, `Unlink` | failure of a removal, removal of a link |
| `spare`, `litter` | retained backups, swaps left behind |
| `Interrupt`, `Kill` | an exception inside an action (its handlers run), the end of the process |
| `EditSource`, `Select`, `SwitchMode`, `Write` | the user |
| `late`, `excused` | history: the user wrote after the last validation; a Skill may conflict by the user's doing |

The mapping `Promise` takes what a command has swapped out and the litter for what is
aside, and a backup for kept from the moment the swap begins to be removed, or can no
longer be put back; before that a failure may still drop it.

### OwnedLeaves

The settings document of one Codex target.  Two components own single leaves in
it, each with its own record: the Settings bundles, and the MCP servers, which
Settings may not declare (`settings.py:284`).  The document itself belongs to the
product and the user.

| model | code |
|---|---|
| `doc`, `Written`, `Write` | `config.toml`: containers and leaves, edited by anyone at any time |
| `want` | desired leaves: catalog and governance |
| `owned`, `held` | the records of `state.py`: digest of each owned leaf, containers created or adopted |
| `Claimed`, `Unowned`, `Drifted`, `Leftover`, `Conflict` | the conflicts of `plan_settings_patch` |
| `Sets`, `Removes`, `Dropped`, `Rest`, `Disposable` | its changes; server tables that go as a unit, with the user's approvals |
| `SourceDigest`, `Says`, `Plan` | what the reviewed plan says, and what the comparison of plans can tell apart |
| `Review`, `Refuse`, `Begin`, `PlanPatch` | `apply`: review, plan again and compare, then each part with its sources and document read again |
| `Replan`, `Reread`, `Check`, `Put` | `apply_settings_patch` and `_atomic_replace`: every reading and comparison of the document is a step |
| `Unpatchable`, `Cut`, `Pruned`, `Patched` | the new document |
| `Created`, `Record` | ownership after the patch, written after the document |
| `Adoptable`, `Adopt`, `RecordAdoption`, `Release` | `mcp adopt`, `mcp release` |
| `Kill` | the command stops between any two steps |
| `placed`, `missed`, `late` | history: what the bridge has put or adopted at a path; what the user wrote in the two windows of a replacement |

A `task` lives from review to record; one command runs at a time, as ADR 0009 and
`docs/architecture.md` ask of the user.

### InstructionCopy

One Instruction file of one target, as a symlink or as a managed copy.  Files are
inodes, because what happens to bytes that a product writes through a file it
opened before the swap depends on which names that inode still has.

| model | code |
|---|---|
| `data`, `dest`, `kept` | the inodes, the one at the destination, those with a name aside (backup tree, `.old` files left behind) |
| `mode`, `profile`, `links` | `effective_link_mode`; whether the text may carry a runtime suffix; whether `os.link` works there |
| `source`, `selected` | the canonical file and the selection, changed by the catalog's author |
| `record`, `Record` | the ownership record; its digest is read from the catalog when all actions are done |
| `Managed`, `PlannedCopy`, `PlannedLink`, `PlannedRemoval`, `Plan` | what `planner.py` decides |
| `BeginCreate`, `Observe`, `Recheck` | source check; one observation of bytes and inode; comparison with it |
| `Displace`, `Verify`, `Retain` | rename to `.old`, comparison of what was renamed, hard link (or copy) in the backup tree |
| `Staged`, `Install`, `Placed`, `Check`, `CheckCreated` | the text with the observed suffix, put in place without replacing, compared with old file and backup |
| `Unlink`, `BackupHolds`, `Final` | the `.old` name goes, and backup and destination are read once more |
| `Candidate`, `Restores`, `Recover` | `_recover_instruction_update`: the old file, or the backup, if the path is free |
| `CompareLink`, `UnlinkLink` | removal of a symlink |
| `Open`, `WriteTo`, `InPlace`, `Replace`, `Delete` | product and user, who may hold the file open |
| `Fails`, `Crash` | an I/O error, whose handlers run; a kill |
| `written`, `hole` | history: writes nobody undid; that the path is empty because a command displaced the file |

### MarketplacePublish

`render_marketplace`: freezing the packages, building, publishing, for any number of
commands at once.

| model | code |
|---|---|
| `catalog`, `Edit` | the selected packages and their release versions |
| `Read`, `Plan` | `_freeze_artifact_tree`, package by package; the digest the operator reviews |
| `Freeze`, `Recheck`, `Settle` | the two later readings, each compared with the reviewed digest |
| `builds`, `spoiled`, `Build`, `RenameBuild` | immutable builds named by their digest, used again if valid |
| `Admits`, `Bumped`, `Sound`, `Stage` | the version rule against what is published, the `.tmp` copy and its validation |
| `Displace`, `DisplaceLost`, `Install`, `InstallRefused`, `Restored`, `Fails` | `_publish_marketplace`: the two renames and what follows when one fails |
| `Spoil`, `EditPublished`, `Crash` | builds or the published tree changed in place, a kill |
| `past`, `latest`, `torn`, `stale` | history: catalogs there were, the last publication and whether it was lost, publications since the comparison |

### Register

`register`, `mcp adopt` and `mcp release` for one Claude Code target.  The product
owns the state; the bridge has only its command line and its own records.

| model | code |
|---|---|
| `live`, `installed`, `market` | `mcpServers` of the user config, the installed Plugins, the source registered under the marketplace's name |
| `owned`, `recorded` | `mcp.json`, `plugins.json` |
| `Conflict`, `ServerCommands` | `reconcile_claude_mcp` |
| `Removed`, `Moved`, `PluginCommands` | `_registration_hints`, the order of the commands included |
| `Start`, `Allowed`, `Preflight` | the comparison of plans; `_preflight_registration_ownership` |
| `Accepts`, `Takes`, `Runs` | what the product makes of a command: it succeeds, refuses, or fails before or after its effect |
| `Satisfied` | a removal that fails is as good as done if nothing is left to remove |
| `RunPlugin`, `RecordPlugins` | the loop over Plugin commands and its record at the end |
| `Look`, `Fits`, `Act`, `Checkpoint`, `Write`, `Verify`, `Finish` | `_register_claude_mcp`: the entry is looked at before each command, the record follows each, the stored entry is compared |
| `Review`, `Recheck`, `Adopt`, `Release` | `mcp adopt`, `mcp release` |
| `Edit`, `EditEntry`, `EditPlugins`, `Crash` | the catalog's author, the product and its user, a kill |
| `mine`, `blame`, `loose`, `late` | history: entries of the user, servers somebody touched or a failure cut off, Plugins not recorded yet, a change after the last look |

### HeartbeatRegistration

The end of `register`: the heartbeats of all targets in the one crontab of the user.

| model | code |
|---|---|
| `tab`, `EditTab` | the document `crontab -l` prints and `crontab -` replaces as a whole; the user's changes to it, copied, edited and deleted lines of a block included |
| `record`, `Record` | `heartbeat_digest` in `scheduler.json`, one document per target |
| `selection`, `current`, `launch`, `Change`, `Publish` | Schedules off, selected but empty, or on; whether the published snapshot is that of the catalog; the command line the installation resolves to |
| `Places`, `Absent`, `Stray`, `IntactAt`, `Managed`, `Found` | `LinuxCronBackend._inspect` and its verdicts |
| `Guarded` | `_guard_ownership`: the block there must be the one on record |
| `Intent`, `SameIntent` | `_registration_intent_key`: what of a reviewed plan must still hold although other targets have changed the document |
| `Registered`, `Wanted`, `Begins` | `_build_scheduler_registrations`, conflict gate, comparison of the fresh plans with the reviewed ones |
| `Replan`, `Inspect` | `apply_scheduler_registrations`, target by target; `_require_reviewed_plan` on the whole document |
| `Updated`, `Install`, `Fails`, `Converge`, `Check` | `apply` and `remove` of the backend, the two readings after them |
| `Crash` | a kill |
| `disturbed` | history: somebody else changed something since the start of the command |

### CronDue, ReleaseRules, Governance, SkillImport

Rules without state of their own, as operators.  `CronDue` is `parse_cron` and
`CronExpression.matches` beside the rule of Vixie cron; `ReleaseRules` the order of
release versions and the merging of overlays into names that Windows keeps apart (what
a name becomes there is the parameter `Portable`, and the order in which the files of
an overlay are copied is left open); `Governance` the loading of the ledger, the errors
that stop mode "required" and what reaches a target; `SkillImport` the decision of
`migrate-skills` for a name and its writes, as a function of the source before whose
write it is killed.

Each of them ends in what its rule promises, stated about one `case` of inputs
(`RuleCase`): an expression and a wall clock, three versions, two overlays, a ledger
with an inventory, or an interrupted import.  `MCRules` enumerates the cases TLC goes
through, and the theorems of section 5 take any case.

`MC*` modules only name model values, small functions for constants, symmetries, and
the cases of `MCRules`.

## 3. Runs

Deadlock checking is off in all of them: a bounded environment uses up its steps,
processes end, and a plan with conflicts or blockers is refused for as long as
nobody acts; stopping there is what the code does.

| run | instance | what it shows |
|---|---|---|
| `TickSafety` | two heartbeats, one manual run, two Schedules, two snapshots, minutes 0 and 1, one move of the pointer | `TypeOK`, `OneSupervisedRun`, `AtMostOnceInOrder`, `ResultsComplete` |
| `TickLive` | the same with one snapshot that is never moved, under fairness | `LocksFreed` |
| `RetentionGroup` | names 1..3, limit 1, three trees and a symlink, one pruner that may be stopped twice, one step of the owner, exchanged trees | `TypeOK`, `ManifestsTrue`, `CapturesGuarded`, and that the protocol implements `RetentionPromise` (`PromiseKept`) |
| `RetentionRace` | names 1..2, a tree and a symlink, two pruners with plans reviewed at different times, two steps of the owner, one fault, nobody exchanges captured trees, under fairness | `LiveRunUntouched`, `RunsSettled` |
| `SkillSync` | two Skills, two contents, one command at a time, two steps of the user, one fault, under fairness | `TypeOK`, `ResumesCleanly`, `UserContentKept`, `BackupKept`, `Converges`, and that commands and user implement `SkillPromise` (`PromiseKept`) |
| `LeafPatch` | a server table with two transports, arguments, approvals and a key of the user's, a container with two settings, four catalogs, three documents to begin with, two steps of the user, one kill, under fairness | `TypeOK`, `UserContentKept`, `ServersSound`, `Converges` |
| `InstructionSwap` | one file, two commands, two applies, two versions of the text, two writes of users and products, one change of mode or selection, two kills or errors | `TypeOK`, `NothingLost`, `PathKept`, `RuntimeCarried` |
| `MarketSwitch` | two publishers, two packages, two versions, two edits of the catalog, one kill, one failure or foreign change | `TypeOK`, `PublishedWasCatalog`, `PathRestored`, `VersionsGrow` |
| `RegisterRuns` | one server with two values beside a foreign one, one Plugin, two places of the marketplace, two edits, two foreign changes, two failures or kills, under fairness | `TypeOK`, `Accounted`, `UserEntriesKept`, `Converges` |
| `HeartbeatRuns` | two commands, two targets, two launches, one edit of the crontab, one change of configuration, catalog or installation, one failure or kill, two of the three together | `TypeOK`, `OthersKept`, `Completes` |
| `Rules` | some 86 000 cases: day fields against days, triples of versions, pairs of overlays, ledgers of two files, imports killed before any write | `CronAgrees`, `ReleasesSound`, `NothingRetractedSilently`, `ImportKeepsVariants` |
| `CronDays` | the same cases | a stepped wildcard in a day field is ignored: finding 1 of section 6 |

Six further configurations end in a counterexample, the disagreements 2 to 7 of section
6.  They are run by hand, `tlc -config TickRepeats.cfg MCScheduleTick.tla` and so on:
`TickRepeats` and `TickOrphans` (`MCScheduleTick`), `RetentionFloor`
(`MCRetentionCapture`), `SkillSwap` and `SkillEvidence` (`MCSkillReconcile`),
`LeafDrift` (`MCOwnedLeaves`).

**The properties**, in words.  Schedules and retention:

- `OneSupervisedRun`: two live bridge processes never supervise one Schedule name
  at once, heartbeats of different minutes or snapshots and manual runs included.
- `AtMostOnceInOrder`: if claims follow the clock and the pointer does not return
  to an older snapshot, each Schedule starts at most once per minute and snapshot.
  Without the condition it is false (disagreement 2).
- `ResultsComplete`: a heartbeat that ends by itself accounts for every due
  Schedule in catalog order; a busy or failing one does not hide the rest.
- `LocksFreed`: the claim lock is given back even if vendor work never ends
  (`ClaimLockFreed`), and every run lock is if it does (`RunLockFreed`).
- `ManifestsTrue`: a manifest that says "deleted" tells the truth, the reviewed tree is
  in no place and never comes back (`DeletedIsGone`), and a tree in a slot always belongs to a manifest that has yet to settle it, so
  recovery never finds one it would refuse to touch (`CapturesAccounted`).
- `CapturesGuarded`: a capture erases only while the siblings it counted on are in
  place, but for one taken away after the last look (`KeptWhenErased`), and nothing
  is captured while a quarantined tree waits (`QuarantineStops`).
- `LiveRunUntouched`: what a capturing pruner believes of its manifest and slot is
  so; the recovery of another never works on a live run.
- `RunsSettled`: every interrupted run is settled in the end, unless something
  waits for the operator.

Skills and settings:

- `UserContentKept`: no step of a command makes content the user put at a
  destination disappear, unless it came after the command's last validation.
- `BackupKept`: what the bridge had installed and a command removes is in a
  retained backup, also when the removal fails half-way.
- `PromiseKept`: all that ever lies at a destination is handled as `SkillPromise` says,
  across creates, updates, migrations, removals, their failures and their recoveries.
  That the damaged rest of a failed removal is never at a destination
  (`InstalledWhole`) follows from it.
- `ResumesCleanly`: wherever a `sync-skills` is stopped, the next plan finds a
  conflict only where the user made one.
- `Converges`: commands run again and again bring disk and record to the selected
  Skills for good, or stop at a conflict.
- `UserContentKept` of `OwnedLeaves`: a command changes or removes only what the
  bridge has put or adopted at that path and still has on record, containers
  included; but for the approvals and empty lists of a removed server, which go
  with it as documented, and for what was written in the two windows of the
  replacement (after the last plan, and between the last comparison and the rename).
- `ServersSound`: no command leaves a server table without a transport, which Codex
  would reject (`ServerLoads`); a server of the catalog is never merged into a table
  of the user's in which the bridge owns nothing (`NeverMerged`); the values written
  to a server table are the reviewed ones, although the catalog is read three times
  (`ReviewedServers`).
- `Converges` of `OwnedLeaves`: as for Skills, with leaves and their digests.

Instructions, marketplace, registration:

- `NothingLost`: through updates, removals, recoveries, kills and errors of two
  commands, every write of a user or product is at the destination, in an `.old`
  file or in a backup, also one through a file that was opened before the swap.
- `PathKept`: the path is empty only while a command is at work, or after a kill or
  the displacement of something that is no regular file.
- `RuntimeCarried`: an update that succeeds has put the reviewed text in place and
  carried on all that the product wrote to the old file, however late.
- `PublishedWasCatalog`: what is published is the catalog of one moment, although
  its packages are read one by one, and never the copy of a spoiled build.
- `VersionsGrow`: successive publications have growing versions of what changed.
- `PathRestored`: the stable path is empty only between the two renames of a
  command, or after a kill there.
- `UserEntriesKept`: no command changes an entry of the product's that a user made,
  changed, or got back by release.
- `Accounted`: what the bridge has put into the product is on record, unless a
  command is on its way there or did not get there.
- `Converges` of `Register`: register run again and again reaches what is selected,
  or stands before something only the user can decide.
- `OthersKept`: in the shared crontab a registration takes away only lines of the
  block of its target that is on record, each once, keeps the lines of users and of
  other targets in their order (`Others`), and never leaves two blocks of a target.
- `Completes`: although each target changes the document the next one was reviewed
  on, a run nobody interferes with registers and records all of them.

Rules:

- `CronAgrees`: a Schedule is due when Vixie cron would start it, unless a day field
  is a stepped wildcard, and every accepted field can be met.
- `ReleasesSound`: release versions are strictly and transitively ordered; two
  overlays are merged exactly if no two paths meet on a file system that ignores
  case, and then nothing of either is lost.
- `NothingRetractedSilently`: a ledger in mode "required" is refused or gives each
  target what its deployable files say; every artifact is in some file, and no
  deployable file has only targets that can match nothing.
- `ImportKeepsVariants`: an import killed before any write, with sources that change
  under it, and then run to its end keeps what was in the catalog and among the
  retained variants, and has every variant of the sources in one of them.

**The bounds, and why they are enough.**  The races of `ScheduleTick` need two
heartbeats (of one minute, or of two) and a third party at the run lock, the
manual run; out-of-order claims need two minutes, a stale pointer two snapshots
and one publication.  A fault of the loop over Schedules needs two of them.
In `RetentionCapture` a group with one candidate, one kept sibling and a third name
has every blocker and both kinds of candidate; two runs let an interrupted run
meet a new one; two faults let a recovery be stopped as well.  Two pruners are the
race for the lock.  Three names and two pruners together are too many states, so
they are separate runs; `RetentionRace` is small enough for liveness as well.  In
`SkillReconcile` Skills interact only through the record and the loop, so two of them
show a partial command, two contents an update, and two steps of the user beside one
fault a write in a window that is then hit by a failure; a change of mode and a change
of selection in one history need two steps as well.  `SkillSync` has one command at a
time: with two, `UserContentKept` and `BackupKept` do not hold, because nothing locks
them apart (see 7).  In `OwnedLeaves` one server has everything a removal as a unit
meets, the settings beside it a second record and a second patch in the same document;
the catalogs add, remove and change leaves, the transport included; one kill separates
document and record, and two steps of the user are one before the review and one in
a window, or an adoption and a release.

`InstructionSwap` needs two commands for one that displaces what the other has just
installed, two writes for one before and one after the observation, and two troubles
for a recovery that fails too.  In `MarketSwitch` a torn set of packages takes two
packages and two edits, one of them back to an older version, and a lost publication
two publishers.  Several servers of a target are registered one after the other and
independently, each with its own step of the record, so `RegisterRuns` has one, and a
Plugin for the order of the two halves; two failures let a repetition fail as well.
In `HeartbeatRuns` two targets are the shared document, two commands the race; the
launches are an old and a new block; two events of three kinds are, for instance, a
killed installation whose rest the user has changed.  The cases of `Rules` are
few values of every shape the code tells apart: for cron each form of an element in
both day fields, for versions triples because transitivity takes three, for overlays
two names that differ in case, each as file, folder or nothing on both sides.

## 4. Fairness

- `ScheduleTick`: weak fairness of each started process's own steps: the host
  schedules a process until it ends.  Starting a process, the clock, `apply`, and
  crashes are never forced.  The end of vendor work is assumed (`RunsEnd`) only in
  `RunLockFreed`, where the code justifies it: `timeout_seconds` is mandatory and
  `subprocess.run` kills and reaps the child when it is reached.
- `RetentionCapture`, `SkillReconcile` and `OwnedLeaves`: weak fairness of the steps of a
  command, its start included: the operator runs the command again and again, and
  a running one goes on.  Nothing is assumed of the owner, of the
  operator's clean-up of the quarantine, or of faults, whose number is bounded: a
  system that fails for ever settles nothing.
- `Register`: weak fairness of `register`, its start included, and of the steps of an
  `adopt` or `release` that was started.  Nothing is assumed of users, product and
  failures.
- `InstructionCopy`, `MarketplacePublish` and `HeartbeatRegistration` are about safety
  and state no fairness.

## 5. Proofs

TLC shows the properties on the instances above; the following hold for every
value of the constants under the named assumptions of each module (kinds of the
constants, `None` outside them, and unique names in a snapshot, which
`_read_snapshot_file` enforces).

**`ScheduleTick_proofs`.**

- `LocksAgree`, `TypeCorrect`, `SupervisionExclusive` follow from the inductive
  invariant `LockInv`: types, and that control state and lock holders agree (a
  process between claim check and release holds the claim lock; one between
  launch and release holds the run lock of the Schedule it works on; a live
  process is in `vendor[s]` only while it waits for `s`).  `OneSupervisedRun` alone is not
  inductive: it says nothing of who holds the run lock.
- `ClaimsNotRepeated`: a process at "mark" holds the claim lock and the marker is
  not its claim; only a holder changes the marker.
- `AtMostOnceWhenOrdered`: `OrderInv` says of every history without disorder that
  a claim has at most one owner (`OwnerAlone`), that a claim which is owned or has
  started something is spent (`OwnedSpent`, `StartedSpent`: the marker is past it,
  still names it, or names its minute after the pointer moved on), and that what an
  owner has still to start has not been started (`PendingFresh`).  The counter alone
  is not inductive: it does not say who may still increase it.
- `ResultsCorrect`: what a heartbeat has accounted for and what it has still to do are
  together what was due when it claimed (`AccountInv`), of which one Schedule at a time
  moves from the second list to the first (`MoveHead`).
- `CronCorrect` is `CronAgrees` for lists of any length of elements with any numbers
  (`Expressions`), as far as `parse_cron` accepts them (`Accepted`), and every wall
  clock.  `FieldFacts` has what it takes: a field that is all wildcard meets every
  value, and no accepted field is empty; `DaysAgree` is the rule for the two day fields.
  Stepped wildcards are left out in the statement itself, because there it is false
  (section 6).

**`SkillReconcile_proofs`.**

- `TypeCorrect` and `WholeCorrect` hold for any number of commands at once.
  Their invariant `SkillInv` says what a command holds at each step (`Grip`: the
  Skill it works on, the validated node, the displaced one), which plan a step can
  belong to (`Track`), and that neither is torn before its removal has failed
  (`Sound`).
- `UserContentCorrect` and `BackupCorrect` assume `Single`, one command at a time.
  `LoneInv` adds that what a command is about to take away is what it validated
  and saved, unless the user has written there since (`Aware`).
- `PromiseCorrect` is the refinement: with `Single`, every behaviour is one of
  `SkillPromise` under the mapping `Promise`.  `CustodyInv` adds what the mapping needs:
  that a backup in a command's hands belongs to an action that replaces something, that
  only the user fills a destination that is swapped out, and what a removal that has
  failed still holds (`Custody`).  With one command the mapped variables are a matter of
  that command and of the Skill it works on (`View`, `Elsewheres`), so each step comes
  down to what it does there: `MapsTakes`, `MapsDestroy`, `MapsUnswap`, `MapsRestore`;
  whatever ends or fails is `Keep` (`MapsLeave`).
- `ResumesCorrect` assumes `Single` as well; TLC finds a counterexample with two commands.
  `ResumesCleanly` is not inductive, for it only looks at the destinations while nobody
  is at work, and what a stopped command leaves depends on what it held.  `ResumeInv`
  says of every Skill that is not excused (`excused`: the four stated exceptions) that
  it `Stands`, at its destination and in the hands of a command: nothing of the
  bridge's, a link the record vouches for, or an unchanged copy that has a record.  For
  the command it says how plan, record and checkpoint agree with what is there
  (`Planned`, `Recorded`), and that a Skill it is through with has `Arrived`.
- `GovernanceCorrect` is `NothingRetractedSilently` for every ledger, every inventory and all
  targets.  A mode that resolves has no malformed file and no error in any of the
  others, so all of them are loaded, and every deployable one has a sound target block,
  which is then a target it matches (`HasTarget`); `LedgerAsWritten` says what follows
  for one target.  It stands here because the Skills it delivers are those of
  `SkillReconcile`.
- `ImportCorrect` is `ImportKeepsVariants` for any number of roots, any
  digests, any state of catalog and conflict store, and any source that is killed or
  changed.  `DecideCorrect` says what a plan decides of the variant of each root: it is
  the one the catalog has or gets, or it is retained.  `ImportKept` says that any part of
  the writes only adds to what was there (`StorePut`, `CatalogPut`) and that a finished
  run has every variant (`Ended`); an interrupted run followed by a finished one is both
  in turn.

**`OwnedLeaves_proofs`.**  The theorems hold for every set of paths (given that
containers of containers are containers, and no path lies in two servers), every
catalog whose declared servers have a transport (`render_codex_leaves`), and every
document.  They rest on `LeafInv`:

- `WellFormed`: what is in a document is in containers; `Backing`: what the record
  names, the bridge has put or adopted.
- `Windows`: outside `missed` and `late` the document that is replaced is the one
  that was patched and the one that was planned on.  This is where the comparisons
  of bytes and plans enter; a dropped one breaks it.
- `PlanSound`: the leaves that are patched have no conflict with the document they
  were planned on; `Recordable`: what is about to be recorded has been put.
- `Digests`: the leaves of the reviewed plan and those that are patched have the
  same digest, from which `ReviewedCorrect` follows for server leaves.

Only `Put` changes the document under a command (`OnlyPut`), so `UserContentCorrect`,
`ServersLoad` and `NeverMergedCorrect` each come down to a lemma about `Patched`:
`PutKeeps` goes through the ways a path can change, `PutLoads` and `PutNeverMerges`
through whether the server is declared, goes, or is left alone (`OtherServers`).
`ServersSoundCorrect` joins the three about server tables.

**`InstructionCopy_proofs`.**  For any number of commands, versions, writes and
failures.

- `TypeInv` is `TypeOK` and `Grip`: which inodes a command holds at each of its steps,
  and that they exist.
- `PathKeptCorrect` rests on `PathInv`: as long as the path is empty by a command's
  doing, some command still holds a file it can put back (`Candidate`), and a command
  that gives up leaves through `Recover`, which puts it back.
- `NothingLostCorrect` rests on `LostInv`: every write that counts is in an inode with a
  name (`Covered`), which alone is not inductive.  With hard links the displaced file
  and its backup are one inode, and without them the displaced file has no other name
  and no other holder (`Apart`); what is about to be unlinked then holds nothing its
  backup has not (`Doomed`), which is where the last comparison enters.
- `RuntimeCarriedCorrect` needs only that with hard links the backup is the very inode
  that was observed (`CarryInv`); the rest is the last comparison of the command.

**`MarketplacePublish_proofs`.**  For any number of publishers, packages and edits.

- `TypeInv` is `TypeOK` with the shape of a command's variables.
- `PublishedCorrect` is the argument of a double collect.  `CatalogInv` says that what a
  first reading has collected of a package is still so or was edited since (`Planning`),
  that a second reading which has found no difference so far agrees with a catalog
  there was (`Freezing`, `Agrees`), so that two readings that agree enclose a moment at
  which all of it was there at once (`Frozen`), and that directories only hold such
  trees (`Genuine`).  `Dated` makes edits distinguishable.
- `PathRestoredCorrect` and `VersionsGrowCorrect` rest on `PathInv`: a hole belongs to
  a command between its renames (`PathRestored`), what is published is the last
  publication unless that was lost (`Newest`), and a copy that is not stale was
  compared with it (`Fresh`).
- `ReleasesCorrect` is `ReleasesSound` for versions with prereleases of any length, and
  for any two finite overlays in which a path is one node and lies below folders, whatever
  the names, what they become on Windows, and the contents.  `VersionOrder`: the first place
  where two prereleases differ (`FirstAt`) is found with the library's theorem on least
  elements; transitivity compares two such places.  The overlays are copied node by
  node, which is a fold.  Its result is given in closed form (`Merged`): what was there,
  and what was copied, unless two of them clash.  `CopyCorrect` shows that for every
  order of copying, by a least set of nodes for which it fails; `ClashIsAlias` and
  `AliasIsClash` show that a clash of two nodes, which the code notices on the prefixes of
  a path, is two paths of the result in one place.

**`RetentionCapture_proofs`.**  For any number of names, trees, pruners, runs, steps of
the owner and faults; exchanged trees are included.  The invariant `Inv`:

- `LockHeld`: who is past the lock holds it, so only one pruner works at a time.
- `Disk`: no tree is in two places (`Apart`); every tree in a slot is in a live run that
  has yet to settle it (`Filed`); a partly erased tree is one that was verified
  (`Content`); and a reviewed tree that was verified comes back under no name and lies
  in no other run (`Confinement`).  This last part makes `DeletedIsGone` inductive:
  "deleted" is written from "verified", with the slot empty.
- `Course`, for each pruner: which manifest states and slots go with its step
  (`AtItem`), that a capture has not begun with the items to come (`Ahead`), that a
  recovery leaves nothing unrecorded in the quarantine, so that a capture starts with an
  empty one (`Swept`, `Clean`), and that every kept sibling was there at the last look
  (`Witnessed`).

`ManifestsCorrect`, `LiveRunCorrect` and `CapturesGuardedCorrect` follow from it, and so
does the refinement: `PromiseCorrect` says that every behaviour of the protocol is one
of `RetentionPromise` under the mapping `Promise`.  Its argument goes action by action.
Most steps move at most one tree, so the phase of the others stays (lemmas on
`PhaseOf`), and the invariant gives the guard of the abstract action: a rename into a
slot is `Capture`, "verified" is `Approve` for a tree that is whole by `Handling`,
a rmtree that starts is `StartErase` for one that still is, and every step on the way
back finds a tree that is held and not approved.

**`Register_proofs`.**  For any finite sets of servers and Plugins (`RegisterNames`; a
catalog is finite, and `SetToSeq` needs it), any number of values, places, edits and
failures.  The lists of commands come out of `FlattenSeq` and `SetToSeq`; since induction
is out of reach, what these return is shown through a least counterexample (`Joined`,
`Listed`).  The invariant `Inv`:

- `Leads`: the queue still leads to the goal, that is every addition in it is part of the
  goal, every removal is final or followed by its addition, and a server without an
  order is as it is to be or not the bridge's.
- `Memory`: the ownership a command has in memory is that on disk, except between a
  product's command and its record.
- `Known` and `Foreigners`: an entry nobody else touched is the recorded one; an entry of
  the user's is not.
- `Looked`: what was looked at is still so, or the change was late.
- `PluginsFound`: an installed Plugin is on record, or its record or removal is to come.

`AccountedCorrect` is `Known` and `PluginsFound` read together; `UserEntriesCorrect` puts
`Looked`, `Memory` and `Foreigners` against each other: the entry a command is about
to change equals the record, and a user's does not.

**`HeartbeatRegistration_proofs`.**  For any number of commands, targets, launches, edits
and failures.

- Documents are handled by one notion, `Spliced`: the new document is the old one with
  m lines after the first p replaced by n others.  `Replaced` shows that of `Updated`;
  `Origin` says where each line comes from, and from it follow `Elsewhere` (the block of
  another target is found as before), `Here` (the own one is there, or gone) and
  `NoCopies`.
- `TypeCorrect` needs `Planned`: a document about to be replaced is, as far as the target
  in hand goes, what the reviewed plan found.
- `OthersKeptCorrect`: the lines of the others are compared through `OthersStay`, the
  counts through an injection of places (`LinesStay`); that only the recorded block goes
  is `Planned` again, which is where `_guard_ownership` enters.
- `CompletesCorrect` rests on `OnCourse`: while nobody interferes, what is left to do has
  the intent that was reviewed, and what is done has its block and record.  The intents
  survive the installation of another target's block by `Elsewhere`, because the
  document is no part of them; so neither the fresh plans nor the checks can end the
  run before its last record.

**Only model-checked.**  Liveness, which is out of the prover's reach: `LocksFreed`,
`RunsSettled` and the three `Converges`.  Every other property of the passing runs is a theorem.
Where the code loops over data, in `CopyOverlay`, in an import and in the lists of
commands of `Register`, induction over the data is out of reach too; the closed form of
the result and a least counterexample to it take its place.

## 6. Where code and documents disagree

1. `CronDays` (`CronIsVixie`): a wildcard with a step, such as `*/2`, is accepted in a day field and
   then counts as "any day", because `schedules.py:106` and `:264` look only at the
   star, although the values are parsed: `0 9 */2 * *` runs every day, of which Vixie
   cron runs every second.  `docs/schedules.md:48-51` lists wildcards with steps among
   the accepted forms and promises Vixie's rule for the two day fields.

The others are formulas of the modules with a configuration that shows the
counterexample:

2. `TickRepeats` (`AtMostOnce`): the marker remembers only the latest claim.  A heartbeat of an
   earlier minute that reaches the claim after a later one finds another claim,
   claims its minute again and runs it again.  The docstring of
   `run_due_schedules` promises at most once.
3. `TickOrphans` (`NoVendorOverlap`): the run lock belongs to the bridge process, not to the vendor
   child; a killed bridge frees it while the child lives on, and the next run
   overlaps it.  `docs/schedules.md` says the lock is held while the vendor process
   is active.
4. `RetentionFloor` (`FloorKept`): a recovery finishes an item recorded as "verified" without
   looking at the kept siblings again; if the owner has removed them the last
   backup goes.  ADR 0008 says a group never drops below its limit.
5. `SkillSwap` (`NothingReplaced`): when the copy that replaces a link cannot be installed because
   something appeared at the destination, the old link is put back with
   `os.replace`, which replaces a file or link of the user's.
   (Renaming a directory onto a link or file fails; renaming a link onto one does
   not.)
6. `SkillEvidence` (`CreatesRecorded`): Ctrl-C between the creation and the return of the create
   undoes its checkpoint, although the Skill is there; the next plan calls it
   unmanaged.
7. `LeafDrift` (`DriftStops`): `apply_settings_patch` plans again, compares, and then reads the
   document a third time to patch it.  Those bytes are not compared with the plan's;
   what the product or the user wrote in between is overwritten or removed without a
   conflict.  The docstring says the byte snapshot is rechecked before mutation, ADR
   0004 that drift of owned values fails.

Observed while modelling, without a configuration:

- `settings_patch_digest` leaves out the paths of the leaves (`mcp_leaves_digest` has
  them), and the plan says no more of them than counts.  A setting that is renamed
  under the same value between review and patch is written unreviewed.
  `ReviewedServers` is about server leaves for this reason.
- `RecordsApplied` of `InstructionCopy` is false: the record is built from the sources
  at the end of `apply`, with a digest of the text as it is then, while the comment at
  `applier.py:262-264` wants no edit during apply to desync the record from the actions
  and reads governance once for that.  An edit of the text in between puts the digest
  of the new text on record, over the old text at the destination.
- A marker line of a heartbeat block that was copied elsewhere in the crontab does no
  harm while the block is there, since only begin and end lines are counted.  Once the
  block is removed the copy is a stray marker, the removal "did not converge", and the
  record stays until the user deletes the line.  `Completes` excludes copied markers.

## 7. What the models leave out

*Everywhere*: formats, parsing, permissions, symlink and ownership checks of the
bridge's own files (their failures are the error exits `Crash`, `Abort`, `Kill`,
`Fails`), output, and Windows path semantics.

*ScheduleTick*: one target; the clock never goes back; a Schedule's run lock that
cannot be opened is a crash of the heartbeat (the error escapes the loop).

*Schedule store*: snapshot files are immutable and named by digest, so they are
model values.

*Retention*: marketplace builds, byte totals, the probe whether host and filesystem
support the protocol.  Directory fsyncs are believed.  The check of a slot and the
start of its rmtree are one step, and so is an exchange by somebody with the same
account: a swap inside the rmtree is out of scope, as it is in ADR 0008.  An empty
directory that a POSIX rename would replace is not told from a free name.

*Skills*: content is its digest; bytecode caches, which the digests ignore, are
none; symlinks inside a copied Skill (a conflict) do not occur; `OwnLink` stands for
everything of the user's that is no directory; the order of the actions is left
open; visible provenance markers do not matter.  A backup that is cut short is
`RetentionCapture`'s `Save` with unfinished content.  A Skill that was migrated by
a command that was stopped, and then deselected, is a conflict by design of the
planner.  *Two commands at once*: the code takes no lock, and an exploration with
two commands shows the record of one undone by the other and the copy of one
swapped out by the other without a backup; four theorems say `Single` for this reason.

*Owned leaves*: a value is its digest, so equal values are one; an absent file and an
empty one are the same; TOML comments (which keep a container from being pruned and
are carried over), `file_created`, and entries with further keys of their own, such
as `tools`, which is one value here.  Documents of Claude Code have the same engine
without the servers.  *What a record cannot tell*: a kill between replacement and
record leaves values that nobody owns, and the next plan calls them conflicts, which
is safe and resolved by hand (`mcp adopt` for a server).  A server whose owned leaves
the user has all removed is still owned by the record; if the catalog then declares
only other leaves for it (another transport), these are put beside what the user has
in the table since: `NeverMerged` speaks of tables in which nothing is owned.  Two commands at once lose
updates of the records; the documents ask not to run them so.

*Instructions*: file modes and owners, the grammar of the runtime suffix (a suffix is
the set of writes it holds), and several Instruction files of a target, which
do not interact.

*Marketplace*: the text of the manifests, what a package holds beside its release
version, the retention of old builds.

*Register*: several targets in one run; the Codex variant, whose servers are
leaves (`OwnedLeaves`); commands that only refresh a marketplace; a user config that
cannot be read.  Between the last look at an entry and the product's command an entry
of a user can be replaced; `docs/security.md` documents that window, and `late` names it.

*Heartbeat registration*: the Task Scheduler backend, whose tasks are a document per
target, its XML, shell quoting and the resolution of executables.  What somebody
writes between the last reading of the crontab and `crontab -` is overwritten:
`OthersKept` leaves that window out, since crontab has no comparison to offer.  A
kill between installation and record fails closed, as `docs/schedules.md` says: the
next plan is a conflict, resolved by hand.

*Rules*: the parser of cron text and of TOML, YAML and JSON; digests of imported trees
are model values.

*Components without a module* are listed in `PROJECT.json` with the reason:
catalog, configuration, doctor and provenance are read-only or report.  The detection
of orphaned records is not modelled either.

## 8. Plan

Done: the parts where processes race and where deletions happen (`ScheduleTick`,
`RetentionPromise` and `RetentionCapture`, `SkillPromise` and `SkillReconcile`), the
documents the bridge shares with product and user (`OwnedLeaves`, `InstructionCopy`,
`Register`, `HeartbeatRegistration`), publication (`MarketplacePublish`), and the pure
rules.  Every safety and action property of the runs is a theorem, and so are the two
refinements.

Left to model, in this order:

1. The schedule store: snapshot file before pointer, a reader between the two, and
   removal; then `HeartbeatRegistration` composed with `ScheduleTick`'s `Ticks` as
   what it starts.
2. Retention of marketplace builds beside that of Skill backups, against
   `MarketplacePublish` as the one who uses them.
3. `SkillPromise` for the other owners: an abstract specification of who may change
   which leaf, file or entry, implemented by `OwnedLeaves`, `InstructionCopy` and
   `Register`, and the proofs that they do.
