--------------------------- MODULE InstructionCopy ---------------------------
(* instructions.py with its part of planner.py, applier.py and state.py:   *)
(* one Instruction file of one target, delivered as a symlink or as a      *)
(* managed copy, while its user edits, replaces or deletes it and the      *)
(* product appends its own runtime data to it.                             *)
(*                                                                         *)
(* Files are inodes: a hard link is a second name of one inode, and a      *)
(* product that holds a file open writes to the inode wherever its names   *)
(* went.  A text is the version of the canonical source it came from, 0    *)
(* for one the catalog never had; `tail` holds what users and products     *)
(* wrote, every write with a number of its own.  A digest is the text it   *)
(* identifies.  Permissions of a profile (0600) are left out.              *)
EXTENDS Naturals, Sequences

CONSTANTS
  Commands,     \* running apply commands: there is no lock
  MaxVersion,   \* bound: versions of the canonical source
  MaxToggles,   \* bound: times the bundle is selected or deselected
  MaxWrites,    \* bound: writes of users and products
  MaxApplies,   \* bound: times an apply is started
  MaxTroubles,  \* bound: killed commands and I/O errors
  None

ASSUME VersionAssumption == MaxVersion \in Nat \ {0}
ASSUME LimitAssumption == MaxToggles \in Nat /\ MaxWrites \in Nat
                           /\ MaxApplies \in Nat /\ MaxTroubles \in Nat
ASSUME NoneAssumption == None \notin Nat

Versions == 1..MaxVersion
Content == [kind : {"file", "link"}, text : 0..MaxVersion, tail : SUBSET (1..MaxWrites)]
File(v, tail) == [kind |-> "file", text |-> v, tail |-> tail]
\* The symlink to the canonical file; text 0 for a link that goes elsewhere.
Link == [kind |-> "link", text |-> 1, tail |-> {}]

VARIABLES
  mode,       \* effective_link_mode: "copy" or "link"
  profile,    \* a Codex profile, which may carry a runtime suffix
  links,      \* destination and state_dir share a file system with hard links
  source,     \* version of the canonical file
  selected,   \* the bundle is selected for the target
  toggles,
  data,       \* contents by inode
  dest,       \* inode at the destination, or None
  kept,       \* inodes with a name aside: backups and .old files left behind
  record,     \* installed_digest of the ownership record, or None
  job,        \* per command: where it is and its local variables
  open,       \* inode the product holds open for writing, or None
  applies, troubles,
  writes,     \* history: number of writes so far
  written,    \* history: writes their authors did not undo
  hole        \* history: the destination is empty because a command displaced it

setVars == <<mode, profile, links>>
catVars == <<source, selected, toggles>>
pathVars == <<data, dest, kept, hole>>
userVars == <<open, writes, written>>
vars == <<setVars, catVars, pathVars, record, job, userVars, applies, troubles>>

\* op: the planned action; want, had, keep: source digest, recorded digest and
\* selection of the plan; seen, bytes: the observation; old, backup, new: inodes
\* at the .old name, in the backup tree and of the replacement.
Idle == [at |-> "idle", op |-> "noop", want |-> 1, had |-> None, keep |-> TRUE, seen |-> None,
         bytes |-> Link, old |-> None, backup |-> None, new |-> None]

\* Nothing is there, or the first version was applied.
Init ==
  /\ mode \in {"copy", "link"} /\ profile \in BOOLEAN /\ links \in BOOLEAN
  /\ source = 1 /\ selected = TRUE /\ toggles = 0
  /\ \/ data = << >> /\ dest = None /\ record = None
     \/ data = <<IF mode = "copy" THEN File(1, {}) ELSE Link>> /\ dest = 1 /\ record = 1
  /\ kept = {} /\ hole = FALSE
  /\ job = [c \in Commands |-> Idle]
  /\ open = None /\ writes = 0 /\ written = {}
  /\ applies = 0 /\ troubles = 0

At(c, place) == job[c].at = place
Fresh == Len(data) + 1
Olds == {job[c].old : c \in Commands} \ {None}
Named == (kept \cup Olds \cup {dest}) \ {None}

-----------------------------------------------------------------------------
(* Users, products and the owner of the catalog.                           *)

EditSource ==
  /\ source < MaxVersion /\ source' = source + 1
  /\ UNCHANGED <<setVars, selected, toggles, pathVars, record, job, userVars, applies, troubles>>

Toggle ==
  /\ toggles < MaxToggles /\ toggles' = toggles + 1 /\ selected' = ~selected
  /\ UNCHANGED <<setVars, source, pathVars, record, job, userVars, applies, troubles>>

Outside == UNCHANGED <<setVars, catVars, record, job, applies, troubles>>
Write == writes < MaxWrites /\ writes' = writes + 1

Open ==
  /\ dest # None /\ data[dest].kind = "file" /\ open # dest
  /\ open' = dest
  /\ Outside /\ UNCHANGED <<pathVars, writes, written>>

\* In place: the suffix of a product, or an edit that changes the text.  Bytes
\* written to an inode whose last name is gone, or goes now that its copy was
\* compared, are out of reach of every name.
WriteTo(i, text) ==
  /\ Write
  /\ data' = [data EXCEPT ![i].text = text, ![i].tail = @ \cup {writes'}]
  /\ written' = IF i \notin Named \/ (~links /\ i \notin kept \cup {dest}
                                       /\ \E c \in Commands : At(c, "unlink") /\ job[c].old = i)
                THEN written ELSE written \cup {writes'}
  /\ Outside /\ UNCHANGED <<dest, kept, hole, open>>

InPlace == \E i \in {dest, open} \ {None} :
  /\ data[i].kind = "file"
  /\ \E t \in (IF profile THEN {data[i].text, 0} ELSE {0}) : WriteTo(i, t)

Forgets == /\ open' = (IF dest # None /\ open = dest THEN None ELSE open)
           /\ hole' = FALSE

\* Another file, or a symlink of the user's, takes the path.
Replace(kind) ==
  /\ Write
  /\ data' = Append(data, [kind |-> kind, text |-> 0, tail |-> {writes'}])
  /\ dest' = Fresh
  /\ written' = (IF dest = None THEN written ELSE written \ data[dest].tail) \cup {writes'}
  /\ Forgets /\ Outside /\ UNCHANGED kept

Delete ==
  /\ dest # None /\ Write
  /\ dest' = None
  /\ written' = written \ data[dest].tail
  /\ Forgets /\ Outside /\ UNCHANGED <<data, kept>>

User == EditSource \/ Toggle \/ Open \/ InPlace \/ Delete \/ \E k \in {"file", "link"} : Replace(k)

-----------------------------------------------------------------------------
Quiet == UNCHANGED <<setVars, catVars, userVars, applies, troubles>>
Inside == UNCHANGED <<pathVars, record>> /\ Quiet
Goto(c, place) == job' = [job EXCEPT ![c].at = place]
\* The command ends; a .old file it did not release keeps its name.
Left(c) == kept \cup ({job[c].old} \ {None})
Ends(c) == job' = [job EXCEPT ![c] = Idle]
\* The action is done; the record is written when all are.
Done(c) == job' = [job EXCEPT ![c] = [@ EXCEPT !.at = "record", !.had = None, !.seen = None,
                     !.bytes = Link, !.backup = None, !.new = None]]

\* inspect_instruction_copy: the recorded text, and for a profile a suffix.
Managed(i, digest) ==
  /\ data[i].kind = "file" /\ data[i].text = digest
  /\ data[i].tail = {} \/ profile

\* _plan_instruction_copy, _plan_instruction_link, _plan_instruction_removal.
PlannedCopy ==
  IF dest = None THEN "create"
  ELSE IF record = None \/ ~Managed(dest, record) THEN "conflict"
  ELSE IF source = record THEN "noop" ELSE "update"
PlannedLink ==
  IF dest = None THEN "create"
  ELSE IF record # None /\ data[dest] = Link THEN "noop" ELSE "conflict"
PlannedRemoval ==
  IF record = None \/ dest = None THEN "noop"
  ELSE IF (IF mode = "copy" THEN Managed(dest, record) ELSE data[dest] = Link)
       THEN "remove" ELSE "conflict"
Planned == IF ~selected THEN PlannedRemoval ELSE IF mode = "copy" THEN PlannedCopy ELSE PlannedLink

\* apply plans afresh and refuses a plan with a conflict.
Plan(c) ==
  /\ At(c, "idle") /\ Planned # "conflict"
  /\ applies < MaxApplies /\ applies' = applies + 1
  /\ job' = [job EXCEPT ![c] = [Idle EXCEPT !.at = IF Planned = "noop" THEN "record" ELSE "begin",
       !.op = Planned, !.want = source, !.had = record, !.keep = selected]]
  /\ UNCHANGED <<setVars, catVars, userVars, troubles, pathVars, record>>

\* The source is still what was planned and nothing came to the destination.
BeginCreate(c) ==
  /\ At(c, "begin") /\ job[c].op = "create"
  /\ IF (mode = "copy" => source = job[c].want) /\ dest = None THEN Goto(c, "install") ELSE Ends(c)
  /\ Inside

\* _observe_instruction_copy: one reading binds the bytes to the inode.
Observe(c) ==
  /\ At(c, "begin") /\ mode = "copy" /\ job[c].op \in {"update", "remove"}
  /\ IF /\ job[c].op = "update" => source = job[c].want
        /\ dest # None /\ Managed(dest, job[c].had)
     THEN job' = [job EXCEPT ![c].at = "recheck", ![c].seen = dest, ![c].bytes = data[dest]]
     ELSE Ends(c)
  /\ Inside

\* _exact_regular_file_matches
Same(c, i) == i # None /\ i = job[c].seen /\ data[i] = job[c].bytes

Recheck(c) ==
  /\ At(c, "recheck")
  /\ IF Same(c, dest) THEN Goto(c, "displace") ELSE Ends(c)
  /\ Inside

\* os.replace(destination, displaced): whatever is there now.
Displace(c) ==
  /\ At(c, "displace")
  /\ IF dest = None THEN Goto(c, "recover")
     ELSE job' = [job EXCEPT ![c].at = "verify", ![c].old = dest]
  /\ dest' = None /\ hole' = (hole \/ dest # None)
  /\ UNCHANGED <<data, kept, record>> /\ Quiet

Verify(c) ==
  /\ At(c, "verify")
  /\ Goto(c, IF Same(c, job[c].old) THEN "retain" ELSE "recover")
  /\ Inside

\* A second name for an inode, or a copy of it.
Twin(i) == IF links THEN i ELSE Fresh
\* Fault: the copy is named and never written.
WithTwin_Fault(i) == data
WithTwin(i) == IF links THEN data ELSE Append(data, data[i])

\* _retain_displaced_copy
Retain(c) ==
  /\ At(c, "retain")
  /\ data' = WithTwin(job[c].old)
  /\ kept' = kept \cup {Twin(job[c].old)}
  /\ job' = [job EXCEPT ![c].backup = Twin(job[c].old),
       ![c].at = IF ~Same(c, job[c].old) THEN "recover"
                 ELSE IF job[c].op = "update" THEN "install" ELSE "check"]
  /\ UNCHANGED <<dest, hole, record>> /\ Quiet

\* The staged replacement: the planned text with the observed suffix.
Staged(c) ==
  IF mode = "link" THEN Link
  ELSE File(job[c].want, IF job[c].op = "update" THEN job[c].bytes.tail ELSE {})

Refused(c) == IF job[c].op = "create" THEN Ends(c) ELSE Goto(c, "recover")

\* Fault: the replacement is renamed onto whatever is there.
Install_Fault(c) ==
  /\ At(c, "install")
  /\ data' = Append(data, Staged(c)) /\ dest' = Fresh /\ hole' = FALSE
  /\ job' = [job EXCEPT ![c].at = "check", ![c].new = Fresh]
  /\ UNCHANGED <<kept, record>> /\ Quiet
\* _install_staged_copy_without_replacement
Install(c) ==
  /\ At(c, "install")
  /\ IF dest # None THEN Refused(c) /\ UNCHANGED pathVars
     ELSE /\ data' = Append(data, Staged(c)) /\ dest' = Fresh /\ hole' = FALSE
          /\ job' = [job EXCEPT ![c].at = "check", ![c].new = Fresh]
          /\ UNCHANGED kept
  /\ UNCHANGED record /\ Quiet

\* The destination is what this command made of it: the replacement or nothing.
Placed(c) ==
  IF job[c].op = "remove" THEN dest = None
  ELSE dest # None /\ dest = job[c].new /\ data[dest] = Staged(c)

\* Fault: the backup is not read once more after the last unlink.
BackupHolds_Fault(c) == At(c, "final") \/ data[job[c].backup] = job[c].bytes
BackupHolds(c) == data[job[c].backup] = job[c].bytes

CheckCreated(c) ==
  /\ At(c, "check") /\ job[c].op = "create"
  /\ IF Placed(c) THEN Done(c) ELSE Ends(c)
  /\ Inside

Check(c) ==
  /\ At(c, "check") /\ job[c].op # "create"
  /\ Goto(c, IF Placed(c) /\ Same(c, job[c].old) /\ BackupHolds(c) THEN "unlink" ELSE "recover")
  /\ Inside

\* _remove_displaced_copy, after its comparison
Unlink(c) ==
  /\ At(c, "unlink") /\ mode = "copy"
  /\ job' = [job EXCEPT ![c].at = "final", ![c].old = None]
  /\ Inside

Final(c) ==
  /\ At(c, "final")
  /\ IF Placed(c) /\ BackupHolds(c) THEN Done(c) ELSE Goto(c, "recover")
  /\ hole' = (hole /\ job'[c].at = "recover")
  /\ UNCHANGED <<data, dest, kept, record>> /\ Quiet

\* The .old file, or else the backup.
Candidate(c) == IF job[c].old # None THEN job[c].old ELSE job[c].backup

\* Fault: only the .old file is tried.
Restores_Fault(c) == dest = None /\ job[c].old # None /\ data[job[c].old].kind = "file"
Restores(c) == dest = None /\ Candidate(c) # None /\ data[Candidate(c)].kind = "file"

\* _recover_instruction_update, _restore_displaced_copy_if_absent: an occupied
\* destination is left alone, a candidate that is no regular file is refused.
Recover(c) ==
  /\ At(c, "recover")
  /\ IF Restores(c)
     THEN dest' = Twin(Candidate(c)) /\ data' = WithTwin(Candidate(c)) /\ hole' = FALSE
     ELSE /\ hole' = (hole /\ ~(Candidate(c) # None /\ data[Candidate(c)].kind = "link"))
          /\ UNCHANGED <<data, dest>>
  /\ kept' = Left(c) /\ Ends(c)
  /\ UNCHANGED record /\ Quiet

\* apply_instruction_remove of a symlink: its target is compared, then it is unlinked.
CompareLink(c) ==
  /\ At(c, "begin") /\ mode = "link" /\ job[c].op = "remove"
  /\ IF dest # None /\ data[dest] = Link THEN Goto(c, "unlink") ELSE Ends(c)
  /\ Inside
UnlinkLink(c) ==
  /\ At(c, "unlink") /\ mode = "link"
  /\ IF dest = None THEN Ends(c) ELSE Done(c)
  /\ dest' = None
  /\ UNCHANGED <<data, kept, hole, record>> /\ Quiet

\* _desired_instruction_entries, write_instruction_state: the digest is that of
\* the source now, the selection that of the plan.
Record(c) ==
  /\ At(c, "record")
  /\ record' = IF ~job[c].keep THEN None ELSE IF mode = "copy" THEN source ELSE 1
  /\ Ends(c)
  /\ UNCHANGED pathVars /\ Quiet

Trouble == troubles < MaxTroubles /\ troubles' = troubles + 1

Fails(c) ==
  /\ job[c].at \in {"retain", "install", "unlink"} /\ mode = "copy"
  /\ Trouble
  /\ Refused(c)
  /\ UNCHANGED <<setVars, catVars, pathVars, record, userVars, applies>>

\* Killed: the .old file stays under its name.
Crash(c) ==
  /\ ~At(c, "idle") /\ Trouble
  /\ kept' = Left(c) /\ Ends(c)
  /\ hole' = (hole /\ \E d \in Commands \ {c} : job[d].old # None)
  /\ UNCHANGED <<setVars, catVars, data, dest, record, userVars, applies>>

-----------------------------------------------------------------------------
Update(c) ==
  \/ Plan(c) \/ BeginCreate(c) \/ Observe(c) \/ Recheck(c) \/ Displace(c) \/ Verify(c)
  \/ Retain(c) \/ Install(c) \/ CheckCreated(c) \/ Check(c) \/ Unlink(c) \/ Final(c)
  \/ Recover(c) \/ CompareLink(c) \/ UnlinkLink(c) \/ Record(c)

Next == User \/ \E c \in Commands : Update(c) \/ Fails(c) \/ Crash(c)

Spec == Init /\ [][Next]_vars

-----------------------------------------------------------------------------
Inodes == 1..Len(data)
States == {"idle", "begin", "recheck", "displace", "verify", "retain", "install", "check",
           "unlink", "final", "recover", "record"}
Job == [at : States, op : {"noop", "create", "update", "remove"}, want : Versions,
        had : Versions \cup {None}, keep : BOOLEAN, seen : Inodes \cup {None}, bytes : Content,
        old : Inodes \cup {None}, backup : Inodes \cup {None}, new : Inodes \cup {None}]

TypeOK ==
  /\ mode \in {"copy", "link"} /\ profile \in BOOLEAN /\ links \in BOOLEAN
  /\ source \in Versions /\ selected \in BOOLEAN /\ toggles \in 0..MaxToggles
  /\ data \in Seq(Content)
  /\ {dest, open} \subseteq Inodes \cup {None} /\ kept \subseteq Inodes
  /\ record \in Versions \cup {None}
  /\ job \in [Commands -> Job]
  /\ writes \in 0..MaxWrites /\ written \subseteq 1..writes /\ hole \in BOOLEAN
  /\ applies \in 0..MaxApplies /\ troubles \in 0..MaxTroubles

(* While copies are updated, removed and restored, by two commands and     *)
(* through kills and errors, nothing a user or a product wrote is lost: it *)
(* is at the destination, in the .old file or in a backup, also when it    *)
(* was written through a file opened before the swap.  Without hard links  *)
(* this holds up to the last comparison of the old file.                   *)
NothingLost ==
  mode = "copy" => written \subseteq UNION {data[i].tail : i \in Named}

(* A command that displaced the live file does not end with an empty path: *)
(* the replacement, the old file or what somebody put there is in place,   *)
(* unless the command was killed or had displaced something that is not a  *)
(* regular file.                                                           *)
PathKept == hole => \E c \in Commands : ~At(c, "idle")

(* An update that succeeds leaves the planned text and everything the      *)
(* product wrote to the old file, however late, in the live one; where the *)
(* backup is only a copy, everything it wrote up to the comparison.        *)
RuntimeCarried ==
  [][\A c \in Commands : At(c, "final") /\ job[c].op = "update" /\ job'[c].at = "record" =>
       /\ data[dest].text = job[c].want
       /\ data[dest].tail = (IF links THEN data[job[c].seen] ELSE job[c].bytes).tail]_vars

(* The digest an apply records is the digest of what it installed.         *)
RecordsApplied ==
  [][\A c \in Commands : At(c, "record") /\ job[c].op \in {"create", "update"} /\ job'[c] = Idle
       /\ troubles' = troubles /\ mode = "copy" => record' = job[c].want]_vars
=============================================================================
