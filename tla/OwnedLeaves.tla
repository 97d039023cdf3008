----------------------------- MODULE OwnedLeaves -----------------------------
(***************************************************************************)
(* The owned-leaf engine of settings.py on the settings document of one    *)
(* Codex target, as `apply` drives it for the Settings bundles and for the *)
(* MCP servers (applier.py, planner.py), with `mcp adopt` and              *)
(* `mcp release` (mcp_ownership.py).                                       *)
(*                                                                         *)
(* The document belongs to the product and the user, who edit it at any    *)
(* time.  The bridge owns single leaves of it by a record of digests, kept *)
(* beside it and written after it: it may touch a value only while that is *)
(* what it has put there.  One command runs at a time, as                  *)
(* docs/adr/0009 asks; it may be killed at any point.                      *)
(*                                                                         *)
(* A value stands for its digest, the document for its bytes.              *)
(***************************************************************************)
EXTENDS Naturals, Sequences, FiniteSets

CONSTANTS
  Leaves,      \* paths the catalog can declare
  Order,       \* the leaves in the order of their paths
  Tables,      \* containers
  Servers,     \* the tables mcp_servers.<name>
  Approvals,   \* `tools` in a server table
  Secrets,     \* other keys the catalog cannot declare
  Transports,  \* leaves without which Codex rejects a server table
  Lists,       \* `args` and `env_vars`: empty counts as absent
  Above,       \* Above[x]: the containers of path x
  Values,      \* values the catalog can declare
  Catalogs,    \* desired leaves the catalog can give the target
  Existing,    \* documents the user can have before the first command
  MaxMeddle,   \* bound: steps of the user
  MaxFaults,   \* bound: kills
  None

Paths == Leaves \cup Tables \cup Approvals \cup Secrets
Parts == {"settings", "mcp"}
Contents == Values \cup {"own", "empty", "table", None}

ASSUME PathsAssumption ==
  /\ Servers \subseteq Tables /\ Transports \subseteq Leaves /\ Lists \subseteq Leaves
  /\ Above \in [Paths -> SUBSET Tables]
  /\ {Order[i] : i \in DOMAIN Order} = Leaves
  /\ Leaves \cap Tables = {} /\ Tables \cap (Approvals \cup Secrets) = {}
\* Containers of containers are containers; a path is in one server at most.
ASSUME AboveAssumption ==
  \A x \in Paths :
    /\ \A t \in Above[x] : Above[t] \subseteq Above[x] /\ t # x
    /\ \A s1, s2 \in Servers \cap Above[x] : s1 = s2
ASSUME ValuesAssumption ==
  /\ None \notin Values \cup {"own", "empty", "table"} \cup Paths
  /\ Values \cap {"own", "empty", "table"} = {}
ASSUME ExistingAssumption ==
  /\ Existing \subseteq [Paths -> Contents]
  /\ \A d \in Existing, x \in Paths :
       d[x] # None => \A t \in Above[x] : d[t] = "table"
ASSUME BoundsAssumption == MaxMeddle \in Nat /\ MaxFaults \in Nat

Under(t) == {x \in Paths : t \in Above[x]}
ServerLeaves == {l \in Leaves : Above[l] \cap Servers # {}}
Mine(q) == IF q = "mcp" THEN ServerLeaves ELSE Leaves \ ServerLeaves

\* Every declared server has a transport, and none is declared empty.
ASSUME CatalogsAssumption ==
  /\ Catalogs \subseteq [Leaves -> Values \cup {None}]
  /\ \A w \in Catalogs, s \in Servers :
       (\E l \in Leaves \cap Under(s) : w[l] # None) =>
         \E l \in Transports \cap Under(s) : w[l] # None

VARIABLES
  want,      \* leaves the catalog and governance give the target
  doc,       \* doc[x]: what the document has at x, "table", or None
  owned,     \* owned[l]: recorded digest of an owned leaf, or None
  held,      \* held[q]: containers recorded as created or adopted
  pc,        \* control state of the command
  part,      \* component whose leaves it patches
  reviewed,  \* leaves the user has reviewed, and what the plan said of them
  fresh,     \* leaves found in the sources when the patch was planned
  base,      \* document the patch was planned on
  raw,       \* document that is patched
  goal,      \* servers to be adopted
  placed,    \* placed[x]: what the bridge has put or adopted at x, while it
             \* is recorded (history)
  missed,    \* paths the user wrote between the last plan and the reread (history)
  late,      \* paths the user wrote between the last check and the replacement (history)
  meddles, faults   \* counters, for the bounds

record == <<owned, held>>
task == <<part, reviewed, fresh, base, raw, goal>>
history == <<placed, missed, late>>
vars == <<want, doc, record, pc, task, history, meddles, faults>>

Nothing == [l \in Leaves |-> None]
Blank == [x \in Paths |-> None]

Init ==
  /\ want \in Catalogs
  /\ doc \in Existing
  /\ owned = Nothing
  /\ held = [q \in Parts |-> {}]
  /\ pc = "idle" /\ part = "settings"
  /\ reviewed = [want |-> Nothing, says |-> [q \in Parts |-> None]]
  /\ fresh = Nothing /\ base = Blank /\ raw = Blank /\ goal = {}
  /\ placed = [x \in Paths |-> {}] /\ missed = {} /\ late = {}
  /\ meddles = 0 /\ faults = 0

-----------------------------------------------------------------------------
(* plan_settings_patch: the leaves w of part q against document d and the  *)
(* record.                                                                 *)

Desired(q, w) == {l \in Mine(q) : w[l] # None}
Previous(q) == {l \in Mine(q) : owned[l] # None}

\* Fault: an existing table is merged into.
Claimed_Fault(q, w, d) == {}

\* Servers whose table exists, with something in it and nothing owned.
Claimed(q, w, d) ==
  {s \in Servers :
     /\ Under(s) \cap Desired(q, w) # {} /\ Under(s) \cap Previous(q) = {}
     /\ d[s] = "table" /\ \E x \in Under(s) : d[x] # None}

\* A new leaf claims only an absent path, an owned one only its own value.
Unowned(q, w, d) ==
  {l \in Desired(q, w) \ Previous(q) :
     d[l] # None \/ \E t \in Above[l] : d[t] \notin {None, "table"}}
Drifted(q, w, d) ==
  {l \in Previous(q) : d[l] # owned[l] /\ (l \in Desired(q, w) \/ d[l] # None)}

Removes(q, w, d) == {l \in Previous(q) \ Desired(q, w) : d[l] = owned[l]}
Sets(q, w) == {l \in Desired(q, w) : owned[l] # w[l]}

\* Fault: only the leaves go.
Dropped_Fault(q, w, d) == {}

\* Server tables that go as a unit with their last owned leaves, and what
\* else is in them.
Dropped(q, w, d) ==
  {s \in Servers : Under(s) \cap Removes(q, w, d) # {} /\ Under(s) \cap Desired(q, w) = {}}
Rest(s, q, w, d) == {x \in Under(s) \ Removes(q, w, d) : d[x] # None}
Disposable(x, d) == x \in Approvals \/ (x \in Lists /\ d[x] = "empty")
Leftover(q, w, d) ==
  \E s \in Dropped(q, w, d) : \E x \in Rest(s, q, w, d) : ~ Disposable(x, d)

Conflict(q, w, d) ==
  \/ Claimed(q, w, d) # {} \/ Unowned(q, w, d) # {} \/ Drifted(q, w, d) # {}
  \/ Leftover(q, w, d)
Conflicted == \E q \in Parts : Conflict(q, want, doc)

Changes(q, w, d) == Sets(q, w) \cup Removes(q, w, d)

\* Identity of the desired leaves.  That of Settings leaves out the paths.
SourceDigest(q, w) ==
  IF q = "mcp" THEN [l \in Desired(q, w) |-> w[l]]
  ELSE LET declared == SelectSeq(Order, LAMBDA l : l \in Desired(q, w))
       IN [i \in DOMAIN declared |-> w[declared[i]]]

\* What the plan says of one part: digest, counts and warnings, no paths.
Says(q, w, d) ==
  IF Desired(q, w) \cup Previous(q) = {} THEN None
  ELSE [digest |-> SourceDigest(q, w),
        create |-> Cardinality(Sets(q, w) \ Previous(q)),
        update |-> Cardinality(Sets(q, w) \cap Previous(q)),
        remove |-> Cardinality(Removes(q, w, d)
                     \cup UNION {Rest(s, q, w, d) : s \in Dropped(q, w, d)}),
        unowned |-> {x \in Leaves \cup Secrets :
                       /\ d[x] # None /\ x \notin Previous(q) /\ ~ Disposable(x, d)
                       /\ \E s \in Servers \cap Above[x] : Under(s) \cap Previous(q) # {}},
        approvals |-> {x \in Approvals : d[x] # None /\ Above[x] \cap Dropped(q, w, d) # {}}]

-----------------------------------------------------------------------------
(* apply: the plan is reviewed, rebuilt, and carried out part by part.     *)

Goto(from, to) == pc = from /\ pc' = to
Plan == [q \in Parts |-> Says(q, want, doc)]

Review ==
  /\ Goto("idle", "reviewed")
  /\ ~ Conflicted
  /\ reviewed' = [want |-> want, says |-> Plan]
  /\ UNCHANGED <<want, doc, record, part, fresh, base, raw, goal, history, meddles, faults>>

\* The command ends.
Leave ==
  /\ pc' = "idle" /\ part' = "settings"
  /\ reviewed' = [want |-> Nothing, says |-> [q \in Parts |-> None]]
  /\ fresh' = Nothing /\ base' = Blank /\ raw' = Blank /\ goal' = {}
  /\ missed' = {} /\ late' = {}

\* "changed after planning; review a fresh plan", or conflicts.
Refuse ==
  /\ pc = "reviewed"
  /\ Plan # reviewed.says \/ Conflicted
  /\ Leave
  /\ UNCHANGED <<want, doc, record, placed, meddles, faults>>

\* The patch of part q begins.
Enter(q) ==
  /\ pc' = "plan" /\ part' = q
  /\ fresh' = Nothing /\ base' = Blank /\ raw' = Blank
  /\ missed' = {} /\ late' = {}
  /\ UNCHANGED <<reviewed, goal>>

\* A part that desires and owns nothing has no action.
Begin ==
  /\ pc = "reviewed"
  /\ Plan = reviewed.says /\ ~ Conflicted
  /\ IF reviewed.says["settings"] # None THEN Enter("settings")
     ELSE IF reviewed.says["mcp"] # None THEN Enter("mcp") ELSE Leave
  /\ UNCHANGED <<want, doc, record, placed, meddles, faults>>

\* Fault: the sources are not compared with the reviewed ones again.
PlanPatch_Fault ==
  /\ Goto("plan", "replan")
  /\ ~ Conflict(part, want, doc)
  /\ fresh' = want /\ base' = doc
  /\ UNCHANGED <<want, doc, record, part, reviewed, raw, goal, history, meddles, faults>>

\* The sources, the record and the document are read again.
PlanPatch ==
  /\ Goto("plan", "replan")
  /\ SourceDigest(part, want) = reviewed.says[part].digest
  /\ ~ Conflict(part, want, doc)
  /\ fresh' = want /\ base' = doc
  /\ UNCHANGED <<want, doc, record, part, reviewed, raw, goal, history, meddles, faults>>

PlanPatchFails ==
  /\ pc = "plan"
  /\ SourceDigest(part, want) # reviewed.says[part].digest \/ Conflict(part, want, doc)
  /\ Leave
  /\ UNCHANGED <<want, doc, record, placed, meddles, faults>>

\* apply_settings_patch plans again and compares; without changes it only
\* returns the ownership to be recorded.
Replan ==
  /\ Goto("replan", IF Changes(part, fresh, doc) = {} THEN "record" ELSE "reread")
  /\ doc = base
  /\ UNCHANGED <<want, doc, record, task, history, meddles, faults>>

ReplanFails ==
  /\ pc = "replan" /\ doc # base
  /\ Leave
  /\ UNCHANGED <<want, doc, record, placed, meddles, faults>>

\* The document is read once more and patched.  Its bytes are not compared
\* with those of the plan: they become what the later checks expect.
Reread ==
  /\ Goto("reread", "check")
  /\ raw' = doc
  /\ UNCHANGED <<want, doc, record, part, reviewed, fresh, base, goal, history, meddles, faults>>

\* An owned setting has gone, or a value stands where a table must be.
Unpatchable ==
  \/ \E l \in Removes(part, fresh, base) : raw[l] = None
  \/ \E l \in Sets(part, fresh) : \E t \in Above[l] : raw[t] \notin {None, "table"}

\* Fault: the bytes are not compared before the replacement.
Check_Fault ==
  /\ Goto("check", "put")
  /\ ~ Unpatchable
  /\ UNCHANGED <<want, doc, record, task, history, meddles, faults>>

\* _atomic_replace compares the bytes, stages the output, compares again.
Check ==
  /\ Goto("check", "put")
  /\ ~ Unpatchable /\ doc = raw
  /\ UNCHANGED <<want, doc, record, task, history, meddles, faults>>

CheckFails ==
  /\ pc = "check"
  /\ Unpatchable \/ doc # raw
  /\ Leave
  /\ UNCHANGED <<want, doc, record, placed, meddles, faults>>

Cut ==
  LET gone == Dropped(part, fresh, base)
      swept == Removes(part, fresh, base) \cup gone \cup UNION {Under(s) : s \in gone}
  IN [x \in Paths |-> IF x \in swept THEN None ELSE raw[x]]

\* Containers of removed leaves that the bridge holds, and that are empty.
Pruned ==
  LET mine == {t \in held[part] :
                 Cut[t] = "table" /\ Under(t) \cap Removes(part, fresh, base) # {}}
  IN {t \in mine : \A x \in Under(t) : Cut[x] # None => x \in mine}

Parents == UNION {Above[l] : l \in Sets(part, fresh)}
Patched ==
  [x \in Paths |-> IF x \in Sets(part, fresh) THEN fresh[x]
                   ELSE IF x \in Parents THEN "table"
                   ELSE IF x \in Pruned THEN None ELSE Cut[x]]

\* os.replace.  A container that appeared since the plan counts as created.
Put ==
  /\ Goto("put", "record")
  /\ doc' = Patched
  /\ placed' = [x \in Paths |->
       IF x \in Sets(part, fresh) \/ (x \in Parents /\ base[x] = None)
       THEN placed[x] \cup {doc'[x]} ELSE placed[x]]
  /\ UNCHANGED <<want, record, task, missed, late, meddles, faults>>

\* Fault: the leaf is counted among the containers it created.
Created_Fault(l) ==
  (held[part] \cap Above[l])
    \cup {t \in Above[l] \cup {l} : owned[l] = None /\ base[t] = None}

\* Containers recorded for a leaf: those it had, inherited, or creates.
Created(l) ==
  (held[part] \cap Above[l])
    \cup {t \in Above[l] : owned[l] = None /\ base[t] = None}

\* What the history keeps under the new record.
Forget(o, h) ==
  placed' = [x \in Paths |->
    IF (x \in Leaves /\ o[x] # None) \/ (\E q \in Parts : x \in h[q]) THEN placed[x] ELSE {}]

\* Fault: deselected leaves stay in the record.
Record_Fault ==
  /\ pc = "record"
  /\ owned' = [l \in Leaves |-> IF l \in Desired(part, fresh) THEN fresh[l] ELSE owned[l]]
  /\ held' = [held EXCEPT ![part] = UNION {Created(l) : l \in Desired(part, fresh)}]
  /\ Forget(owned', held')
  /\ IF part = "settings" /\ reviewed.says["mcp"] # None THEN Enter("mcp") ELSE Leave
  /\ UNCHANGED <<want, doc, meddles, faults>>

\* write_settings_state, or write_mcp_leaf_state; then the next part.
Record ==
  /\ pc = "record"
  /\ owned' = [l \in Leaves |-> IF l \in Mine(part) THEN fresh[l] ELSE owned[l]]
  /\ held' = [held EXCEPT ![part] = UNION {Created(l) : l \in Desired(part, fresh)}]
  /\ Forget(owned', held')
  /\ IF part = "settings" /\ reviewed.says["mcp"] # None THEN Enter("mcp") ELSE Leave
  /\ UNCHANGED <<want, doc, meddles, faults>>

Kill ==
  /\ pc # "idle" /\ faults < MaxFaults
  /\ faults' = faults + 1
  /\ Leave
  /\ UNCHANGED <<want, doc, record, placed, meddles>>

-----------------------------------------------------------------------------
(* The user, who also runs `mcp adopt` and `mcp release`.                  *)

Meddle == meddles < MaxMeddle /\ meddles' = meddles + 1

\* Every declared leaf is there with its value, and nothing else but
\* approvals and empty lists.
Adoptable(s) ==
  LET declared == Under(s) \cap Desired("mcp", want) IN
  /\ declared # {} /\ declared \cap Previous("mcp") = {}
  /\ doc[s] = "table"
  /\ \A l \in declared : doc[l] = want[l]
  /\ \A x \in Under(s) \ declared : doc[x] # None => Disposable(x, doc)

\* mcp adopt, up to its second look at the entries.
Adopt ==
  /\ Goto("idle", "adopt") /\ Meddle
  /\ \E chosen \in SUBSET {s \in Servers : Adoptable(s)} : chosen # {} /\ goal' = chosen
  /\ fresh' = want
  /\ UNCHANGED <<want, doc, record, part, reviewed, base, raw, history, faults>>

\* record_adoption: the server table counts as held.
RecordAdoption ==
  LET adopted == {l \in ServerLeaves : Above[l] \cap goal # {} /\ fresh[l] # None} IN
  /\ pc = "adopt"
  /\ owned' = [l \in Leaves |-> IF l \in adopted THEN fresh[l] ELSE owned[l]]
  /\ held' = [held EXCEPT !["mcp"] = @ \cup goal]
  /\ placed' = [x \in Paths |-> IF x \in adopted THEN placed[x] \cup {fresh[x]}
                                ELSE IF x \in goal THEN placed[x] \cup {"table"} ELSE placed[x]]
  /\ Leave
  /\ UNCHANGED <<want, doc, meddles, faults>>

\* mcp release: record_release of servers that are owned.
Release ==
  /\ pc = "idle" /\ Meddle
  /\ \E chosen \in SUBSET {s \in Servers : Under(s) \cap Previous("mcp") # {}} :
       /\ chosen # {}
       /\ owned' = [l \in Leaves |-> IF Above[l] \cap chosen # {} THEN None ELSE owned[l]]
       /\ held' = [held EXCEPT !["mcp"] =
            {t \in @ : \E l \in ServerLeaves : t \in Above[l] /\ owned'[l] # None}]
  /\ Forget(owned', held')
  /\ UNCHANGED <<want, doc, pc, task, missed, late, faults>>

EditCatalog ==
  /\ Meddle
  /\ \E w \in Catalogs : w # want /\ want' = w
  /\ UNCHANGED <<doc, record, pc, task, history, faults>>

\* The document with v at x: its containers are there, and what was below a
\* table that is replaced or removed is not.
Written(x, v) ==
  [y \in Paths |->
    IF y = x THEN v
    ELSE IF v # None /\ y \in Above[x] THEN "table"
    ELSE IF v # "table" /\ x \in Above[y] THEN None
    ELSE doc[y]]

Write ==
  /\ Meddle
  /\ \E x \in Paths :
       /\ \A t \in Above[x] : doc[t] \in {None, "table"}
       /\ \E v \in {None, "own"} \cup (IF x \in Tables THEN {"table"} ELSE {})
                   \cup (IF x \in Leaves THEN {want[x]} ELSE {})
                   \cup (IF x \in Lists THEN {"empty"} ELSE {}) :
            v # doc[x] /\ doc' = Written(x, v)
  /\ LET touched == {x \in Paths : doc'[x] # doc[x]} IN
     /\ missed' = IF pc = "reread" THEN missed \cup touched ELSE missed
     /\ late' = IF pc = "put" THEN late \cup touched ELSE late
  /\ UNCHANGED <<want, record, pc, task, placed, faults>>

User == EditCatalog \/ Write \/ Adopt \/ Release

-----------------------------------------------------------------------------
Apply ==
  Review \/ Refuse \/ Begin \/ PlanPatch \/ PlanPatchFails \/ Replan \/ ReplanFails \/ Reread
  \/ Check \/ CheckFails \/ Put \/ Record
Step == Apply \/ RecordAdoption

Next == User \/ Step \/ Kill

Spec == Init /\ [][Next]_vars

(* The user runs `apply` again and again, and a running command goes on.   *)
FairSpec == Spec /\ WF_vars(Step)
-----------------------------------------------------------------------------
States == {"idle", "reviewed", "plan", "replan", "reread", "check", "put", "record", "adopt"}
Documents == [Paths -> Contents]

TypeOK ==
  /\ want \in Catalogs
  /\ doc \in Documents /\ base \in Documents /\ raw \in Documents
  /\ owned \in [Leaves -> Values \cup {None}] /\ fresh \in [Leaves -> Values \cup {None}]
  /\ held \in [Parts -> SUBSET Tables]
  /\ pc \in States /\ part \in Parts
  /\ reviewed.want \in [Leaves -> Values \cup {None}]
  /\ goal \subseteq Servers
  /\ placed \in [Paths -> SUBSET Contents]
  /\ missed \subseteq Paths /\ late \subseteq Paths
  /\ meddles \in 0..MaxMeddle /\ faults \in 0..MaxFaults

\* What goes, as documented, with a server table that is removed.
Swept(s) == {s} \cup {x \in Under(s) : Disposable(x, doc)}

Kept(windows) ==
  \A x \in Paths :
    doc[x] # None /\ doc'[x] # doc[x] =>
      \/ doc[x] \in placed[x]
      \/ \E s \in Servers : doc'[s] = None /\ x \in Swept(s)
      \/ x \in windows

(* A command changes or removes only what the bridge has put or adopted    *)
(* there, through kills, adoption, release and every change of the catalog *)
(* and the document, and containers included; but for approvals and empty  *)
(* lists of a removed server, and for what was written in the two windows  *)
(* of the replacement.                                                     *)
UserContentKept == [][pc' # pc => Kept(missed \cup late)]_vars

(* A value the user writes after the last plan stops the command: only     *)
(* what is written between the last comparison of the bytes and the rename *)
(* can be lost.                                                            *)
DriftStops == [][pc' # pc => Kept(late)]_vars

(* No command leaves a server table Codex cannot load, that is one without *)
(* a transport, but by undoing what was written in those windows.          *)
Loads(s, d) == d[s] = "table" => \E l \in Transports \cap Under(s) : d[l] # None
ServerLoads ==
  [][pc' # pc =>
      \A s \in Servers :
        Loads(s, doc) => Loads(s, doc') \/ ({s} \cup Under(s)) \cap (missed \cup late) # {}]_vars

(* A catalog server is never merged into a table of the user's, with its   *)
(* credentials or approvals, in which the bridge owns nothing.             *)
NeverMerged ==
  [][pc' # pc =>
      \A s \in Servers :
        (\E x \in Under(s) : doc[x] # None) /\ Under(s) \cap Previous("mcp") = {} =>
          \/ \A x \in Under(s) : doc'[x] = doc[x]
          \/ Under(s) \cap (missed \cup late) # {}]_vars

(* What `apply` writes to a server table is what the user has reviewed,    *)
(* although the catalog is read three times.                               *)
ReviewedServers ==
  [][pc = "put" /\ pc' = "record" =>
      \A l \in ServerLeaves : doc'[l] \in {raw[l], None, reviewed.want[l]}]_vars

(* All of this is what a user may rely on of a server table.               *)
ServersSound == ServerLoads /\ NeverMerged /\ ReviewedServers

(* `apply` run again and again brings the document and the record to the   *)
(* desired leaves for good, or stops at a conflict.                        *)
Settled ==
  \A l \in Leaves : owned[l] = want[l] /\ (want[l] # None => doc[l] = want[l])
Converges == <>[](Settled \/ Conflicted)
=============================================================================
