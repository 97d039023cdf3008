----------------------------- MODULE Governance -----------------------------
(* governance.py: the ledger of hand-written manifests is validated, and   *)
(* in mode "required" it decides which artifacts of the catalog reach      *)
(* which target.                                                           *)
(*                                                                         *)
(* The ledger is the sequence of its files in the order of their names: a  *)
(* manifest, or Malformed.  An artifact reference is <<component, name>>;  *)
(* the inventory is the set of those discovery has validated.  Of the      *)
(* findings only the errors are kept: a warning stops nothing.             *)
EXTENDS Naturals, Sequences, RuleCase

CONSTANTS Malformed, Missing, Unknown   \* not a manifest; no value; a value outside its vocabulary

Kinds == {"instruction", "skill", "event-handler", "agent-schedule", "host-job", "tool"}
Deliveries == {"standalone", "plugin", "mcp-registration", "settings-fragment"}
Lifecycles == {"proposed", "active", "deprecated", "quarantined", "removed"}
Deployable == {"active", "deprecated"}
LegalDelivery == {
  <<"instruction", "standalone">>, <<"skill", "standalone">>,
  <<"event-handler", "plugin">>, <<"event-handler", "settings-fragment">>,
  <<"agent-schedule", "standalone">>, <<"host-job", "standalone">>,
  <<"tool", "mcp-registration">>}
Components == {"hooks", "instructions", "mcp", "plugins", "schedules", "settings", "skills"}
Products == {"codex", "claude-code"}
Platforms == {"linux", "windows"}
Surfaces == {"cli", "desktop"}

Finding(code, holds) == IF holds THEN {code} ELSE {}

-----------------------------------------------------------------------------
(* load_governance: a file without an id, or with the id of an earlier     *)
(* one, is left out of the ledger.                                         *)
Parsed(files) == {i \in DOMAIN files : files[i] # Malformed}
Identified(files) == {i \in Parsed(files) : files[i].id # Missing}
Repeated(files) ==
  {i \in Identified(files) : \E j \in Identified(files) : j < i /\ files[j].id = files[i].id}
Loaded(files) == {files[i] : i \in Identified(files) \ Repeated(files)}

\* Fault: a repeated id is left out without an error.
LoadErrors_Fault(files) ==
  Finding("GOV001", Parsed(files) # DOMAIN files)
    \cup Finding("GOV002", Identified(files) # Parsed(files))
LoadErrors(files) ==
  Finding("GOV001", Parsed(files) # DOMAIN files)
    \cup Finding("GOV002", Identified(files) # Parsed(files))
    \cup Finding("GOV003", Repeated(files) # {})

-----------------------------------------------------------------------------
(* validate_governance, for one manifest of the ledger.                    *)
References(m) == {a.ref : a \in m.artifacts}

ReferenceErrors(m, inventory) ==
  Finding("GOV010", m.artifacts = {} /\ m.lifecycle # "removed")
    \cup Finding("GOV011", \E ref \in References(m) : ref[1] \notin Components)
    \cup Finding("GOV012", \E ref \in References(m) : ref[1] \in Components /\ ref \notin inventory)

AxisErrors(m) ==
  Finding("GOV020", m.kind \notin Kinds \/ m.delivery \notin Deliveries \/ m.lifecycle \notin Lifecycles)
    \cup Finding("GOV021", /\ m.kind \in Kinds /\ m.delivery \in Deliveries
                           /\ <<m.kind, m.delivery>> \notin LegalDelivery)
    \cup Finding("GOV022", m.kind = "host-job" /\ m.lifecycle \in Deployable)
    \cup Finding("GOV025", m.lifecycle = "active" /\ ~m.reviewed)

\* An artifact's provenance is Missing, Unknown, "stated" or "pinned": with
\* everything a redistribution needs; GOV034 stands for what checks that (032 to 037).
ArtifactErrors(m) ==
  LET Some(P(_)) == \E a \in m.artifacts : P(a)
  IN Finding("GOV023", m.lifecycle = "active" /\ Some(LAMBDA a : a.provenance = Missing))
       \cup Finding("GOV028", Some(LAMBDA a : a.provenance = Unknown))
       \cup Finding("GOV034", m.redistribution = "allowed" /\ Some(LAMBDA a : a.provenance # "pinned"))
       \cup Finding("GOV038", Some(LAMBDA a : (m.kind = "tool") # (a.ref[1] = "mcp")))
       \cup Finding("GOV024", m.kind = "agent-schedule" /\ Some(LAMBDA a : a.ref[1] # "schedules"))

\* _check_target_blocks
BlockOK(block) ==
  /\ block.product \in Products /\ block.platform \in Platforms
  /\ block.surfaces # {} /\ block.surfaces \subseteq Surfaces

\* Fault: a block that can match no target is taken.
TargetErrors_Fault(m) == Finding("GOV026", m.lifecycle \in Deployable /\ m.targets = << >>)
TargetErrors(m) ==
  Finding("GOV026", m.lifecycle \in Deployable /\ m.targets = << >>)
    \cup Finding("GOV027", \E i \in DOMAIN m.targets : ~BlockOK(m.targets[i]))

ManifestErrors(m, inventory) ==
  ReferenceErrors(m, inventory) \cup AxisErrors(m) \cup ArtifactErrors(m) \cup TargetErrors(m)
    \cup Finding("GOV029", m.redistribution \notin {Missing, "allowed", "blocked"})

Governed(files) == UNION {References(m) : m \in Loaded(files)}

\* run_governance in mode "required"; in mode "audit" these stop nothing.
\* unreadable: the Skills whose SKILL.md is missing or does not parse.
Errors(files, inventory, unreadable) ==
  LoadErrors(files)
    \cup (UNION {ManifestErrors(m, inventory) : m \in Loaded(files)})
    \cup Finding("GOV030", ~(inventory \subseteq Governed(files)))
    \cup Finding("GOV040", unreadable # {})

Resolves(mode, files, inventory, unreadable) ==
  mode = "audit" \/ (mode = "required" /\ Errors(files, inventory, unreadable) = {})

-----------------------------------------------------------------------------
(* ResolvedInventory: what a target gets.                                  *)
Supports(m, target) ==
  \E i \in DOMAIN m.targets :
    /\ m.targets[i].product = target.product
    /\ m.targets[i].platform = target.platform
    /\ m.targets[i].surfaces \cap target.surfaces # {}

ForTarget(mode, files, inventory, component, target) ==
  {ref \in inventory :
     /\ ref[1] = component
     /\ mode = "audit" \/ \E m \in Loaded(files) :
          m.lifecycle \in Deployable /\ Supports(m, target) /\ ref \in References(m)}

\* A product has one hook plugin on a host: its targets share their hooks.
HooksForProduct(mode, files, inventory, targets, product) ==
  UNION {ForTarget(mode, files, inventory, "hooks", t) :
           t \in {u \in targets : u.product = product /\ "hooks" \in u.components}}

-----------------------------------------------------------------------------
(* What the author of a ledger reads in its files: a target gets an        *)
(* artifact exactly if some deployable file names both, every artifact is  *)
(* named, and no deployable file is without a target it could ever match.  *)
AsWritten(files, inventory, targets) ==
  LET written == {files[i] : i \in DOMAIN files}
      deployable == {f \in written : f.lifecycle \in Deployable}
  IN /\ \A t \in targets, c \in Components :
          ForTarget("required", files, inventory, c, t) =
            {ref \in inventory : ref[1] = c /\ \E f \in deployable : Supports(f, t) /\ ref \in References(f)}
     /\ \A ref \in inventory : \E f \in written : ref \in References(f)
     /\ \A f \in deployable : \E t \in targets : Supports(f, t)
     /\ \A t \in targets :
          "hooks" \in t.components =>
            ForTarget("required", files, inventory, "hooks", t)
              \subseteq HooksForProduct("required", files, inventory, targets, t.product)

(* A ledger in mode "required" is refused or does what its author reads in *)
(* its files: nothing is retracted in silence.                             *)
NothingRetractedSilently ==
  case.rule = "ledger" /\ Resolves(case.mode, case.files, case.inventory, {}) =>
    AsWritten(case.files, case.inventory, case.targets)
=============================================================================
