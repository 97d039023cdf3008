------------------------------ MODULE Register ------------------------------
(* `register`, `mcp adopt` and `mcp release` of cli.py for one Claude Code *)
(* target, with the planning of planner.py and mcp.py and the records of   *)
(* state.py: Plugins and user-scope MCP servers live in the product, which *)
(* only its own command line changes; what the bridge has put there is     *)
(* remembered in records that are written after the commands.              *)
(*                                                                         *)
(* One bridge command runs at a time (there is no lock; security.md asks   *)
(* for it), but the product and its user change everything at any moment,  *)
(* every command may fail before or after its effect, and the bridge may   *)
(* be killed between any two steps.  A server entry is a value that its    *)
(* digest identifies.  Commands that only refresh (marketplace update,     *)
(* plugin update) and the publication of the marketplace are left out.     *)
EXTENDS Naturals, Sequences, FiniteSets, SequencesExt

CONSTANTS
  Servers, Plugins,
  Specs,        \* rendered server entries
  Foreign,      \* an entry, or a marketplace source, that is not the bridge's
  Places,       \* stable marketplace paths; state_dir is moved with its records
  MaxEdits,     \* bound: changes of the catalog and of state_dir
  MaxMeddle,    \* bound: changes in the product, adoptions and releases
  MaxTroubles,  \* bound: failing commands and kills
  None

ASSUME RegisterLimits == MaxEdits \in Nat /\ MaxMeddle \in Nat /\ MaxTroubles \in Nat
ASSUME RegisterNames == IsFiniteSet(Servers) /\ IsFiniteSet(Plugins)
ASSUME RegisterValues == None \notin Specs \cup Places \cup {Foreign} /\ Foreign \notin Specs \cup Places

Entries == Specs \cup {Foreign, None}
Sources == Places \cup {Foreign, None}

VARIABLES
  want,       \* desired server entries
  selected,   \* desired Plugins
  place,      \* where the marketplace is published
  live,       \* mcpServers of the Claude user config
  installed,  \* Plugins of this marketplace in the product
  market,     \* source registered under the bridge's marketplace name
  owned,      \* claude_servers of mcp.json
  recorded,   \* plugins.json: names and marketplace source
  cmd,        \* the running command and its local variables
  edits, meddle, troubles,
  mine,       \* history: servers whose entry is the user's, not the recorded one
  blame,      \* history: servers somebody touched, or a failure or kill cut off
  loose       \* history: Plugins installed by a run that did not get to its record

catVars == <<want, selected, place, edits>>
prodVars == <<live, installed, market>>
recVars == <<owned, recorded>>
histVars == <<mine, blame, loose>>
vars == <<catVars, prodVars, recVars, cmd, meddle, troubles, histVars>>

NoPlugins == [names |-> {}, source |-> None]
Nothing == [n \in Servers |-> None]

\* todo: commands still to run; names: Plugins to record, or servers to adopt or
\* release; home: the marketplace path of its configuration;
\* held: the ownership in memory; goal: the one to end with;
\* late (history): the entry was changed after the last look at it.
Idle == [at |-> "idle", todo |-> << >>, names |-> {}, home |-> None,
         held |-> Nothing, goal |-> Nothing, late |-> FALSE]

Init ==
  /\ want \in [Servers -> Specs \cup {None}] /\ selected \in SUBSET Plugins /\ place \in Places
  /\ live \in [Servers -> {None, Foreign}]
  /\ installed = {} /\ market \in {None, Foreign}
  /\ owned = Nothing /\ recorded = NoPlugins
  /\ cmd = Idle
  /\ edits = 0 /\ meddle = 0 /\ troubles = 0
  /\ mine = {n \in Servers : live[n] # None} /\ blame = mine /\ loose = {}

-----------------------------------------------------------------------------
(* Author of the catalog, user and product.                                *)

Edit ==
  /\ edits < MaxEdits /\ edits' = edits + 1
  /\ \/ \E n \in Servers, s \in Specs \cup {None} :
          want' = [want EXCEPT ![n] = s] /\ UNCHANGED <<selected, place>>
     \/ \E p \in Plugins : selected' = (selected \ {p}) \cup ({p} \ selected) /\ UNCHANGED <<want, place>>
     \/ place' \in Places /\ UNCHANGED <<want, selected>>
  /\ UNCHANGED <<prodVars, recVars, cmd, meddle, troubles, histVars>>

Meddles == meddle < MaxMeddle /\ meddle' = meddle + 1

Head1 == Head(cmd.todo)
\* An entry appears, changes or goes away behind the bridge.
EditEntry(n, e) ==
  /\ Meddles /\ live[n] # e
  /\ live' = [live EXCEPT ![n] = e]
  /\ mine' = IF e \in {None, owned[n]} THEN mine \ {n} ELSE mine \cup {n}
  /\ blame' = blame \cup {n}
  /\ cmd' = [cmd EXCEPT !.late = @ \/ (cmd.at = "act" /\ Head1[2] = n)]
  /\ UNCHANGED <<catVars, installed, market, recVars, troubles, loose>>

EditPlugins ==
  /\ Meddles
  /\ \/ \E p \in installed : installed' = installed \ {p} /\ UNCHANGED market
     \/ market' \in {None, Foreign} /\ UNCHANGED installed
  /\ UNCHANGED <<catVars, live, recVars, cmd, troubles, histVars>>

-----------------------------------------------------------------------------
(* reconcile_claude_mcp and _registration_hints.                           *)

Conflict(n) ==
  IF want[n] = None THEN owned[n] # None /\ live[n] \notin {None, owned[n]}
  ELSE live[n] # owned[n]
Conflicts == {n \in Servers : Conflict(n)}

\* Without conflicts: the ownership to end with is what is desired.
ServerCommands(n) ==
  (IF owned[n] # None /\ live[n] # None /\ want[n] # owned[n] THEN << <<"remove", n, None>> >> ELSE << >>)
  \o (IF want[n] # None /\ want[n] # owned[n] THEN << <<"add-json", n, want[n]>> >> ELSE << >>)
McpCommands == FlattenSeq([i \in 1..Cardinality(Servers) |-> ServerCommands(SetToSeq(Servers)[i])])

Moved == recorded.names # {} /\ recorded.source # place
Removed == IF Moved THEN recorded.names ELSE recorded.names \ selected
Each(verb, set) == LET s == SetToSeq(set) IN [i \in DOMAIN s |-> <<verb, s[i], None>>]
When(test, commands) == IF test THEN commands ELSE << >>
Detach == << <<"detach", None, None>> >>
PluginCommands ==
  When(selected \cup Removed # {},
    Each("uninstall", Removed)
    \o When(Moved, Detach)
    \o When(selected # {}, << <<"attach", None, place>> >> \o Each("install", selected))
    \o When(recorded.names # {} /\ selected = {} /\ ~Moved, Detach))

-----------------------------------------------------------------------------
At(where) == cmd.at = where
Goto(where) == cmd' = [cmd EXCEPT !.at = where]
Ends == cmd' = Idle
Steady == UNCHANGED <<catVars, meddle, troubles>>
Inside == UNCHANGED <<prodVars, recVars, histVars>> /\ Steady

\* The fresh plan equals the reviewed one and has no conflict.
Start ==
  /\ At("idle") /\ Conflicts = {}
  /\ McpCommands \o PluginCommands # << >> \/ owned # want
  /\ cmd' = [Idle EXCEPT !.at = "preflight", !.todo = PluginCommands \o McpCommands,
                         !.names = selected, !.home = place, !.held = owned, !.goal = want]
  /\ blame' = {n \in blame : live[n] # owned[n]}
  /\ UNCHANGED <<prodVars, recVars, mine, loose>> /\ Steady

PluginVerbs == {"uninstall", "detach", "attach", "install"}
NextIsPlugin == cmd.todo # << >> /\ Head1[1] \in PluginVerbs

\* _preflight_registration_ownership
Allowed == NextIsPlugin => market \in {None, cmd.home, recorded.source}
Preflight ==
  /\ At("preflight")
  /\ IF Allowed THEN Goto("plugins") ELSE Ends
  /\ Inside

-----------------------------------------------------------------------------
(* What the product makes of a command.                                    *)

Accepts(c) ==
  CASE c[1] = "uninstall" -> c[2] \in installed
    [] c[1] = "detach"    -> market # None
    [] c[1] = "attach"    -> market \in {None, c[3]}
    [] c[1] = "install"   -> market # None
    [] c[1] = "remove"    -> live[c[2]] # None
    [] OTHER              -> TRUE

Takes(c) ==
  /\ installed' = IF c[1] = "uninstall" THEN installed \ {c[2]}
                  ELSE IF c[1] = "install" THEN installed \cup {c[2]} ELSE installed
  /\ market' = IF c[1] \in {"attach", "detach"} THEN c[3] ELSE market
  /\ live' = IF c[1] \in {"remove", "add-json"} THEN [live EXCEPT ![c[2]] = c[3]] ELSE live
  /\ mine' = IF c[1] \in {"remove", "add-json"} THEN mine \ {c[2]} ELSE mine
  /\ loose' = IF c[1] = "install" THEN loose \cup {c[2]}
              ELSE IF c[1] = "uninstall" THEN loose \ {c[2]} ELSE loose

Untaken == UNCHANGED <<prodVars, mine, loose>>

\* Fault: a removal that has nothing to remove is an error.
Satisfied_Fault(c) == FALSE
\* _removal_is_already_satisfied and _run_mcp_command: a removal that failed is
\* as good as done when what it removes is gone.
Satisfied(c) ==
  \/ c[1] = "uninstall" /\ c[2] \notin installed'
  \/ c[1] = "detach" /\ market' = None
  \/ c[1] = "remove" /\ live'[c[2]] = None

Trouble == troubles < MaxTroubles /\ troubles' = troubles + 1

\* The product runs c; `then` is what the bridge does after a success.
Runs(c, then) ==
  /\ \/ Accepts(c) /\ Takes(c) /\ UNCHANGED <<blame, troubles>> /\ then
     \/ ~Accepts(c) /\ Untaken /\ UNCHANGED <<blame, troubles>> /\ IF Satisfied(c) THEN then ELSE Ends
     \/ Trouble /\ Untaken /\ UNCHANGED blame /\ IF Satisfied(c) THEN then ELSE Ends
     \/ /\ Trouble /\ Accepts(c) /\ Takes(c)
        /\ IF Satisfied(c) THEN then /\ UNCHANGED blame
           ELSE Ends /\ blame' = blame \cup ({c[2]} \cap Servers)
  /\ UNCHANGED <<catVars, recVars, meddle>>

Skip(where) == cmd' = [cmd EXCEPT !.at = where, !.todo = Tail(@)]

RunPlugin == At("plugins") /\ NextIsPlugin /\ Runs(Head1, Skip("plugins"))

\* Fault: a record of no Plugins is kept.
NewRecord_Fault == [names |-> cmd.names, source |-> cmd.home]
NewRecord == IF cmd.names = {} THEN NoPlugins ELSE [names |-> cmd.names, source |-> cmd.home]
\* write_registered_plugins, after the last Plugin command
RecordPlugins ==
  /\ At("plugins") /\ ~NextIsPlugin
  /\ recorded' = NewRecord
  /\ loose' = loose \ cmd.names
  /\ Goto("look")
  /\ UNCHANGED <<prodVars, owned, mine, blame>> /\ Steady

-----------------------------------------------------------------------------
(* _register_claude_mcp.                                                   *)

\* Fault: an addition does not look whether the name is taken.
Fits_Fault(n) == Head1[1] = "add-json" \/ live[n] = cmd.held[n]
\* The user config is read again before each command.
Fits(n) == live[n] = (IF Head1[1] = "remove" THEN cmd.held[n] ELSE None)

Look ==
  /\ At("look") /\ cmd.todo # << >>
  /\ LET n == Head1[2] IN
       IF Head1[1] = "remove" /\ live[n] = None
       THEN cmd' = [cmd EXCEPT !.at = "write", !.held[n] = None]
       ELSE IF Fits(n) THEN cmd' = [cmd EXCEPT !.at = "act", !.late = FALSE] ELSE Ends
  /\ Inside

Act ==
  /\ At("act")
  /\ Runs(Head1, cmd' = [cmd EXCEPT !.at = "write", !.held[Head1[2]] = Head1[3]])

\* Fault: the record is written once, after the last command.
Checkpoint_Fault == owned
Checkpoint == cmd.held
Write ==
  /\ At("write")
  /\ owned' = Checkpoint
  /\ mine' = {n \in mine : live[n] # owned'[n]}
  /\ IF Head1[1] = "remove" THEN Skip("look") ELSE Goto("verify")
  /\ UNCHANGED <<prodVars, recorded, blame, loose>> /\ Steady

\* The stored entry must be the requested one.
Verify ==
  /\ At("verify")
  /\ IF live[Head1[2]] = Head1[3] THEN Skip("look") ELSE Ends
  /\ Inside

\* Ownership of servers that are neither desired nor there is dropped.
Finish ==
  /\ At("look") /\ cmd.todo = << >>
  /\ owned' = cmd.goal
  /\ Ends
  /\ UNCHANGED <<prodVars, recorded, histVars>> /\ Steady

-----------------------------------------------------------------------------
(* mcp adopt and mcp release.                                              *)

Adoptable == {n \in Servers : want[n] # None /\ owned[n] = None /\ live[n] = want[n]}
Releasable == {n \in Servers : owned[n] # None}

Review(where, names) ==
  /\ At("idle") /\ Meddles /\ names # {}
  /\ cmd' = [Idle EXCEPT !.at = where, !.names = names, !.goal = want]
  /\ UNCHANGED <<catVars, prodVars, recVars, troubles, histVars>>

\* adoption_entries once more, after the confirmation
Recheck ==
  /\ At("adopt")
  /\ IF cmd.names \subseteq Adoptable /\ want = cmd.goal THEN Goto("record") ELSE Ends
  /\ Inside

\* record_adoption: the digest of the declaration, whatever the entry is by now.
Adopt ==
  /\ At("record")
  /\ owned' = [n \in Servers |-> IF n \in cmd.names THEN cmd.goal[n] ELSE owned[n]]
  /\ mine' = {n \in mine : live[n] # owned'[n]}
  /\ Ends
  /\ UNCHANGED <<prodVars, recorded, blame, loose>> /\ Steady

\* record_release
Release ==
  /\ At("release")
  /\ owned' = [n \in Servers |-> IF n \in cmd.names THEN None ELSE owned[n]]
  /\ mine' = mine \cup {n \in cmd.names : live[n] # None}
  /\ blame' = blame \cup cmd.names
  /\ Ends
  /\ UNCHANGED <<prodVars, recorded, loose>> /\ Steady

-----------------------------------------------------------------------------
Crash ==
  /\ ~At("idle") /\ Trouble
  /\ Ends
  /\ blame' = IF At("write") THEN blame \cup {Head1[2]} ELSE blame
  /\ UNCHANGED <<catVars, prodVars, recVars, meddle, mine, loose>>

Registers == Start \/ Preflight \/ RunPlugin \/ RecordPlugins \/ Look \/ Act \/ Write \/ Verify \/ Finish
Hands == Recheck \/ Adopt \/ Release

Next ==
  \/ Edit \/ EditPlugins \/ \E n \in Servers, e \in Entries : EditEntry(n, e)
  \/ Review("adopt", Adoptable) \/ \E names \in SUBSET Releasable : Review("release", names)
  \/ Registers \/ Hands \/ Crash

Spec == Init /\ [][Next]_vars
\* A command that was started goes on, and register is run again and again.
FairSpec == Spec /\ WF_vars(Registers) /\ WF_vars(Hands)

-----------------------------------------------------------------------------
TypeOK ==
  /\ want \in [Servers -> Specs \cup {None}] /\ selected \subseteq Plugins /\ place \in Places
  /\ live \in [Servers -> Entries] /\ installed \subseteq Plugins /\ market \in Sources
  /\ owned \in [Servers -> Specs \cup {None}]
  /\ recorded \in [names : SUBSET Plugins, source : Places \cup {None}]
  /\ recorded.names = {} <=> recorded.source = None
  /\ cmd.at \in {"idle", "preflight", "plugins", "look", "act", "write", "verify", "adopt", "record", "release"}
  /\ cmd.at \in {"act", "write", "verify"} => cmd.todo # << >>
  /\ cmd.held \in [Servers -> Specs \cup {None}] /\ cmd.goal \in [Servers -> Specs \cup {None}]
  /\ edits \in 0..MaxEdits /\ meddle \in 0..MaxMeddle /\ troubles \in 0..MaxTroubles
  /\ mine \subseteq Servers /\ blame \subseteq Servers /\ loose \subseteq Plugins

(* No command of the bridge changes or removes a server entry that a user  *)
(* made, changed or got back through release, except one that was changed  *)
(* between the last look at it and the product's command.                  *)
UserEntriesKept ==
  [][meddle' = meddle => \A n \in mine : live'[n] = live[n] \/ cmd.late]_vars

(* What the bridge has put into the product is on its records, so that     *)
(* deselection can find it: an entry or Plugin that is on none was put     *)
(* there by the running command, by one that did not get to its record, or *)
(* was touched by somebody else.                                           *)
Accounted ==
  At("idle") =>
    /\ \A n \in Servers : live[n] # None /\ n \notin mine \cup blame => owned[n] = live[n]
    /\ installed \subseteq recorded.names \cup loose

Synced ==
  /\ owned = want /\ \A n \in Servers : live[n] = want[n] \/ (n \in blame /\ want[n] = None)
  /\ installed \subseteq selected \cup loose /\ recorded.names = selected
Blocked == Conflicts \cap blame # {} \/ (PluginCommands # << >> /\ market \notin {None, place, recorded.source})

(* Commands that fail at any point leave something the next register can   *)
(* go on from: run again and again it reaches what is selected, unless a   *)
(* server that somebody touched, a command that failed after its effect, a *)
(* kill, or another checkout's marketplace stands in the way.              *)
Converges == <>[](Synced \/ Blocked)
=============================================================================
