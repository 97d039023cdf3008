------------------------ MODULE HeartbeatRegistration ------------------------
(* The end of `register` in cli.py, scheduler_registration.py, and the      *)
(* crontab half of scheduler_backends.py: every target with Schedules has a *)
(* marked block in the one crontab of the user, which starts its heartbeat  *)
(* every minute, and an ownership record with the digest of that block.     *)
(*                                                                         *)
(* `crontab -l` and `crontab -` read and write the whole document; nothing  *)
(* locks it, so users and other commands change it between any two steps.   *)
(* A line is <<kind, target, launch>>, where launch is what a digest of the *)
(* block identifies: the paths of bridge, configuration and product.  The   *)
(* Task Scheduler backend takes the same steps with a document per target.  *)
EXTENDS Naturals, Sequences, SequencesExt

CONSTANTS
  Commands,     \* running register commands, of one configuration or several
  NumTargets,   \* targets, in the order of their names
  Launches,     \* command lines of a heartbeat
  MaxChanges,   \* bound: changes of configuration, catalog, installation
  MaxEdits,     \* bound: changes users make to the crontab
  MaxTroubles,  \* bound: failing crontab calls and kills
  MaxEvents,    \* bound: all of these together
  None

ASSUME TargetAssumption == NumTargets \in Nat
ASSUME BoundAssumption == {MaxChanges, MaxEdits, MaxTroubles, MaxEvents} \subseteq Nat
ASSUME NoneAssumption == None \notin Launches \cup (1..NumTargets)

Targets == 1..NumTargets
Begin(t) == <<"begin", t, None>>
Meta(t, s) == <<"meta", t, s>>
Line(t, s) == <<"line", t, s>>
End(t) == <<"end", t, None>>
Job == <<"job", None, None>>   \* any line of the user's
Block(t, s) == <<Begin(t), Meta(t, s), Line(t, s), End(t)>>

VARIABLES
  tab,        \* the crontab, as its lines
  record,     \* heartbeat_digest of scheduler.json, or None
  selection,  \* per target: Schedules are "off", selected but "empty", or "on"
  current,    \* targets whose published snapshot is that of the catalog
  launch,     \* the launch the installation resolves to now
  cmd,        \* per command: where it is and its local variables
  changes, edits, troubles

setVars == <<selection, current, launch, changes>>
vars == <<tab, record, setVars, cmd, edits, troubles>>

\* spec, wants: resolved launch and selection, frozen at the start; intent: the
\* reviewed plans; todo: targets still to do; doc: the document as last read.
\* disturbed (history): somebody else changed something since the start.
Idle == [at |-> "idle", spec |-> None, wants |-> {}, intent |-> << >>, todo |-> {},
         doc |-> << >>, disturbed |-> FALSE]

Init ==
  /\ tab = <<Job>>
  /\ record = [t \in Targets |-> None]
  /\ selection \in [Targets -> {"off", "on"}] /\ current = {t \in Targets : selection[t] = "on"}
  /\ launch \in Launches
  /\ cmd = [c \in Commands |-> Idle]
  /\ changes = 0 /\ edits = 0 /\ troubles = 0

-----------------------------------------------------------------------------
(* LinuxCronBackend._inspect.                                              *)

Places(doc, line) == {i \in DOMAIN doc : doc[i] = line}
Absent(doc, t) == Places(doc, Begin(t)) = {} /\ Places(doc, End(t)) = {}
Stray(doc, t) == \E i \in DOMAIN doc : doc[i][1] = "meta" /\ doc[i][2] = t

\* The block of t that starts at i is whole and as its digest says.
IntactAt(doc, t, i) ==
  /\ Places(doc, Begin(t)) = {i} /\ Places(doc, End(t)) = {i + 3}
  /\ doc[i + 1][1] = "meta" /\ doc[i + 1][2] = t
  /\ doc[i + 2] = Line(t, doc[i + 1][3])
Intact(doc, t) == \E i \in DOMAIN doc : IntactAt(doc, t, i)
Start(doc, t) == CHOOSE i \in DOMAIN doc : IntactAt(doc, t, i)
Managed(doc, t) == IF Intact(doc, t) THEN doc[Start(doc, t) + 1][3] ELSE None

\* What the inspection finds for a launch, or None for a removal.
Found(doc, t, s) ==
  IF Absent(doc, t)
  THEN IF Stray(doc, t) THEN "conflict" ELSE IF s = None THEN "noop" ELSE "create"
  ELSE IF ~Intact(doc, t) THEN "conflict"
  ELSE IF s = None THEN "remove"
  ELSE IF Managed(doc, t) = s THEN "noop" ELSE "update"

\* Fault: a block is taken for the bridge's because it says so.
Guarded_Fault(doc, t, s) == Found(doc, t, s)
\* _guard_ownership: what is there must be what is on record.
Guarded(doc, t, s) ==
  IF Managed(doc, t) # None /\ Managed(doc, t) # record[t] THEN "conflict" ELSE Found(doc, t, s)

\* Fault: the digest of the document is part of the intent.
Intent_Fault(t, s) ==
  [disposition |-> Guarded(tab, t, s), managed |-> Managed(tab, t), record |-> record[t], observed |-> tab]
\* _registration_intent_key: but not the document, which the other targets change.
Intent(t, s) == [disposition |-> Guarded(tab, t, s), managed |-> Managed(tab, t), record |-> record[t]]

-----------------------------------------------------------------------------
(* Users, the authors of configuration and catalog, `apply`.               *)

\* Everybody but `who` has to count with what changed.
Disturbed(who) == [c \in Commands |-> [cmd[c] EXCEPT !.disturbed = @ \/ (c \notin who /\ cmd[c].at # "idle")]]

Room == changes + edits + troubles < MaxEvents

\* A line is added anywhere, repeated at the end, changed or removed.
EditTab ==
  /\ Room /\ edits < MaxEdits /\ edits' = edits + 1
  /\ \/ \E i \in 1..(Len(tab) + 1) : tab' = InsertAt(tab, i, Job)
     \/ \E i \in DOMAIN tab : tab' = Append(tab, tab[i])
     \/ \E i \in DOMAIN tab, s \in Launches :
          tab[i][1] = "line" /\ tab' = [tab EXCEPT ![i] = Line(tab[i][2], s)]
     \/ \E i \in DOMAIN tab : tab' = RemoveAt(tab, i)
  /\ tab' # tab
  /\ cmd' = Disturbed({})
  /\ UNCHANGED <<record, setVars, troubles>>

Change ==
  /\ Room /\ changes < MaxChanges /\ changes' = changes + 1
  /\ \/ \E t \in Targets, x \in {"off", "empty", "on"} :
          /\ x # selection[t] \/ x = "on"
          /\ selection' = [selection EXCEPT ![t] = x]
          /\ current' = current \ {t} /\ UNCHANGED launch
     \/ \E s \in Launches \ {launch} : launch' = s /\ UNCHANGED <<selection, current>>
  /\ cmd' = Disturbed({})
  /\ UNCHANGED <<tab, record, edits, troubles>>

\* `apply` publishes the snapshot of the catalog or removes the pointer.
Publish(t) ==
  /\ t \notin current /\ selection[t] = "on"
  /\ current' = current \cup {t}
  /\ UNCHANGED <<tab, record, selection, launch, changes, cmd, edits, troubles>>

-----------------------------------------------------------------------------
At(c, place) == cmd[c].at = place
Goto(c, place) == cmd' = [cmd EXCEPT ![c].at = place]
\* Fault: what the command has planned is still there.
Ends_Fault(c) == cmd' = [cmd EXCEPT ![c].at = "idle"]
Ends(c) == cmd' = [cmd EXCEPT ![c] = Idle]
Inside == UNCHANGED <<tab, record, setVars, edits, troubles>>
This(c) == Min(cmd[c].todo)
\* The launch to install for the target in hand, None to remove its block.
Want(c) == IF This(c) \in cmd[c].wants THEN cmd[c].spec ELSE None

\* _build_scheduler_registrations and the comparison with the reviewed ones,
\* whole document included; a conflict or a stale snapshot ends the command.
\* If there is nothing to change there are product commands to run before.
Registered == {t \in Targets : selection[t] # "off" \/ record[t] # None}
Wanted == {t \in Targets : selection[t] = "on"}
Intended(t) == Intent(t, IF t \in Wanted THEN launch ELSE None)

\* History: a user has copied the marker of a block.
Copied(doc) == \E i, j \in DOMAIN doc : i # j /\ doc[i][1] = "meta" /\ doc[j][1] = "meta" /\ doc[i][2] = doc[j][2]

Begins(c) ==
  /\ At(c, "idle") /\ Registered # {} /\ Wanted \subseteq current
  /\ \A t \in Registered : Intended(t).disposition # "conflict"
  /\ cmd' = [cmd EXCEPT ![c] = [Idle EXCEPT !.at = "replan", !.spec = launch, !.wants = Wanted,
                !.todo = Registered, !.intent = [t \in Registered |-> Intended(t)],
                !.disturbed = Copied(tab)]]
  /\ Inside

\* _registration_intent_key
SameIntent(c) == Intent(This(c), Want(c)) = cmd[c].intent[This(c)]

\* apply_scheduler_registrations: each target is planned again.
Replan(c) ==
  /\ At(c, "replan")
  /\ IF (Want(c) # None => This(c) \in current) /\ SameIntent(c)
     THEN cmd' = [cmd EXCEPT ![c].at = "inspect", ![c].doc = tab]
     ELSE Ends(c)
  /\ Inside

\* backend.apply and backend.remove: the document must be the one of the plan.
Inspect(c) ==
  /\ At(c, "inspect")
  /\ IF tab # cmd[c].doc THEN Ends(c)
     ELSE IF cmd[c].intent[This(c)].disposition # "noop" THEN Goto(c, "install")
     ELSE cmd' = [cmd EXCEPT ![c].at = "check", ![c].doc = << >>]
  /\ Inside

\* The document with the block of the target put, replaced or taken out.
New(c) == IF Want(c) = None THEN << >> ELSE Block(This(c), Want(c))
Updated(c) ==
  LET doc == cmd[c].doc
      i == IF Absent(doc, This(c)) THEN Len(doc) + 1 ELSE Start(doc, This(c))
  IN SubSeq(doc, 1, i - 1) \o New(c) \o SubSeq(doc, IF i > Len(doc) THEN i ELSE i + 4, Len(doc))

\* crontab - (or -r) replaces whatever is there now.
Puts(c) == tab' = Updated(c)
Install(c) ==
  /\ At(c, "install")
  /\ Puts(c)
  /\ cmd' = [Disturbed({c}) EXCEPT ![c].at = "converge", ![c].doc = << >>]
  /\ UNCHANGED <<record, setVars, edits, troubles>>

Trouble == Room /\ troubles < MaxTroubles /\ troubles' = troubles + 1
\* The call fails, before or after its effect.
Fails(c) ==
  /\ At(c, "install") /\ Trouble
  /\ \/ Puts(c) /\ cmd' = [Disturbed({c}) EXCEPT ![c] = Idle]
     \/ Ends(c) /\ UNCHANGED tab
  /\ UNCHANGED <<record, setVars, edits>>

Converged(c) == Found(tab, This(c), Want(c)) = "noop"
\* The document is read back, once by the backend and once for the record.
Converge(c) == At(c, "converge") /\ (IF Converged(c) THEN Goto(c, "check") ELSE Ends(c)) /\ Inside
Check(c) == At(c, "check") /\ (IF Converged(c) THEN Goto(c, "record") ELSE Ends(c)) /\ Inside

\* write_scheduler_state
Record(c) ==
  /\ At(c, "record")
  /\ record' = [record EXCEPT ![This(c)] = Want(c)]
  /\ cmd' = [Disturbed({c}) EXCEPT ![c] =
       IF cmd[c].todo = {This(c)} THEN Idle
       ELSE [cmd[c] EXCEPT !.at = "replan", !.todo = @ \ {This(c)}]]
  /\ UNCHANGED <<tab, setVars, edits, troubles>>

Crash(c) == ~At(c, "idle") /\ Trouble /\ Ends(c) /\ UNCHANGED <<tab, record, setVars, edits>>

-----------------------------------------------------------------------------
Steps(c) == Begins(c) \/ Replan(c) \/ Inspect(c) \/ Install(c) \/ Converge(c) \/ Check(c) \/ Record(c)

Next ==
  \/ EditTab \/ Change \/ \E t \in Targets : Publish(t)
  \/ \E c \in Commands : Steps(c) \/ Fails(c) \/ Crash(c)

Spec == Init /\ [][Next]_vars

-----------------------------------------------------------------------------
Lines ==
  {Job} \cup UNION {{Begin(t), End(t)} \cup {Meta(t, s) : s \in Launches} \cup {Line(t, s) : s \in Launches} :
                     t \in Targets}
Values == Launches \cup {None}
Intents == [disposition : {"noop", "create", "update", "remove"}, managed : Values, record : Values]

TypeOK ==
  /\ tab \in Seq(Lines) /\ record \in [Targets -> Values]
  /\ selection \in [Targets -> {"off", "empty", "on"}] /\ current \subseteq Targets /\ launch \in Launches
  /\ \A c \in Commands :
       /\ cmd[c].at \in {"idle", "replan", "inspect", "install", "converge", "check", "record"}
       /\ cmd[c].spec \in Values /\ cmd[c].wants \subseteq Targets /\ cmd[c].todo \subseteq Targets
       /\ cmd[c].at = "idle" <=> cmd[c].todo = {}
       /\ DOMAIN cmd[c].intent \subseteq Targets /\ \A t \in DOMAIN cmd[c].intent : cmd[c].intent[t] \in Intents
       /\ cmd[c].doc \in Seq(Lines) /\ cmd[c].disturbed \in BOOLEAN
  /\ changes \in 0..MaxChanges /\ edits \in 0..MaxEdits /\ troubles \in 0..MaxTroubles

\* The lines that are not of t, in their order.
Others(doc, t) == FlattenSeq([i \in DOMAIN doc |-> IF doc[i][2] = t THEN << >> ELSE <<doc[i]>>])

(* What register does to the crontab that users and all targets share: the *)
(* lines of users and of other targets stay, in their order; of the lines  *)
(* of its own target only the block on record goes, so that nothing is     *)
(* adopted that a user wrote or a killed command left behind; and no       *)
(* target gets a second block.  Except for what was written between the    *)
(* last reading of the document and its replacement.                       *)
OthersKept ==
  [][\A c \in Commands : At(c, "install") /\ cmd'[c].at # "install" /\ tab' # tab /\ tab = cmd[c].doc =>
       LET t == This(c)
           owned == cmd[c].intent[t].record
       IN /\ Others(tab', t) = Others(tab, t)
          /\ \A line \in Range(tab) :
               Cardinality(Places(tab, line)) <= Cardinality(Places(tab', line)) +
                 (IF owned # None /\ line \in Range(Block(t, owned)) THEN 1 ELSE 0)
          /\ Cardinality(Places(tab', Begin(t))) <= 1]_vars

(* The targets of one run share a document that each of them changes; all  *)
(* the same a run nobody interferes with gets to its end, and then every   *)
(* target has the block and the record it was to have; unless a user has   *)
(* copied the marker of a block, which counts as a stray one and blocks    *)
(* the target as soon as the block itself is gone.                         *)
Completes ==
  [][\A c \in Commands :
       ~At(c, "idle") /\ cmd'[c] = Idle /\ ~cmd[c].disturbed /\ troubles' = troubles =>
         \A t \in DOMAIN cmd[c].intent :
           LET want == IF t \in cmd[c].wants THEN cmd[c].spec ELSE None
           IN record'[t] = want /\ Found(tab', t, want) = "noop"]_vars
=============================================================================
