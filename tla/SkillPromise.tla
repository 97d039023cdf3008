---------------------------- MODULE SkillPromise ----------------------------
(***************************************************************************)
(* What the delivery of Skills promises for everything that ever lies at a *)
(* destination.  The bridge fills a destination only while nothing is      *)
(* there; it takes content aside, never away; what it holds aside it puts  *)
(* back, leaves beside the destination, or destroys, but this only if a    *)
(* backup of it is kept, if a destruction had already damaged it, or if    *)
(* the user put it there behind the bridge's last look.  A backup is kept  *)
(* for good.                                                               *)
(***************************************************************************)
CONSTANTS
  Skills,
  Whole,   \* what the bridge delivers: its links and intact copies
  Users,   \* content of the user's, edited copies included
  Rests,   \* what an interrupted destruction leaves
  Links,   \* whatever of these is a link
  None

VARIABLES
  place,    \* what lies at each destination, or None
  aside,    \* what the bridge holds, or has left, beside it
  kept,     \* the backups that stay
  exposed   \* Skills the user wrote after the last look of a command at work

promiseVars == <<place, aside, kept, exposed>>

PInit ==
  /\ place = [n \in Skills |-> None]
  /\ aside = [n \in Skills |-> {}] /\ kept = aside
  /\ exposed = {}

UserWrites(n) ==
  /\ \E x \in Users \cup {None} : place' = [place EXCEPT ![n] = x]
  /\ exposed' \in {exposed, exposed \cup {n}}
  /\ UNCHANGED <<aside, kept>>

\* The one case in which content may be lost.
Unwatched(n, x) == x \in Users /\ n \in exposed

\* What is in a backup, was damaged before, or came too late to be seen.
Expendable(n, x) == x \in Rests \cup kept[n]' \/ Unwatched(n, x)

\* One of the things aside with content x goes, or leaves a rest.
Gone(n, x) ==
  \E S \in SUBSET (aside[n] \cup Rests) :
    aside[n] \ {x} \subseteq S /\ aside' = [aside EXCEPT ![n] = S]

Deliver(n) ==
  /\ place[n] = None
  /\ \E x \in Whole : place' = [place EXCEPT ![n] = x]
  /\ UNCHANGED <<aside, kept, exposed>>

\* Never what the user was seen to have put there.
SetAside(n) ==
  /\ place[n] # None /\ (place[n] \in Users => Unwatched(n, place[n]))
  /\ aside' = [aside EXCEPT ![n] = @ \cup {place[n]}]
  /\ place' = [place EXCEPT ![n] = None]
  /\ UNCHANGED <<kept, exposed>>

\* A link may replace one that came too late to be seen.
PutBack(n) ==
  \E x \in aside[n] \ Rests :
    /\ place[n] = None \/ ({x, place[n]} \subseteq Links /\ Unwatched(n, place[n]))
    /\ place' = [place EXCEPT ![n] = x]
    /\ Gone(n, x)
    /\ UNCHANGED <<kept, exposed>>

\* A backup is kept, and a command may be through with the Skill.
Keep(n) ==
  /\ \E K \in SUBSET Whole : kept' = [kept EXCEPT ![n] = @ \cup K]
  /\ exposed' \in {exposed, exposed \ {n}}
  /\ UNCHANGED <<place, aside>>

Destroy(n) ==
  \E x \in aside[n] :
    /\ \E K \in SUBSET Whole : kept' = [kept EXCEPT ![n] = @ \cup K]
    /\ Expendable(n, x)
    /\ Gone(n, x)
    /\ UNCHANGED <<place, exposed>>

\* A destruction that failed is made good from the backup.
Restore(n) ==
  /\ place[n] = None
  /\ \E x \in kept[n] : place' = [place EXCEPT ![n] = x]
  /\ aside' = aside \/ \E x \in aside[n] : Expendable(n, x) /\ Gone(n, x)
  /\ UNCHANGED <<kept, exposed>>

\* A link holds no content: it goes without a backup.
Unlink(n) ==
  /\ place[n] \in Links /\ (place[n] \in Users => Unwatched(n, place[n]))
  /\ place' = [place EXCEPT ![n] = None]
  /\ UNCHANGED <<aside, kept, exposed>>

PNext ==
  \E n \in Skills :
    \/ UserWrites(n)
    \/ Deliver(n) \/ SetAside(n) \/ PutBack(n) \/ Keep(n)
    \/ Destroy(n) \/ Restore(n) \/ Unlink(n)

PSpec == PInit /\ [][PNext]_promiseVars
=============================================================================
