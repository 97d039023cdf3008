------------------------------ MODULE CronDue ------------------------------
(* parse_cron and CronExpression.matches of schedules.py: which minutes a  *)
(* five-field expression is due in.  ScheduleTick takes the due Schedules  *)
(* of a minute as given; this is how they are found.                       *)
(*                                                                         *)
(* A field is the sequence of its comma-separated items; an item is a      *)
(* wildcard, a range or a single value, with a step where one was written. *)
EXTENDS Integers, Sequences, RuleCase

Unstepped == -1   \* the item has no "/"
Star(step) == [base |-> "star", lo |-> 0, hi |-> 0, step |-> step]
Between(lo, hi, step) == [base |-> "range", lo |-> lo, hi |-> hi, step |-> step]
Only(value) == [base |-> "value", lo |-> value, hi |-> value, step |-> Unstepped]

Bounds == [minute |-> <<0, 59>>, hour |-> <<0, 23>>, day |-> <<1, 31>>,
           month |-> <<1, 12>>, weekday |-> <<0, 7>>]

\* The items _parse_cron_field takes, and what it takes from them.
ItemOK(item, bound) ==
  /\ item.step # Unstepped => item.base # "value" /\ item.step > 0
  /\ item.base = "star" \/ (item.lo <= item.hi /\ item.lo >= bound[1] /\ item.hi <= bound[2])

FieldOK(field, bound) ==
  /\ field # << >>
  /\ \A i \in DOMAIN field : ItemOK(field[i], bound)
  /\ Len(field) > 1 => \A i \in DOMAIN field : field[i].base # "star"

ItemValues(item, bound) ==
  LET lo == IF item.base = "star" THEN bound[1] ELSE item.lo
      hi == IF item.base = "star" THEN bound[2] ELSE item.hi
      step == IF item.step = Unstepped THEN 1 ELSE item.step
  IN {n \in lo..hi : (n - lo) % step = 0}

FieldValues(field, bound) == UNION {ItemValues(field[i], bound) : i \in DOMAIN field}

Accepted(cron) == \A f \in DOMAIN Bounds : FieldOK(cron[f], Bounds[f])

\* Sunday may be 0 or 7.
Weekdays_Fault(cron) == FieldValues(cron.weekday, Bounds.weekday)
Weekdays(cron) == {n % 7 : n \in FieldValues(cron.weekday, Bounds.weekday)}

Unrestricted(field) == field[1].base = "star"

\* clock is the local wall clock of an instant, its weekday counted from Monday.
DayMatches(cron, clock) ==
  LET day == clock.day \in FieldValues(cron.day, Bounds.day)
      weekday == (clock.weekday + 1) % 7 \in Weekdays(cron)
  IN IF Unrestricted(cron.day) THEN weekday
     ELSE IF Unrestricted(cron.weekday) THEN day
     ELSE day \/ weekday

Matches(cron, clock) ==
  /\ \A f \in {"minute", "hour", "month"} : clock[f] \in FieldValues(cron[f], Bounds[f])
  /\ DayMatches(cron, clock)

-----------------------------------------------------------------------------
(* The rule of Vixie cron: a day must satisfy both day fields if one of    *)
(* them is written with a leading "*", and one of them otherwise.          *)
Vixie(cron, clock) ==
  LET day == clock.day \in FieldValues(cron.day, Bounds.day)
      sunday == clock.weekday = 6
      weekday == \E n \in FieldValues(cron.weekday, Bounds.weekday) :
                   n = clock.weekday + 1 \/ (n = 0 /\ sunday)
  IN /\ \A f \in {"minute", "hour", "month"} : clock[f] \in FieldValues(cron[f], Bounds[f])
     /\ IF Unrestricted(cron.day) \/ Unrestricted(cron.weekday)
        THEN day /\ weekday
        ELSE day \/ weekday

SteppedStar(field) == field[1].base = "star" /\ field[1].step # Unstepped

(* A Schedule is due in the minutes Vixie cron would run it in, whatever   *)
(* the form of its day fields, unless one of them is a wildcard with a     *)
(* step; and an accepted field can be met at all.                          *)
AgreesWithVixie(cron, clock) ==
  Accepted(cron) /\ ~SteppedStar(cron.day) /\ ~SteppedStar(cron.weekday) =>
    /\ Matches(cron, clock) <=> Vixie(cron, clock)
    /\ \A f \in DOMAIN Bounds : FieldValues(cron[f], Bounds[f]) # {}

(* So a Schedule runs when its author, who reads it as cron, expects it.   *)
CronAgrees == case.rule = "cron" => AgreesWithVixie(case.cron, case.clock)

(* docs/schedules.md: wildcards with steps are accepted, with the meaning  *)
(* Vixie cron gives them.                                                  *)
CronIsVixie ==
  case.rule = "cron" /\ Accepted(case.cron) =>
    (Matches(case.cron, case.clock) <=> Vixie(case.cron, case.clock))
=============================================================================
