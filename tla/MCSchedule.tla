----------------------------- MODULE MCSchedule -----------------------------
(* Instances of Schedule.                                                  *)
EXTENDS Schedule

Sched(on, cron, tz) == [enabled |-> on, cron |-> cron, tz |-> tz]

\* Has its own zone, is one the scheduler refuses, is switched off.
MCEdits == {Sched(TRUE, "daily", "CET"), Sched(TRUE, "alias", None), Sched(FALSE, "daily", None)}

\* Every instance has a schedule when the worker first boots.
MCAtBoot == [i \in Instances |-> Sched(TRUE, "daily", None)]

Budget(edits, stops, hours, backups) ==
    [e \in Events |-> CASE e = "edit" -> edits [] e = "stop" -> stops [] e = "hour" -> hours [] OTHER -> backups]

\* Reloads and stops without the clock; the clock with backups and a stop; the
\* clock with a backup and an edit.
MCBudgets == {Budget(2, 1, 0, 0), Budget(0, 1, 3, 2), Budget(1, 0, 2, 1)}
=============================================================================
