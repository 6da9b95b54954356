----------------------------- MODULE MCNotifier -----------------------------
(* Instances of Notifier.                                                  *)
EXTENDS Notifier, TLC

CONSTANTS i1, i2, s1, s2

Hook(kind, trigger, scope, fmt) ==
    [kind |-> kind, trigger |-> trigger, scope |-> scope, on |-> TRUE, fmt |-> fmt,
     secret |-> IF kind = "healthchecks" THEN s1 ELSE None, provisioned |-> kind = "healthchecks"]

\* Every trigger, with no scope, a narrow one or a wide one; one with a format that
\* cannot be filled in, and one made from a copy of what a form showed.
MCHookRows ==
    {Hook("webhook", "always", {i1, i2}, TRUE), Hook("webhook", "failure", {i1}, TRUE),
     Hook("webhook", "success", {}, FALSE), Hook("webhook", "change", {i1}, TRUE),
     [Hook("webhook", "stale", {}, TRUE) EXCEPT !.secret = Placeholder],
     Hook("healthchecks", "always", {}, TRUE), Hook("healthchecks", "always", {i1}, TRUE)}

\* A form sent back with nothing else changed, or something, and with any check; a
\* secret typed in.
MCSaves ==
    {[trigger |-> "failure", secret |-> Placeholder, check |-> c, more |-> TRUE] : c \in Hooks \cup {None}}
    \cup {[trigger |-> "failure", secret |-> s, check |-> None, more |-> FALSE] : s \in {Placeholder, s2}}

Budget(runs, instances, rows, saves, messages) ==
    [e \in Events |-> CASE e = "run" -> runs [] e = "instance" -> instances [] e = "row" -> rows
                        [] e = "save" -> saves [] OTHER -> messages]

\* Runs with one thing happening in between; and rows that are edited at once.
MCBudgets ==
    {Budget(1, 1, 0, 0, 0), Budget(1, 0, 1, 0, 0), Budget(1, 0, 0, 1, 0), Budget(1, 0, 0, 0, 1), Budget(0, 0, 2, 2, 0)}
OnlyRuns == {Budget(1, 0, 0, 0, 0)}

Symmetry == Permutations(Names) \cup Permutations(Hooks) \cup Permutations(Editors)

\* One row with a bad message format among them.
MCBrokenRows == {Hook("webhook", "always", {}, TRUE), Hook("webhook", "always", {}, FALSE)}
=============================================================================
