---- MODULE MCSnapshotStore ----
EXTENDS SnapshotStore

\* Two copies of one file fit it, two copies of two files do not.
Budgets == {[maxCount |-> 2, maxBytes |-> 3]}
====
