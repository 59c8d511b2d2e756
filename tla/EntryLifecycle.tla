-------------------------- MODULE EntryLifecycle --------------------------
(***************************************************************************)
(* What the indexing of log entries promises, without requests, tasks or   *)
(* workers: the lifecycle that app/db/models/log_entry.py:7-13 documents,  *)
(* and the presence of the entry's point in the vector index.              *)
(*                                                                         *)
(* The promise is in the guards: an entry becomes "embedded" only while    *)
(* its point is there, and a point is taken out only of an entry that no   *)
(* user can see any more.  It does not say WHICH content the point holds.  *)
(***************************************************************************)
CONSTANT Logs

VARIABLES phase, indexed

vars == <<phase, indexed>>

Visible == {"pending", "embedded"}

TypeOK ==
    /\ phase \in [Logs -> Visible \cup {"absent", "deleted", "purged"}]
    /\ indexed \in [Logs -> BOOLEAN]

Init ==
    /\ phase = [l \in Logs |-> "absent"]
    /\ indexed = [l \in Logs |-> FALSE]

Move(l, from, to) ==
    /\ phase[l] \in from
    /\ phase' = [phase EXCEPT ![l] = to]
    /\ UNCHANGED indexed

Create(l)  == Move(l, {"absent"}, "pending")
Edit(l)    == Move(l, {"embedded"}, "pending")
Confirm(l) == indexed[l] /\ Move(l, {"pending"}, "embedded")
Delete(l)  == Move(l, Visible, "deleted")

\* Deleting a context takes all its entries at once.
Purge(S) ==
    /\ \A l \in S : phase[l] \in Visible \cup {"deleted"}
    /\ phase' = [l \in Logs |-> IF l \in S THEN "purged" ELSE phase[l]]
    /\ UNCHANGED indexed

Index(l) ==
    /\ phase[l] # "absent"
    /\ indexed' = [indexed EXCEPT ![l] = TRUE]
    /\ UNCHANGED phase

Unindex(l) ==
    /\ phase[l] \in {"deleted", "purged"}
    /\ indexed' = [indexed EXCEPT ![l] = FALSE]
    /\ UNCHANGED phase

Next ==
    \/ \E l \in Logs : \/ Create(l) \/ Edit(l) \/ Confirm(l) \/ Delete(l)
                       \/ Index(l) \/ Unindex(l)
    \/ \E S \in SUBSET Logs : Purge(S)

Spec == Init /\ [][Next]_vars

=============================================================================
