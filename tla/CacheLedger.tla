---------------------------- MODULE CacheLedger ----------------------------
(***************************************************************************)
(* What the persistent cache database promises, without the worker: a      *)
(* version is queued and its images marked outdated in one transaction; a  *)
(* version leaves the queue only in the transaction that stores an image   *)
(* at least as recent as the last time it was queued, and no image of the  *)
(* cache is ever replaced by an older one.                                 *)
(***************************************************************************)
EXTENDS Naturals

CONSTANTS Versions, None
VARIABLES gen, queue, stored, outdated, asked
ledger == <<gen, queue, stored, outdated, asked>>

Init ==
  /\ gen = [v \in Versions |-> 0] /\ asked = gen
  /\ queue \in SUBSET Versions
  /\ stored \in [Versions -> {0, None}]
  /\ outdated = {v \in queue : stored[v] # None}

\* The settings of some versions change.
Edit(S) ==
  /\ gen' = [v \in Versions |-> IF v \in S THEN gen[v] + 1 ELSE gen[v]]
  /\ UNCHANGED <<queue, stored, outdated, asked>>

\* The images of some versions are called for again.
Ask(S) ==
  /\ queue' = queue \cup S
  /\ outdated' = outdated \cup {v \in S : stored[v] # None}
  /\ asked' = [v \in Versions |-> IF v \in S THEN gen[v] ELSE asked[v]]
  /\ UNCHANGED <<gen, stored>>

\* A batch of images is stored.
Store(S) ==
  /\ \A v \in S : /\ stored'[v] \in asked[v]..gen[v]
                  /\ stored[v] # None => stored'[v] >= stored[v]
  /\ stored' = [v \in Versions |-> IF v \in S THEN stored'[v] ELSE stored[v]]
  /\ outdated' = outdated \ S /\ queue' = queue \ S
  /\ UNCHANGED <<gen, asked>>

\* Images of some versions are thrown away.
Remove(S) ==
  /\ stored' = [v \in Versions |-> IF v \in S THEN None ELSE stored[v]]
  /\ outdated' = outdated \ S
  /\ UNCHANGED <<gen, queue, asked>>

Next == \E S \in SUBSET Versions : Edit(S) \/ Ask(S) \/ Store(S) \/ Remove(S)

Spec == Init /\ [][Next]_ledger
=============================================================================
