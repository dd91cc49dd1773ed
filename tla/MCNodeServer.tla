----------------------------- MODULE MCNodeServer -----------------------------
(* Small instances of the node plugin for TLC.                             *)
EXTENDS NodeServer, TLC

Symmetry == Permutations(Rpcs) \cup Permutations(Mounts) \cup Permutations(Locks)

\* The properties checked under this constraint say nothing of later states.
Unsplit == ~split

\* What the behaviour depends on.  No guard reads the variables left out.  Of
\* the mutex objects it matters which of them the id maps to, and of the mounts
\* what refers to them and how their weeds are: under another name they would
\* do the same, and no fairness is about one of them.
Role(m) == IF m \in Mounts THEN <<m = reg, m = staging, fuse[m]>> ELSE m

Behaviour ==
  <<[a \in Actors |-> [act[a] EXCEPT !.lock = (act[a].lock = mutex)]],
    vol, Role(staging), Role(reg), [p \in Paths |-> <<Role(bind[p].src), bind[p].mode>>],
    {Role(m) : m \in Mounts}, owed = "now", kst, disk, split>>

\* What the behaviour and the safety properties depend on.  A path withdrawn
\* before a restart is to them like one that was never published, and so is,
\* once adrift, one published before a restart; nor does it matter then
\* whether a mount has come up late.
Forgotten(p) == pub[p] = "oldgone" \/ (adrift /\ pub[p] = "old")
Told ==
  <<mutex, act, vol, staging, bind, fuse, reg, kst, disk, split, adrift,
    IF adrift THEN owed = "now" ELSE owed,
    [p \in Paths |-> IF Forgotten(p) THEN "no" ELSE pub[p]]>>
===============================================================================
