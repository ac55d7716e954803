---------------------------- MODULE ActiveSelection ----------------------------
(***************************************************************************)
(* What the content store promises its callers: one selected revision,     *)
(* replaced only by a commit that carries the next generation, and         *)
(* confirmed to the companion only while it is the selected one.  Crashes, *)
(* slots, partial writes, read faults and cleanup do not exist at this     *)
(* level.                                                                  *)
(***************************************************************************)
EXTENDS Naturals

CONSTANTS Revisions,     \* content revisions (manifest hashes)
          NoRevision     \* no revision: nothing was ever selected

VARIABLES selected,      \* what recovery selects: [generation, revision]
          confirmed      \* the last activation that returned Ok

None == [generation |-> 0, revision |-> NoRevision]

Init == selected = None /\ confirmed = None

\* A new record takes effect, whether or not anybody is told about it.
Commit(r) ==
  /\ r # selected.revision
  /\ selected' = [generation |-> selected.generation + 1, revision |-> r]
  /\ UNCHANGED confirmed

\* activateRevision() returns Ok: only ever for the revision selected now.
Confirm ==
  /\ selected # None
  /\ confirmed' = selected
  /\ UNCHANGED selected

Next == Confirm \/ \E r \in Revisions : Commit(r)

Spec == Init /\ [][Next]_<<selected, confirmed>>
===============================================================================
