------------------------------ MODULE SnapCache ------------------------------
(***************************************************************************)
(* What the snapview-server snapshot list promises, abstractly.  glusterd  *)
(* owns the list of snapshots of a volume; it changes over time (hist is   *)
(* its history, the last entry the current list).  The server translator   *)
(* caches a copy (cache).  The promise: the cache only ever shows a list   *)
(* glusterd really had, and never an older one than it showed before      *)
(* (shown is the position in hist of the list on display, 0 before the    *)
(* first refresh).                                                          *)
(***************************************************************************)
EXTENDS Naturals, Sequences

CONSTANT Snaps           \* the possible snapshots (name and uuid)

VARIABLES hist, shown, cache
avars == <<hist, shown, cache>>

Init ==
  /\ hist = <<{}>>
  /\ shown = 0
  /\ cache = {}

\* glusterd creates or deletes snapshots.
Change ==
  /\ \E S \in SUBSET Snaps : hist' = Append(hist, S)
  /\ UNCHANGED <<shown, cache>>

\* The cache is replaced by a list glusterd had no earlier than the one shown.
Refresh ==
  /\ \E g \in 1..Len(hist) :
       /\ g >= shown
       /\ shown' = g
       /\ cache' = hist[g]
  /\ UNCHANGED hist

Next == Change \/ Refresh

Spec == Init /\ [][Next]_avars
=============================================================================
