-------------------------------- MODULE Hfsc --------------------------------
(***************************************************************************)
(* The H-FSC packet scheduler of net/sched/sch_hfsc.c: the class           *)
(* hierarchy, the three ordered indexes (eligible tree, per-parent vt and  *)
(* cf trees), enqueue and dequeue with the real-time and link-sharing      *)
(* criteria, the virtual-time walks init_vf and update_vf, the watchdog,   *)
(* drop, requeue, reset and class configuration.                           *)
(*                                                                         *)
(* Every handler runs under dev->queue_lock (sch_tree_lock for             *)
(* configuration), so each is one atomic action.  A red-black tree is a    *)
(* sequence in tree order: insertion goes after every entry whose key is   *)
(* <= the new key, as the code descends right on >=.                       *)
(***************************************************************************)
EXTENDS HfscCurve, Integers, Sequences, SequencesExt, FiniteSets

CONSTANTS
  Root,         \* the root class embedded in struct hfsc_sched
  Classes,      \* ids of the classes configuration may create
  Parent,       \* Parent[c]: the parent id given when c is created
  CreateSC,     \* CreateSC[c]: [rsc, fsc, usc] curves given at creation
  ChangeSC,     \* ChangeSC[c]: the [rsc, fsc, usc] change requests for c
  NoSC,         \* an absent (or all-zero) curve attribute
  DefCls,       \* the default class (q->defcls), possibly not a class
  NoClass,      \* NULL class pointer
  Lens,         \* packet lengths
  QLimit,       \* limit of a leaf's pfifo
  MaxTime,      \* bound on the clock
  MaxPkts,      \* bound on the number of packets offered to enqueue
  MaxConf       \* bound on the number of configuration requests

Ids == {Root} \cup Classes

VARIABLES
  live,       \* classes in the class hash (created, not deleted)
  cl,         \* cl[c]: struct hfsc_class fields of c
  q,          \* q[c]: lengths of the packets in c's leaf pfifo
  eligible,   \* q->eligible, tree order
  vttree,     \* vttree[p]: p->vt_tree, tree order
  cftree,     \* cftree[p]: p->cf_tree, tree order
  droplist,   \* q->droplist
  qlen,       \* sch->q.qlen
  requeue,    \* q->requeue
  throttled,  \* TCQ_F_THROTTLED in sch->flags
  wdtimer,    \* expiry of q->wd_timer, or NoTimer when not pending
  held,       \* length of the packet the device holds after dequeue
  now,        \* PSCHED_GET_TIME, from 1 (the clock never reads 0)
  npkts,      \* packets offered to enqueue so far (bounded by MaxPkts)
  nconf       \* configuration requests so far (bounded by MaxConf)

vars == <<live, cl, q, eligible, vttree, cftree, droplist, qlen, requeue,
          throttled, wdtimer, held, now, npkts, nconf>>

NoTimer == -1
NoPkt == 0

RSC == "rsc"
FSC == "fsc"
USC == "usc"

ZeroISC == [sm1 |-> 0, ism1 |-> 0, dx |-> 0, dy |-> 0, sm2 |-> 0, ism2 |-> 0]
ZeroRT == rtsc_init(ZeroISC, 0, 0)

\* A class as kmalloc + memset leaves it.
ZeroClass ==
  [level |-> 0, flags |-> {}, total |-> 0, cumul |-> 0, d |-> 0, e |-> 0,
   vt |-> 0, f |-> 0, myf |-> 0, myfadj |-> 0, cfmin |-> 0, cvtmin |-> 0,
   vtadj |-> 0, vtoff |-> 0, cvtmax |-> 0, cvtoff |-> 0, pcvtoff |-> 0,
   vtperiod |-> 0, parentperiod |-> 0, nactive |-> 0,
   rsc |-> ZeroISC, fsc |-> ZeroISC, usc |-> ZeroISC,
   deadline |-> ZeroRT, eligible |-> ZeroRT, virtual |-> ZeroRT,
   ulimit |-> ZeroRT]

(***************************************************************************)
(* The scheduler state a handler transforms, as one record.                *)
(***************************************************************************)
St == [cl |-> cl, vt |-> vttree, cf |-> cftree, el |-> eligible,
       dl |-> droplist, q |-> q, qlen |-> qlen]

Commit(s) == /\ cl' = s.cl /\ vttree' = s.vt /\ cftree' = s.cf
             /\ eligible' = s.el /\ droplist' = s.dl /\ q' = s.q
             /\ qlen' = s.qlen

Children(c) == {x \in live : Parent[x] = c}

MaxOf(a, b) == IF a >= b THEN a ELSE b

\* rb insertion: after every entry whose key is <= the key of c.
TreeInsert(tree, c, key) ==
  LET i == SelectInSeq(tree, LAMBDA x : key[x] > key[c])
  IN IF i = 0 THEN Append(tree, c) ELSE InsertAt(tree, i, c)

(***************************************************************************)
(* The eligible tree.                                                      *)
(***************************************************************************)
eltree_insert(s, c) ==
  [s EXCEPT !.el = TreeInsert(@, c, [x \in Ids |-> s.cl[x].e])]

\* rb_erase of a node that is not in the tree: a node never linked (el_node
\* zeroed by the memset of a new class) has no parent, so rb_erase sets the
\* root to NULL and the whole tree is lost.  (A once-linked, stale node is
\* only reached after the tree was already lost this way.)
eltree_remove(s, c) ==
  IF Contains(s.el, c) THEN [s EXCEPT !.el = Remove(@, c)]
  ELSE [s EXCEPT !.el = <<>>]

eltree_update(s, c) == eltree_insert(eltree_remove(s, c), c)

\* eltree_get_mindl: among the entries with e <= t, in tree order, the
\* first one with the smallest deadline.
eltree_get_mindl(s, t) ==
  LET n == SelectInSeq(s.el, LAMBDA x : s.cl[x].e > t)
      elig == IF n = 0 THEN s.el ELSE SubSeq(s.el, 1, n - 1)
      best == SelectInSeq(elig, LAMBDA x :
                \A i \in 1..Len(elig) : s.cl[elig[i]].d >= s.cl[x].d)
  IN IF best = 0 THEN NoClass ELSE elig[best]

\* The eligible curve: the deadline curve, flattened to its second
\* segment when the real-time curve is convex.
EligibleOf(c, dl) ==
  IF c.rsc.sm1 <= c.rsc.sm2 THEN [dl EXCEPT !.dx = 0, !.dy = 0] ELSE dl

init_ed(s, c, next_len, t) ==
  LET C   == s.cl[c]
      dl  == rtsc_min(C.deadline, C.rsc, t, C.cumul)
      elc == EligibleOf(C, dl)
  IN eltree_insert(
       [s EXCEPT !.cl[c] = [C EXCEPT !.deadline = dl, !.eligible = elc,
                                     !.e = rtsc_y2x(elc, C.cumul),
                                     !.d = rtsc_y2x(dl, W(C.cumul + next_len))]],
       c)

update_ed(s, c, next_len) ==
  LET C == s.cl[c]
  IN eltree_update(
       [s EXCEPT !.cl[c].e = rtsc_y2x(C.eligible, C.cumul),
                 !.cl[c].d = rtsc_y2x(C.deadline, W(C.cumul + next_len))],
       c)

update_d(s, c, next_len) ==
  [s EXCEPT !.cl[c].d = rtsc_y2x(s.cl[c].deadline, W(s.cl[c].cumul + next_len))]
(***************************************************************************)
(* The vt tree and cf tree of a parent p, and its cl_cfmin.                *)
(***************************************************************************)
vttree_insert(s, c, p) ==
  [s EXCEPT !.vt[p] = TreeInsert(@, c, [x \in Ids |-> s.cl[x].vt])]
cftree_insert(s, c, p) ==
  [s EXCEPT !.cf[p] = TreeInsert(@, c, [x \in Ids |-> s.cl[x].f])]
vttree_remove(s, c, p) == [s EXCEPT !.vt[p] = Remove(@, c)]
cftree_remove(s, c, p) == [s EXCEPT !.cf[p] = Remove(@, c)]

update_cfmin(s, p) ==
  [s EXCEPT !.cl[p].cfmin = IF s.cf[p] = <<>> THEN 0
                            ELSE s.cl[Head(s.cf[p])].f]

\* Seeded fault: the parent's cfmin is not recomputed after c's entry moves.
update_f_nocfmin(s, c, p) ==
  LET f == MaxOf(s.cl[c].myf, s.cl[c].cfmin)
  IN IF f = s.cl[c].f THEN s
     ELSE cftree_insert(cftree_remove([s EXCEPT !.cl[c].f = f], c, p), c, p)

\* f = max(myf, cfmin); on a change, reposition c in the cf tree and
\* recompute the parent's cfmin.
update_f(s, c, p) ==
  LET f == MaxOf(s.cl[c].myf, s.cl[c].cfmin)
  IN IF f = s.cl[c].f THEN s
     ELSE update_cfmin(cftree_insert(cftree_remove(
            [s EXCEPT !.cl[c].f = f], c, p), c, p), p)

(***************************************************************************)
(* init_vf, the go_active branch for class c under parent p at time t:     *)
(* the starting vt, the re-anchored virtual and upper-limit curves, and    *)
(* the insertion into p's vt and cf trees.                                 *)
(***************************************************************************)
vf_activate(s, c, p, t) ==
  LET C == s.cl[c]
      P == s.cl[p]
      busy  == s.vt[p] # <<>>
      maxvt == IF busy THEN s.cl[Last(s.vt[p])].vt ELSE 0
      avg   == IF P.cvtmin # 0 THEN W(P.cvtmin + maxvt) \div 2 ELSE maxvt
      vt == IF ~busy THEN 0
            ELSE IF P.vtperiod # C.parentperiod \/ avg > C.vt THEN avg
            ELSE C.vt
      P1 == IF busy THEN P
            ELSE [P EXCEPT !.cvtoff = W(@ + P.cvtmax), !.cvtmax = 0,
                           !.cvtmin = 0]
      vtoff == W(P1.cvtoff - C.pcvtoff)
      x0    == W(vt + vtoff)
      virt  == rtsc_min(C.virtual, C.fsc, x0, C.total)
      anchored == virt.x = x0
      ul == rtsc_min(C.ulimit, C.usc, t, C.total)
      C1 == [C EXCEPT
               !.vt = vt,
               !.vtoff = IF anchored THEN 0 ELSE vtoff,
               !.virtual = IF anchored THEN [virt EXCEPT !.x = W(@ - vtoff)]
                           ELSE virt,
               !.vtadj = 0,
               !.vtperiod = @ + 1,
               !.parentperiod = P1.vtperiod + (IF P1.nactive = 0 THEN 1 ELSE 0),
               !.f = 0,
               !.ulimit = IF USC \in C.flags THEN ul ELSE @,
               !.myf = IF USC \in C.flags THEN rtsc_y2x(ul, C.total) ELSE @,
               !.myfadj = IF USC \in C.flags THEN 0 ELSE @]
      s1 == [s EXCEPT !.cl = [@ EXCEPT ![p] = P1, ![c] = C1]]
  IN cftree_insert(vttree_insert(s1, c, p), c, p)

\* init_vf: the walk from c towards the root; go_active holds while each
\* level sees its own first active child.
RECURSIVE init_vf_walk(_, _, _, _)
init_vf_walk(s, c, go_active, t) ==
  IF c = Root THEN s
  ELSE LET p  == Parent[c]
           ga == go_active /\ s.cl[c].nactive = 0
           s1 == IF go_active THEN [s EXCEPT !.cl[c].nactive = @ + 1] ELSE s
           s2 == IF ga THEN vf_activate(s1, c, p, t) ELSE s1
       IN init_vf_walk(update_f(s2, c, p), p, ga, t)

init_vf(s, c, t) == init_vf_walk(s, c, TRUE, t)

(***************************************************************************)
(* update_vf: the walk from c towards the root after len bytes were sent   *)
(* (len = 0 to only deactivate).                                           *)
(***************************************************************************)
\* Seeded fault: a class going passive stays linked in the vt tree.
vf_deactivate_nounlink(s, c, p) ==
  LET s1 == [s EXCEPT !.cl[p].cvtmax = MaxOf(@, s.cl[c].vt)]
  IN update_cfmin(cftree_remove(s1, c, p), p)

vf_deactivate(s, c, p) ==
  LET s1 == [s EXCEPT !.cl[p].cvtmax = MaxOf(@, s.cl[c].vt)]
  IN update_cfmin(cftree_remove(vttree_remove(s1, c, p), c, p), p)

\* The class record after update_vf recomputes its vt and (when newmyf)
\* its myf.
vf_rescheduled_class(s, c, p, newmyf) ==
  LET C   == s.cl[c]
      vt0 == W(W(rtsc_y2x(C.virtual, C.total) - C.vtoff) + C.vtadj)
      floor == s.cl[p].cvtmin
      skipped == vt0 < floor
  IN [C EXCEPT !.vt = IF skipped THEN floor ELSE vt0,
               !.vtadj = IF skipped THEN W(@ + floor - vt0) ELSE @,
               !.myf = IF newmyf /\ USC \in C.flags
                       THEN W(C.myfadj + rtsc_y2x(C.ulimit, C.total)) ELSE @]

\* Seeded faults: the new vt is stored without vttree_update, or myf is
\* not recomputed from the upper-limit curve.
vf_reschedule_noreorder(s, c, p) ==
  [s EXCEPT !.cl[c] = vf_rescheduled_class(s, c, p, TRUE)]

vf_reschedule_nomyf(s, c, p) ==
  LET s1 == vttree_remove([s EXCEPT !.cl[c] = vf_rescheduled_class(s, c, p, FALSE)],
                          c, p)
  IN [s1 EXCEPT !.vt[p] = TreeInsert(@, c, [x \in Ids |-> s1.cl[x].vt])]

\* update_vf's go_active branch for c under p: vt from the virtual curve,
\* raised to the parent's cvtmin (the shortfall kept in vtadj), the vt
\* tree entry moved, and myf from the upper-limit curve.
vf_reschedule(s, c, p) ==
  LET s1 == vttree_remove([s EXCEPT !.cl[c] = vf_rescheduled_class(s, c, p, TRUE)],
                          c, p)
  IN [s1 EXCEPT !.vt[p] = TreeInsert(@, c, [x \in Ids |-> s1.cl[x].vt])]

RECURSIVE update_vf_walk(_, _, _, _)
update_vf_walk(s, c, len, go_passive) ==
  IF c = Root THEN s
  ELSE LET p  == Parent[c]
           s0 == [s EXCEPT !.cl[c].total = W(@ + len)]
           C  == s0.cl[c]
       IN IF FSC \notin C.flags \/ C.nactive = 0
          THEN update_vf_walk(s0, p, len, go_passive)
          ELSE LET gp == go_passive /\ C.nactive = 1
                   s1 == IF go_passive THEN [s0 EXCEPT !.cl[c].nactive = @ - 1]
                         ELSE s0
               IN IF gp THEN update_vf_walk(vf_deactivate(s1, c, p), p, len, TRUE)
                  ELSE update_vf_walk(update_f(vf_reschedule(s1, c, p), c, p),
                                      p, len, FALSE)

update_vf(s, c, len) ==
  update_vf_walk(s, c, len, s.q[c] = <<>> /\ FSC \in s.cl[c].flags)

(***************************************************************************)
(* set_active, set_passive, hfsc_purge_queue, hfsc_adjust_levels.          *)
(***************************************************************************)
set_active(s, c, len, t) ==
  LET s1 == IF RSC \in s.cl[c].flags THEN init_ed(s, c, len, t) ELSE s
      s2 == IF FSC \in s.cl[c].flags THEN init_vf(s1, c, t) ELSE s1
  IN [s2 EXCEPT !.dl = Append(@, c)]

\* Seeded fault: a passive class is left in the eligible tree.
set_passive_keepel(s, c) == [s EXCEPT !.dl = Remove(@, c)]

set_passive(s, c) ==
  LET s1 == IF RSC \in s.cl[c].flags THEN eltree_remove(s, c) ELSE s
  IN [s1 EXCEPT !.dl = Remove(@, c)]

\* Seeded fault: sch->q.qlen is not reduced by the purged packets.
hfsc_purge_queue_keepqlen(s, c) ==
  LET s1 == [s EXCEPT !.q[c] = <<>>]
  IN IF s.q[c] = <<>> THEN s1 ELSE set_passive(update_vf(s1, c, 0), c)

hfsc_purge_queue(s, c) ==
  LET n  == Len(s.q[c])
      s1 == [s EXCEPT !.q[c] = <<>>]
  IN IF n = 0 THEN s1
     ELSE [set_passive(update_vf(s1, c, 0), c) EXCEPT !.qlen = @ - n]

\* level = 1 + the largest level among the children, from c up to the root.
RECURSIVE hfsc_adjust_levels(_, _, _)
hfsc_adjust_levels(s, c, members) ==
  LET lv == 1 + FoldSet(MaxOf, 0, {s.cl[x].level : x \in
                                   {y \in members : Parent[y] = c}})
      s1 == [s EXCEPT !.cl[c].level = lv]
  IN IF c = Root THEN s1 ELSE hfsc_adjust_levels(s1, Parent[c], members)
\* A configuration request (tc class add/change/delete, graft, reset).
ConfigStep == nconf < MaxConf /\ nconf' = nconf + 1

(***************************************************************************)
(* Configuration of a class's curves (hfsc_change_rsc/fsc/usc).            *)
(***************************************************************************)
hfsc_change_rsc(C, sc, t) ==
  LET isc == sc2isc(sc)
      dl  == rtsc_init(isc, t, C.cumul)
  IN [C EXCEPT !.rsc = isc, !.deadline = dl,
               !.eligible = EligibleOf([C EXCEPT !.rsc = isc], dl),
               !.flags = @ \cup {RSC}]

hfsc_change_fsc(C, sc) ==
  LET isc == sc2isc(sc)
  IN [C EXCEPT !.fsc = isc, !.virtual = rtsc_init(isc, C.vt, C.total),
               !.flags = @ \cup {FSC}]

hfsc_change_usc(C, sc, t) ==
  LET isc == sc2isc(sc)
  IN [C EXCEPT !.usc = isc, !.ulimit = rtsc_init(isc, t, C.total),
               !.flags = @ \cup {USC}]

\* The three curve attributes of a request, each applied when present.
ChangeCurves(C, req, t) ==
  LET C1 == IF req.rsc # NoSC THEN hfsc_change_rsc(C, req.rsc, t) ELSE C
      C2 == IF req.fsc # NoSC THEN hfsc_change_fsc(C1, req.fsc) ELSE C1
  IN IF req.usc # NoSC THEN hfsc_change_usc(C2, req.usc, t) ELSE C2

(***************************************************************************)
(* hfsc_change_class on a new class: created under its parent, which is    *)
(* purged if it was a leaf; levels are adjusted up to the root.            *)
(***************************************************************************)
CreateClass(c) ==
  LET p   == Parent[c]
      req == CreateSC[c]
      s1  == [St EXCEPT !.cl[c] = ChangeCurves(ZeroClass, req, 0),
                        !.vt[c] = <<>>, !.cf[c] = <<>>, !.q[c] = <<>>]
      s2  == IF s1.cl[p].level = 0 THEN hfsc_purge_queue(s1, p) ELSE s1
      s3  == hfsc_adjust_levels(s2, p, live \cup {c})
  IN /\ c \notin live
     /\ p = Root \/ p \in live
     /\ req.rsc # NoSC \/ req.fsc # NoSC
     /\ Commit([s3 EXCEPT !.cl[c].pcvtoff = s3.cl[p].cvtoff])
     /\ live' = live \cup {c}
     /\ UNCHANGED <<requeue, throttled, wdtimer, held, now, npkts>>
     /\ ConfigStep

\* hfsc_change_class on an existing class: new curves take effect at once
\* for a backlogged class.
ChangeClass(c, req) ==
  LET s1 == [St EXCEPT !.cl[c] = ChangeCurves(@, req, now)]
      s2 == IF RSC \in s1.cl[c].flags THEN update_ed(s1, c, Head(q[c])) ELSE s1
      s3 == IF FSC \in s1.cl[c].flags THEN update_vf(s2, c, 0) ELSE s2
  IN /\ c \in live
     /\ Commit(IF q[c] # <<>> THEN s3 ELSE s1)
     /\ UNCHANGED <<live, requeue, throttled, wdtimer, held, now, npkts>>
     /\ ConfigStep

\* hfsc_delete_class: refused (-EBUSY) unless c is a leaf.
DeleteClass(c) ==
  /\ c \in live
  /\ cl[c].level = 0
  /\ live' = live \ {c}
  /\ Commit(hfsc_purge_queue(hfsc_adjust_levels(St, Parent[c], live \ {c}), c))
  /\ UNCHANGED <<requeue, throttled, wdtimer, held, now, npkts>>
  /\ ConfigStep

\* hfsc_graft_class: a leaf's queue is purged and replaced by an empty one.
GraftClass(c) ==
  /\ c \in live \cup {Root}
  /\ cl[c].level = 0
  /\ q[c] # <<>>
  /\ Commit(hfsc_purge_queue(St, c))
  /\ UNCHANGED <<live, requeue, throttled, wdtimer, held, now, npkts>>
  /\ ConfigStep

(***************************************************************************)
(* hfsc_enqueue.  Classification by skb->priority finds a leaf class t,    *)
(* or falls back to the default class (filters are not modelled).          *)
(***************************************************************************)
IsLeaf(c) == c \in live \cup {Root} /\ cl[c].level = 0

hfsc_classify(t) ==
  IF IsLeaf(t) THEN t ELSE IF IsLeaf(DefCls) THEN DefCls ELSE NoClass

Enqueue(t, len) ==
  LET c  == hfsc_classify(t)
      s1 == [St EXCEPT !.q[c] = Append(@, len), !.qlen = @ + 1]
  IN /\ npkts < MaxPkts
     /\ npkts' = npkts + 1
     /\ IF c # NoClass /\ Len(q[c]) < QLimit
        THEN Commit(IF q[c] = <<>> THEN set_active(s1, c, len, now) ELSE s1)
        ELSE UNCHANGED <<cl, q, eligible, vttree, cftree, droplist, qlen>>
     /\ UNCHANGED <<live, requeue, throttled, wdtimer, held, now, nconf>>

(***************************************************************************)
(* hfsc_dequeue, by the branch it takes.                                   *)
(***************************************************************************)
\* vttree_get_minvt: descend by first fit, raising each parent's cvtmin.
RECURSIVE minvt_descend(_, _, _)
minvt_descend(s, c, t) ==
  IF s.cl[c].level = 0 THEN [cls |-> c, s |-> s]
  ELSE LET i == SelectInSeq(s.vt[c], LAMBDA x : s.cl[x].f <= t)
           n == s.vt[c][i]
       IN IF i = 0 THEN [cls |-> NoClass, s |-> s]
          ELSE minvt_descend([s EXCEPT !.cl[c].cvtmin = MaxOf(@, s.cl[n].vt)],
                             n, t)

vttree_get_minvt(s, t) ==
  IF s.cl[Root].cfmin > t THEN [cls |-> NoClass, s |-> s]
  ELSE minvt_descend(s, Root, t)

\* Seeded fault: sch->q.qlen is not decremented for a class's packet.
hfsc_dequeue_class_keepqlen(s, c, realtime, t) ==
  LET len == Head(s.q[c])
      s1 == update_vf([s EXCEPT !.q[c] = Tail(@)], c, len)
      s2 == IF realtime THEN [s1 EXCEPT !.cl[c].cumul = W(@ + len)] ELSE s1
  IN IF s2.q[c] = <<>> THEN set_passive(s2, c)
     ELSE IF RSC \notin s2.cl[c].flags THEN s2
     ELSE IF realtime THEN update_ed(s2, c, Head(s2.q[c]))
     ELSE update_d(s2, c, Head(s2.q[c]))

\* Seeded fault: link-sharing service is counted in cl_cumul too.
hfsc_dequeue_class_cumulall(s, c, realtime, t) ==
  LET len == Head(s.q[c])
      s1 == update_vf([s EXCEPT !.q[c] = Tail(@)], c, len)
      s2 == [s1 EXCEPT !.cl[c].cumul = W(@ + len)]
      s3 == IF s2.q[c] = <<>> THEN set_passive(s2, c)
            ELSE IF RSC \notin s2.cl[c].flags THEN s2
            ELSE IF realtime THEN update_ed(s2, c, Head(s2.q[c]))
            ELSE update_d(s2, c, Head(s2.q[c]))
  IN [s3 EXCEPT !.qlen = @ - 1]

\* The part of hfsc_dequeue after class c was selected.
hfsc_dequeue_class(s, c, realtime, t) ==
  LET len == Head(s.q[c])
      s1 == update_vf([s EXCEPT !.q[c] = Tail(@)], c, len)
      s2 == IF realtime THEN [s1 EXCEPT !.cl[c].cumul = W(@ + len)] ELSE s1
      s3 == IF s2.q[c] = <<>> THEN set_passive(s2, c)
            ELSE IF RSC \notin s2.cl[c].flags THEN s2
            ELSE IF realtime THEN update_ed(s2, c, Head(s2.q[c]))
            ELSE update_d(s2, c, Head(s2.q[c]))
  IN [s3 EXCEPT !.qlen = @ - 1]

\* A selected class whose queue is empty yields no packet.
Deliver(s, c, realtime) ==
  IF s.q[c] = <<>>
  THEN Commit(s) /\ UNCHANGED <<held, throttled>>
  ELSE /\ Commit(hfsc_dequeue_class(s, c, realtime, now))
       /\ held' = Head(s.q[c])
       /\ throttled' = FALSE

DequeueReady == qlen > 0 /\ held = NoPkt

DequeueRequeued ==
  /\ DequeueReady
  /\ requeue # <<>>
  /\ held' = Head(requeue)
  /\ requeue' = Tail(requeue)
  /\ qlen' = qlen - 1
  /\ throttled' = FALSE
  /\ UNCHANGED <<live, cl, q, eligible, vttree, cftree, droplist, wdtimer,
                 now, npkts, nconf>>

DequeueRealTime ==
  LET c == eltree_get_mindl(St, now)
  IN /\ DequeueReady
     /\ requeue = <<>>
     /\ c # NoClass
     /\ Deliver(St, c, TRUE)
     /\ UNCHANGED <<live, requeue, wdtimer, now, npkts, nconf>>

DequeueLinkShare ==
  LET r == vttree_get_minvt(St, now)
  IN /\ DequeueReady
     /\ requeue = <<>>
     /\ eltree_get_mindl(St, now) = NoClass
     /\ r.cls # NoClass
     /\ Deliver(r.s, r.cls, FALSE)
     /\ UNCHANGED <<live, requeue, wdtimer, now, npkts, nconf>>

\* Seeded fault: the root's cfmin is taken whenever it is set, even when an
\* eligible time comes first.
hfsc_schedule_watchdog_cffirst(s) ==
  LET el == IF s.el # <<>> THEN s.cl[Head(s.el)].e ELSE 0
      cf == s.cl[Root].cfmin
  IN IF cf # 0 THEN cf ELSE el

\* hfsc_schedule_watchdog: the earliest of the smallest eligible time and
\* the root's cfmin (0 meaning none); the timer expires at that time.
hfsc_schedule_watchdog(s) ==
  LET el == IF s.el # <<>> THEN s.cl[Head(s.el)].e ELSE 0
      cf == s.cl[Root].cfmin
  IN IF cf # 0 /\ (el = 0 \/ el > cf) THEN cf ELSE el

DequeueThrottled ==
  LET r == vttree_get_minvt(St, now)
  IN /\ DequeueReady
     /\ requeue = <<>>
     /\ eltree_get_mindl(St, now) = NoClass
     /\ r.cls = NoClass
     /\ Commit(r.s)
     /\ throttled' = TRUE
     /\ wdtimer' = hfsc_schedule_watchdog(r.s)
     /\ UNCHANGED <<live, requeue, held, now, npkts, nconf>>
(***************************************************************************)
(* The watchdog timer, the device, hfsc_drop, hfsc_reset_qdisc, the clock. *)
(***************************************************************************)
\* hfsc_watchdog: the timer fires, clears the throttled flag and
\* reschedules the device.
Watchdog ==
  /\ wdtimer # NoTimer
  /\ now >= wdtimer
  /\ wdtimer' = NoTimer
  /\ throttled' = FALSE
  /\ UNCHANGED <<live, cl, q, eligible, vttree, cftree, droplist, qlen,
                 requeue, held, now, npkts, nconf>>

\* The device transmits the packet it dequeued.
Transmit ==
  /\ held # NoPkt
  /\ held' = NoPkt
  /\ UNCHANGED <<live, cl, q, eligible, vttree, cftree, droplist, qlen,
                 requeue, throttled, wdtimer, now, npkts, nconf>>

\* hfsc_requeue: the device gives the packet back; it goes first.
Requeue ==
  /\ held # NoPkt
  /\ held' = NoPkt
  /\ requeue' = <<held>> \o requeue
  /\ qlen' = qlen + 1
  /\ UNCHANGED <<live, cl, q, eligible, vttree, cftree, droplist, throttled,
                 wdtimer, now, npkts, nconf>>

\* hfsc_drop: the first class on the drop list whose pfifo drops a packet
\* (from its tail) goes passive if empty, else moves to the list's tail.
Drop ==
  LET i  == SelectInSeq(droplist, LAMBDA x : q[x] # <<>>)
      c  == droplist[i]
      s1 == [St EXCEPT !.q[c] = Front(@), !.qlen = @ - 1]
  IN /\ i # 0
     /\ Commit(IF s1.q[c] = <<>> THEN set_passive(update_vf(s1, c, 0), c)
               ELSE [s1 EXCEPT !.dl = Append(Remove(@, c), c)])
     /\ UNCHANGED <<live, requeue, throttled, wdtimer, held, now, npkts, nconf>>

\* hfsc_reset_class: every scheduling quantity zeroed, curves re-anchored
\* at (0, 0); level, flags and curves are kept.
hfsc_reset_class(C) ==
  [C EXCEPT !.total = 0, !.cumul = 0, !.d = 0, !.e = 0, !.vt = 0,
            !.vtadj = 0, !.vtoff = 0, !.cvtmin = 0, !.cvtmax = 0,
            !.cvtoff = 0, !.pcvtoff = 0, !.vtperiod = 0, !.parentperiod = 0,
            !.f = 0, !.myf = 0, !.myfadj = 0, !.cfmin = 0, !.nactive = 0,
            !.deadline = IF RSC \in C.flags THEN rtsc_init(C.rsc, 0, 0) ELSE @,
            !.virtual = IF FSC \in C.flags THEN rtsc_init(C.fsc, 0, 0) ELSE @,
            !.ulimit = IF USC \in C.flags THEN rtsc_init(C.usc, 0, 0) ELSE @]

Reset ==
  LET hashed == live \cup {Root}
  IN /\ cl' = [c \in Ids |-> IF c \in hashed THEN hfsc_reset_class(cl[c])
                             ELSE cl[c]]
     /\ vttree' = [c \in Ids |-> IF c \in hashed THEN <<>> ELSE vttree[c]]
     /\ cftree' = [c \in Ids |-> IF c \in hashed THEN <<>> ELSE cftree[c]]
     /\ q' = [c \in Ids |-> IF c \in hashed THEN <<>> ELSE q[c]]
     /\ eligible' = <<>>
     /\ droplist' = <<>>
     /\ requeue' = <<>>
     /\ wdtimer' = NoTimer
     /\ throttled' = FALSE
     /\ qlen' = 0
     /\ UNCHANGED <<live, held, now, npkts>>
     /\ ConfigStep

Tick ==
  /\ now < MaxTime
  /\ now' = now + 1
  /\ UNCHANGED <<live, cl, q, eligible, vttree, cftree, droplist, qlen,
                 requeue, throttled, wdtimer, held, npkts, nconf>>

(***************************************************************************)
(* hfsc_init_qdisc: the root alone, every index empty.                     *)
(***************************************************************************)
Init ==
  /\ live = {}
  /\ cl = [c \in Ids |-> ZeroClass]
  /\ q = [c \in Ids |-> <<>>]
  /\ eligible = <<>>
  /\ vttree = [c \in Ids |-> <<>>]
  /\ cftree = [c \in Ids |-> <<>>]
  /\ droplist = <<>>
  /\ qlen = 0
  /\ requeue = <<>>
  /\ throttled = FALSE
  /\ wdtimer = NoTimer
  /\ held = NoPkt
  /\ now = 1
  /\ npkts = 0
  /\ nconf = 0

Next ==
  \/ \E c \in Classes : CreateClass(c)
  \/ \E c \in Classes : \E req \in ChangeSC[c] : ChangeClass(c, req)
  \/ \E c \in Classes : DeleteClass(c)
  \/ \E c \in Ids : GraftClass(c)
  \/ \E t \in Ids \cup {NoClass} : \E len \in Lens : Enqueue(t, len)
  \/ DequeueRequeued
  \/ DequeueRealTime
  \/ DequeueLinkShare
  \/ DequeueThrottled
  \/ Watchdog
  \/ Transmit
  \/ Requeue
  \/ Drop
  \/ Reset
  \/ Tick

Spec == Init /\ [][Next]_vars
-----------------------------------------------------------------------------
(***************************************************************************)
(* Properties.                                                             *)
(***************************************************************************)
Hashed == live \cup {Root}

TypeOK ==
  /\ live \subseteq Classes
  /\ cl \in [Ids -> [level : Nat, flags : SUBSET {RSC, FSC, USC},
                     total : U64Val, cumul : U64Val, d : U64Val, e : U64Val,
                     vt : U64Val, f : U64Val, myf : U64Val, myfadj : U64Val,
                     cfmin : U64Val, cvtmin : U64Val, vtadj : U64Val,
                     vtoff : U64Val, cvtmax : U64Val, cvtoff : U64Val,
                     pcvtoff : U64Val, vtperiod : Nat, parentperiod : Nat,
                     nactive : Nat, rsc : InternalSC, fsc : InternalSC,
                     usc : InternalSC, deadline : RuntimeSC,
                     eligible : RuntimeSC, virtual : RuntimeSC,
                     ulimit : RuntimeSC]]
  /\ q \in [Ids -> Seq(Lens)]
  /\ eligible \in Seq(Ids) /\ droplist \in Seq(Ids)
  /\ vttree \in [Ids -> Seq(Ids)] /\ cftree \in [Ids -> Seq(Ids)]
  /\ qlen \in 0..MaxPkts /\ requeue \in Seq(Lens)
  /\ throttled \in BOOLEAN /\ wdtimer \in {NoTimer} \cup U64Val
  /\ held \in {NoPkt} \cup Lens /\ now \in 1..MaxTime /\ npkts \in 0..MaxPkts /\ nconf \in 0..MaxConf

RECURSIVE Ancestors(_)
Ancestors(c) == IF c = Root THEN {} ELSE {Parent[c]} \cup Ancestors(Parent[c])

\* Some leaf at or below c with a link-sharing curve holds packets.
FscBacklog(c) ==
  \E d \in Hashed : (d = c \/ c \in Ancestors(d))
                    /\ FSC \in cl[d].flags /\ q[d] # <<>>

\* sch->q.qlen counts exactly the packets in the leaf queues and the
\* requeue list, across enqueue, dequeue, drop, purge on class creation,
\* deletion and graft, and requeue.
QlenAccounting ==
  qlen = FoldSet(LAMBDA c, acc : acc + Len(q[c]), 0, Ids) + Len(requeue)

\* The eligible tree holds, once each, exactly the backlogged classes with
\* a real-time curve (set_active/set_passive, update_ed on a class change,
\* hfsc_drop and hfsc_purge_queue all keep it so).
RealTimeIndexExact ==
  /\ ToSet(eligible) = {c \in Hashed : RSC \in cl[c].flags /\ q[c] # <<>>}
  /\ Len(eligible) = Cardinality(ToSet(eligible))

\* A class is in its parent's vt tree and cf tree iff a link-sharing leaf
\* at or below it is backlogged, and cl_nactive counts its active children
\* (1 for an active leaf): init_vf's go_active and update_vf's go_passive
\* walks keep the indexes in step with the queues.
LinkShareIndexExact ==
  /\ \A c \in live :
       /\ Contains(vttree[Parent[c]], c) <=> FscBacklog(c)
       /\ Contains(cftree[Parent[c]], c) <=> FscBacklog(c)
       /\ cl[c].nactive = IF Children(c) = {}
                          THEN IF FscBacklog(c) THEN 1 ELSE 0
                          ELSE Len(vttree[c])
  /\ \A p \in Hashed :
       /\ Len(vttree[p]) = Cardinality(ToSet(vttree[p]))
       /\ ToSet(vttree[p]) \subseteq Children(p)

\* Every index is in key order: no key changes while its entry is linked
\* (each change of cl_e, cl_vt, cl_f is followed by an update).
IndexOrder ==
  /\ IsSorted(eligible, LAMBDA a, b : cl[a].e <= cl[b].e)
  /\ \A p \in Hashed :
       /\ IsSorted(vttree[p], LAMBDA a, b : cl[a].vt <= cl[b].vt)
       /\ IsSorted(cftree[p], LAMBDA a, b : cl[a].f <= cl[b].f)

\* cl_cfmin is the smallest fit-time among the active children, and an
\* active class's fit-time is max(myf, cfmin): the fit-times propagated
\* by init_vf and update_vf "only while they change" are never stale.
FitTimeConsistent ==
  /\ \A p \in Hashed :
       cl[p].cfmin = IF cftree[p] = <<>> THEN 0 ELSE cl[Head(cftree[p])].f
  /\ \A c \in live :
       Contains(vttree[Parent[c]], c) => cl[c].f = MaxOf(cl[c].myf, cl[c].cfmin)

\* Upper-limit containment: an active class with an upper-limit curve
\* never has a fit-time before its upper-limit curve at its total work.
UpperLimitContainment ==
  \A c \in live :
    USC \in cl[c].flags /\ Contains(vttree[Parent[c]], c)
      => cl[c].f >= rtsc_y2x(cl[c].ulimit, cl[c].total)

\* The hierarchy level of every class is 0 for a class without children
\* and 1 + the largest child level otherwise, after any creation or
\* deletion (hfsc_adjust_levels).
LevelInvariant ==
  \A c \in Hashed :
    cl[c].level = IF Children(c) = {} THEN 0
                  ELSE 1 + FoldSet(MaxOf, 0, {cl[x].level : x \in Children(c)})

\* Deadlines of successive packets of a backlogged real-time class do not
\* decrease across dequeues (update_ed / update_d).
DeadlineMonotone ==
  [][\A c \in Hashed :
       (RSC \in cl[c].flags /\ q[c] # <<>> /\ q'[c] # <<>>
        /\ (DequeueRealTime \/ DequeueLinkShare))
         => cl'[c].d >= cl[c].d]_vars

\* c is linked in its parent's vt tree.
LinkShareActive(c) == c \in live /\ Contains(vttree[Parent[c]], c)

\* Within one backlog period the virtual time of an active class never
\* decreases: update_vf recomputes it from the virtual curve, offset by
\* cl_vtoff and raised by cl_vtadj, and init_vf's comment asks that "vt of
\* the class" not decrease while the parent's period is unchanged.
VirtualTimeMonotone ==
  [][\A c \in Classes :
       (LinkShareActive(c) /\ LinkShareActive(c)'
        /\ cl'[c].vtperiod = cl[c].vtperiod)
         => cl'[c].vt >= cl[c].vt]_vars

\* Points past the activation time at which two runtime curves are compared:
\* the first segment of the model's concave curve (dx = 2) and beyond it.
EnvelopeSpan == 0..6

\* The smaller of two integers.
Lower(a, b) == IF a <= b THEN a ELSE b

\* When a real-time class becomes backlogged, init_ed takes its new deadline
\* curve from rtsc_min, whose comment promises "the minimum of the current
\* runtime service curve and the service curve starting at (x, y)": at every
\* point the new curve is the lower of the old deadline curve and the
\* real-time curve anchored at (cur_time, cl_cumul).  The intersection is
\* found through the u32 dsm division and rounded, and the offset of a
\* first segment still running is added.
DeadlineEnvelope ==
  [][\A c \in Classes :
       (q[c] = <<>> /\ q'[c] # <<>> /\ RSC \in cl[c].flags)
         => \A x \in EnvelopeSpan :
              rtsc_x2y(cl'[c].deadline, now + x)
                = Lower(rtsc_x2y(cl[c].deadline, now + x),
                        rtsc_x2y(rtsc_init(cl[c].rsc, now, cl[c].cumul), now + x))]_vars
\* A class is served by the real-time criterion (its cl_cumul grows) only
\* when its eligible curve has reached cl_cumul by the current time, up to
\* the one clock tick that the rounding of seg_y2x may make a packet
\* eligible early: real-time service never runs ahead of the eligible
\* curve that update_ed and init_ed project through rtsc_y2x.
RealTimeWithinEligible ==
  [][\A c \in Classes :
       cl'[c].cumul > cl[c].cumul
         => rtsc_x2y(cl[c].eligible, now + 1) >= cl[c].cumul]_vars
\* In state s at time t, hfsc_dequeue finds a class by one of its two
\* criteria (eltree_get_mindl or vttree_get_minvt).
Sendable(s, t) ==
  eltree_get_mindl(s, t) # NoClass \/ vttree_get_minvt(s, t).cls # NoClass

\* When hfsc_dequeue finds no class and throttles, hfsc_schedule_watchdog
\* arms the timer for a non-zero time (the ASSERT at line 1488), and no
\* earlier time up to the clock bound would have let either criterion pick
\* a class: the watchdog never wakes the device later than the first
\* moment a packet could be sent.
WatchdogNotLate ==
  [][DequeueThrottled =>
       /\ wdtimer' # 0
       /\ \A t \in now..Lower(wdtimer' - 1, MaxTime) : ~Sendable(St', t)]_vars
=============================================================================
