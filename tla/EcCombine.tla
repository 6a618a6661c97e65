------------------------------ MODULE EcCombine ------------------------------
(***************************************************************************)
(* Answer combination of the glusterfs disperse (erasure coding)          *)
(* translator, xlators/cluster/ec/src/ec-combine.c.                        *)
(*                                                                         *)
(* A fop is wound to some bricks; each brick's callback calls ec_combine   *)
(* with its answer (cbk).  Under fop->lock the answer is compared with     *)
(* the groups already formed (fop->cbk_list, kept ordered by decreasing    *)
(* count); it joins the first group it matches, becoming that group's new  *)
(* head (newcbk->next chains to the old one), and is moved up the list by  *)
(* its new count.  When every wound brick has answered and the biggest     *)
(* group has fewer than fop->minimum answers, the callback winds the fop   *)
(* to one more brick after the unlock (ec_dispatch_next).                  *)
(*                                                                         *)
(* A brick is its index idx; an answer is a record of the fields the       *)
(* comparison and the iatt merge read.  The iatt array of a fop is         *)
(* represented by one entry.                                               *)
(***************************************************************************)
EXTENDS Integers, Sequences, SequencesExt, FiniteSets, FiniteSetsExt

CONSTANTS N,          \* ec->nodes
          Minimum,    \* fop->minimum
          Answers,    \* the answers a brick may send
          FopId,      \* fop->id
          NIL,        \* NULL
          MISSING,    \* EC_MISSING_DATA
          SEP         \* the separator of a concatenated value

Nodes == 0..N-1

\* ec_combine_write: how many iatt entries a write fop compares and merges;
\* 1 stands for the xattr fops, which match without looking at the iatt,
\* and 0 for any other fop, which never matches.
WriteFops == [setxattr |-> 1, write |-> 2, create |-> 3, rename |-> 5]
ASSUME FopId \in DOMAIN WriteFops
Valid == IF FopId \in DOMAIN WriteFops THEN WriteFops[FopId] ELSE 0

VARIABLES
  answer,     \* per brick: the answer it sent, NIL while none arrived
  iatt,       \* per cbk: its iatt, merged with the group it absorbed
  cmask,      \* per cbk: cbk->mask
  count,      \* per cbk: cbk->count
  next,       \* per cbk: cbk->next
  cbk_list,   \* fop->cbk_list: the heads of the groups, in list order
  received,   \* fop->received
  remaining,  \* fop->remaining: bricks the fop was not wound to yet
  locked,     \* the fop holds the inode lock of the iatt (ec_iatt_is_trusted)
  wake,       \* callbacks that found needed > 0 and will call ec_dispatch_next
  arrival     \* history: the bricks in the order their callbacks took fop->lock

vars == <<answer, iatt, cmask, count, next, cbk_list, received, remaining,
          locked, wake, arrival>>

Iatt == [uid : {a.uid : a \in Answers}, blocks : Nat,
         sec : {a.sec : a \in Answers}, nsec : {a.nsec : a \in Answers}]

IattOf(a) == [uid |-> a.uid, blocks |-> a.blocks, sec |-> a.sec, nsec |-> a.nsec]

\* fop->mask ^ fop->remaining: the bricks the fop was wound to.
Wound == Nodes \ remaining

TypeOK ==
  /\ answer \in [Nodes -> Answers \cup {NIL}]
  /\ iatt \in [Nodes -> Iatt]
  /\ cmask \in [Nodes -> SUBSET Nodes]
  /\ count \in [Nodes -> 0..N]
  /\ next \in [Nodes -> Nodes \cup {NIL}]
  /\ cbk_list \in Seq(Nodes)
  /\ received \subseteq Nodes /\ remaining \subseteq Nodes
  /\ locked \in BOOLEAN
  /\ wake \subseteq Nodes
  /\ arrival \in Seq(Nodes)

\* The fop is first wound to between fop->minimum and all of the bricks:
\* ec-common.c (not in this tree) winds a write to every brick at once
\* (ec_dispatch_all) and a read or lookup to the minimum (ec_dispatch_min).
\* Whether the fop holds the inode lock is fixed for its lifetime.
Init ==
  /\ answer = [i \in Nodes |-> NIL]
  /\ iatt = [i \in Nodes |-> IattOf(CHOOSE a \in Answers : TRUE)]
  /\ cmask = [i \in Nodes |-> {}]
  /\ count = [i \in Nodes |-> 0]
  /\ next = [i \in Nodes |-> NIL]
  /\ cbk_list = <<>>
  /\ received = {}
  /\ \E k \in Minimum..N : \E first \in kSubset(k, Nodes) : remaining = Nodes \ first
  /\ locked \in BOOLEAN
  /\ wake = {}
  /\ arrival = <<>>
-----------------------------------------------------------------------------
\* Mutant: the nanoseconds are not compared.
ec_iatt_time_merge_sec(d, s) ==
  IF d.sec < s.sec THEN [d EXCEPT !.sec = s.sec, !.nsec = s.nsec] ELSE d

\* ec_iatt_time_merge: keep the later of two (sec, nsec) times.
ec_iatt_time_merge(d, s) ==
  IF d.sec < s.sec \/ (d.sec = s.sec /\ d.nsec < s.nsec)
  THEN [d EXCEPT !.sec = s.sec, !.nsec = s.nsec]
  ELSE d

\* ec_iatt_is_trusted: lookups always, other fops when they hold the lock
\* of the inode the iatt describes.
ec_iatt_is_trusted == FopId = "lookup" \/ locked

\* ec_iatt_combine: the basic fields (ino, rdev, gfid) are compared by the
\* answers' other fields; uid, gid and mode must match only when the iatt
\* is trusted.  On success the blocks are added and the times merged.
IattMatches(d, s) == ~ec_iatt_is_trusted \/ d.uid = s.uid

IattMerge(d, s) ==
  ec_iatt_time_merge([d EXCEPT !.blocks = d.blocks + s.blocks], s)

\* Mutant: op_errno is compared whatever op_ret is.
ec_combine_check_errno(n, ni, c) ==
  /\ n.ret = answer[c].ret
  /\ n.errno = answer[c].errno
  /\ n.xdata = answer[c].xdata
  /\ n.ret >= 0 => /\ Valid > 0
                   /\ Valid > 1 => IattMatches(ni, iatt[c])

\* ec_combine_check(dst, src, combine) with combine = ec_combine_write:
\* a new answer n (with iatt ni) against the group headed by c.
ec_combine_check(n, ni, c) ==
  /\ n.ret = answer[c].ret
  /\ n.ret < 0 => n.errno = answer[c].errno
  /\ n.xdata = answer[c].xdata
  /\ n.ret >= 0 => /\ Valid > 0
                   /\ Valid > 1 => IattMatches(ni, iatt[c])
\* ec_dict_list for the group headed by c: per brick, NIL when it is
\* outside the group (and the list is not global), MISSING when no answer
\* of it carries the key (i not in has), else the brick's own value,
\* written as the brick index i.
ec_dict_list(c, global, has) ==
  [i \in Nodes |-> IF ~global /\ i \notin cmask[c] THEN NIL
                   ELSE IF i \in received \cap has THEN i ELSE MISSING]

\* The cbks reached from c through cbk->next.
RECURSIVE ChainFrom(_)
ChainFrom(c) == IF c = NIL THEN {} ELSE {c} \cup ChainFrom(next[c])

\* ec_dict_data_uuid (single node uuid): the brick whose answer gives the
\* value, the lowest idx met walking cbk->next from the head c.
ec_dict_data_uuid(c) == Min(ChainFrom(c))

\* ec_dict_data_concat of a list with default def (NIL for none), between
\* the prefix and the suffix of the format: the values in brick order
\* (def for a missing one) and separators.  num is one less than the
\* number of values taken; the second loop writes a separator after the
\* value of brick i when i < num.
ec_dict_data_concat(list, def) ==
  LET Taken(i) == list[i] # NIL /\ (list[i] = MISSING => def # NIL)
      num == Cardinality({i \in Nodes : Taken(i)}) - 1
      Val(i) == IF list[i] = MISSING THEN def ELSE list[i]
      RECURSIVE Body(_)
      Body(i) == IF i = N THEN <<>>
                 ELSE IF ~Taken(i) THEN Body(i + 1)
                 ELSE <<Val(i)>> \o (IF i < num THEN <<SEP>> ELSE <<>>) \o Body(i + 1)
  IN Body(0)

-----------------------------------------------------------------------------
\* The first group of fop->cbk_list that the answer matches, 0 if none
\* (list_for_each_entry ... ec_combine_check ... break).
FirstMatch(a) == SelectInSeq(cbk_list, LAMBDA c : ec_combine_check(a, IattOf(a), c))

\* A new answer starting a group of its own.
Fresh(i) == [mask |-> {i}, count |-> 1, next |-> NIL]

\* Mutant: newcbk->mask |= cbk->mask is missing.
Absorb_nomask(i, c) == [mask |-> {i}, count |-> 1 + count[c], next |-> c]

\* Mutant: newcbk->next = cbk is missing.
Absorb_nonext(i, c) == [mask |-> {i} \cup cmask[c], count |-> 1 + count[c], next |-> NIL]

\* The new answer absorbing the group headed by c: it adds the count and
\* the mask and chains to the old head.
Absorb(i, c) == [mask |-> {i} \cup cmask[c], count |-> 1 + count[c], next |-> c]

\* Mutant: the walk back never stops early (the count test of line 967
\* lost), so a grown group always moves to the head of the list.
InsertAfter_tohead(m, cnt) == 0

\* The walk back from the matched group at position m: item ends at the
\* last group before it whose count is at least the new count, 0 being
\* the list head.
InsertAfter(m, cnt) == SelectLastInSubSeq(cbk_list, 1, m - 1, LAMBDA g : count[g] >= cnt)

\* Mutant: fop->mask is compared with fop->received, forgetting the bricks
\* never wound to.
Needed_mask(rcvd, headcnt) == IF Nodes = rcvd THEN Minimum - headcnt ELSE 0

\* needed: once every brick wound to has answered, how many answers the
\* biggest group lacks.
Needed(rcvd, headcnt) == IF Wound = rcvd THEN Minimum - headcnt ELSE 0

\* ec_combine, called from brick i's callback with its answer a: the whole
\* LOCK ... UNLOCK section, then the dispatch decision.
ec_combine(i, a) ==
  LET m   == FirstMatch(a)
      c   == cbk_list[m]
      new == IF m = 0 THEN Fresh(i) ELSE Absorb(i, c)
      lst == IF m = 0 THEN cbk_list ELSE RemoveAt(cbk_list, m)
      pos == IF m = 0 THEN Len(cbk_list) ELSE InsertAfter(m, new.count)
      newlist == InsertAt(lst, pos + 1, i)
      headcnt == IF newlist[1] = i THEN new.count ELSE count[newlist[1]]
  IN
  /\ answer' = [answer EXCEPT ![i] = a]
  /\ received' = received \cup {i}
  /\ cmask' = [cmask EXCEPT ![i] = new.mask]
  /\ count' = [count EXCEPT ![i] = new.count]
  /\ next' = [next EXCEPT ![i] = new.next]
  /\ iatt' = [iatt EXCEPT ![i] = IF m > 0 /\ a.ret >= 0 /\ Valid > 1
                                 THEN IattMerge(IattOf(a), iatt[c]) ELSE IattOf(a)]
  /\ cbk_list' = newlist
  /\ wake' = IF Needed(received \cup {i}, headcnt) > 0 THEN wake \cup {i} ELSE wake
  /\ arrival' = Append(arrival, i)
  /\ UNCHANGED <<remaining, locked>>

\* Brick i answers: every brick the fop was wound to calls back, with an
\* error when it is down.
Answer(i) ==
  /\ i \in Wound \ received
  /\ \E a \in Answers : ec_combine(i, a)

\* ec_dispatch_next after the unlock: wind the fop to one more brick, if
\* one is left (ec-common.c; which one it takes is left open).
Dispatch(i) ==
  /\ i \in wake
  /\ wake' = wake \ {i}
  /\ \/ \E j \in remaining : remaining' = remaining \ {j}
     \/ remaining = {} /\ UNCHANGED remaining
  /\ UNCHANGED <<answer, iatt, cmask, count, next, cbk_list, received, locked, arrival>>

Next ==
  \/ \E i \in Nodes : Answer(i)
  \/ \E i \in Nodes : Dispatch(i)

\* Every wound brick calls back (the rpc layer reports a disconnection as
\* an error answer) and a callback that unlocked goes on to dispatch.
Fairness == \A i \in Nodes : WF_vars(Answer(i)) /\ WF_vars(Dispatch(i))

Spec == Init /\ [][Next]_vars /\ Fairness
-----------------------------------------------------------------------------
Heads == {cbk_list[k] : k \in 1..Len(cbk_list)}


\* The group holding brick i's answer.
GroupOf(i) == CHOOSE c \in Heads : i \in cmask[c]

\* Reference: what a client of the fop can observe of an answer: its
\* result, its error when it failed, its xdata, and for a successful write
\* fop its owner when the inode is locked (an unlocked iatt is not
\* trusted).  Fops that never match observe the brick itself.
Observed(a, i) ==
  [ret   |-> a.ret,
   errno |-> IF a.ret < 0 THEN a.errno ELSE NIL,
   xdata |-> a.xdata,
   owner |-> IF a.ret >= 0 /\ Valid > 1 /\ ec_iatt_is_trusted THEN a.uid ELSE NIL,
   brick |-> IF a.ret >= 0 /\ Valid = 0 THEN i ELSE NIL]

LaterThan(a, b) == a.sec > b.sec \/ (a.sec = b.sec /\ a.nsec > b.nsec)

\* Every answer received is counted in exactly one group of cbk_list:
\* the groups' masks split fop->received and each count is its mask's
\* size (ec_combine moves count and mask together and unlinks the
\* absorbed head).
GroupAccounting ==
  /\ \A k, l \in 1..Len(cbk_list) : k # l => cmask[cbk_list[k]] \cap cmask[cbk_list[l]] = {}
  /\ UNION {cmask[c] : c \in Heads} = received
  /\ \A c \in Heads : count[c] = Cardinality(cmask[c])

\* When brick i's callback took fop->lock.
ArrivedAt(i) == CHOOSE k \in 1..Len(arrival) : arrival[k] = i

\* fop->cbk_list stays ordered by decreasing count, so its first entry is
\* the biggest group, the one ec_combine's needed test and the fop's
\* answer use; between groups of equal count, the one whose head answered
\* first stays ahead (the walk back stops at a count >= the new one).
ListOrdered ==
  \A k, l \in 1..Len(cbk_list) : k < l =>
     LET g == cbk_list[k]
         h == cbk_list[l]
     IN count[g] > count[h] \/ (count[g] = count[h] /\ ArrivedAt(g) < ArrivedAt(h))

\* The cbk->next chain of a head reaches exactly the answers of its group,
\* so the node uuid ec_dict_data_uuid reports for a group is the one of
\* the lowest brick in its mask.
ChainIsGroup ==
  \A c \in Heads : ChainFrom(c) = cmask[c] /\ ec_dict_data_uuid(c) = Min(cmask[c])

\* Whatever order the bricks answer in, two answers share a group exactly
\* when they agree: ec_combine joins only the first group that matches,
\* so a relation that is not an equivalence, or a comparison with the
\* head's merged iatt instead of an answer, would split or mix groups.
GroupsAreClasses ==
  \A i, j \in received : i # j => (GroupOf(i) = GroupOf(j) <=> Observed(answer[i], i) = Observed(answer[j], j))

\* The head of a successful write group carries the iatt merged from all
\* its answers: the blocks added up and the latest (sec, nsec) times.
IattMerged ==
  \A c \in Heads : answer[c].ret >= 0 /\ Valid > 1 =>
     /\ iatt[c].blocks = MapThenSumSet(LAMBDA m : answer[m].blocks, cmask[c])
     /\ \A m \in cmask[c] : ~LaterThan(answer[m], iatt[c])
     /\ \E m \in cmask[c] : answer[m].sec = iatt[c].sec /\ answer[m].nsec = iatt[c].nsec

\* Reference: the values of a list, in brick order, one separator
\* between two consecutive values.
Joined(list, def) ==
  LET vals == SelectSeq([k \in 1..N |-> list[k - 1]], LAMBDA v : v # NIL /\ (v = MISSING => def # NIL))
      tok(k) == IF vals[k] = MISSING THEN def ELSE vals[k]
  IN FoldLeft(LAMBDA acc, k : acc \o (IF k = 1 THEN <<>> ELSE <<SEP>>) \o <<tok(k)>>,
              <<>>, [k \in 1..Len(vals) |-> k])

\* A concatenated key (pathinfo, the clear-locks report) of a successful
\* group lists the value of each brick of the group with one separator
\* between two values, whichever bricks the group holds.
ConcatJoined ==
  \A c \in Heads : answer[c].ret >= 0 =>
     LET l == ec_dict_list(c, FALSE, {i \in received : answer[i].ret >= 0})
     IN ec_dict_data_concat(l, NIL) = Joined(l, NIL)

\* The fop does not stall: eventually every brick wound to has answered,
\* no dispatch is pending, and either the biggest group reaches
\* fop->minimum or no brick is left to try.
Decides ==
  <>[](/\ Wound = received /\ wake = {} /\ cbk_list # <<>>
       /\ (count[cbk_list[1]] >= Minimum \/ remaining = {}))
=============================================================================
