# TLA+ models of the H-FSC packet scheduler, the glusterfs snapshot-list refresh and erasure-coding answer combination, the netfilter logger registry, and the aufs example filesystem

This directory holds TLA+ models of the code under `src/`, the TLC
configurations that check them, and `PROJECT.json`, which records every run,
every seeded fault, the source lines each definition translates, the findings
and the hazards.

## 1. Inventory of `src/`

| part | file | what it is | modelled |
|---|---|---|---|
| H-FSC scheduler | `src/3rd/linux-2.6.14/.../net/sched/sch_hfsc.c` (1823 lines) | hierarchical fair service curve packet scheduler (the component `spec.md` describes) | yes: `HfscCurve`, `Hfsc` |
| netfilter logger registry | `net/netfilter/nf_log.c` | per-protocol logger slots, spinlock writers, RCU readers | yes: `NfLog` |
| snapview-server snapshot list | `glusterfs/.../snapview-server-mgmt.c` | snapshot list refreshed by RPC callbacks under a lock | yes: `SnapviewMgmt`, refining `SnapCache` |
| EC answer combination | `glusterfs/.../ec-combine.c` | groups matching answers of an erasure-coded fop | partly: `EcCombine` (grouping, iatt merge, node-uuid and concatenated values) |
| aufs | `src/aufs/aufs.c` | example in-memory filesystem module over VFS helpers (a copy of debugfs) | yes: `Aufs` (load, unload, tree creation, write handler; the VFS as environment) |
| ieee80211 glue, auth_null, sound tables, emu10k1 probe, cs461x firmware image, objsec.h, kmap_types.h | | glue, constant encodings, data tables, declarations | no: no behaviour to check |

### 1.1 The H-FSC scheduler

State (`struct hfsc_sched`, `struct hfsc_class`):

* the class hierarchy: the root class embedded in the scheduler, classes in a
  hash, each with a parent, children, a level (0 = leaf), curve flags and the
  real-time (`rsc`), link-sharing (`fsc`) and upper-limit (`usc`) curves;
* per-class runtime curves (deadline, eligible, virtual, ulimit) and the
  scheduling quantities `cl_e`, `cl_d`, `cl_vt`, `cl_f`, `cl_myf`,
  `cl_cfmin`, `cl_cvtmin`, `cl_cvtmax`, `cl_cvtoff`, `cl_vtoff`, `cl_vtadj`,
  `cl_nactive`, the period counters, `cl_total` and `cl_cumul`;
* three kinds of ordered index: the global eligible tree (key `cl_e`), and per
  interior class a vt tree (key `cl_vt`) and a cf tree (key `cl_f`);
* the drop list of active leaves, the requeue list, `sch->q.qlen`, the
  watchdog timer and the `TCQ_F_THROTTLED` flag.

Operations: `hfsc_enqueue` (classify, leaf pfifo, `set_active` on the first
packet), `hfsc_dequeue` (requeued packet, else real-time by minimum deadline
among eligible classes, else link-sharing by the first-fit descent of the vt
trees, else arm the watchdog), `hfsc_requeue`, `hfsc_drop`, the watchdog,
`hfsc_reset_qdisc`, and the configuration handlers `hfsc_change_class`
(create or change), `hfsc_delete_class` and `hfsc_graft_class`. The walks
`init_vf` (activation, leaf to root) and `update_vf` (service and
deactivation, leaf to root) keep the vt/cf trees, `cl_nactive` and the
fit-times of all ancestors consistent; `init_ed`/`update_ed`/`update_d`
keep the eligible tree and deadlines.

Interaction: every handler runs under `dev->queue_lock` (configuration under
`sch_tree_lock`, the same lock), so handlers are atomic with respect to each
other; the watchdog timer is the only asynchronous entry and it only clears a
flag and reschedules the device. What is hard is therefore not thread
interleaving inside a handler but long sequences of handlers — reconfiguration
while backlogged, periods of activity and idleness, deletion and creation —
and the u64 fixed-point arithmetic of the curves.

## 2. Modules

* `HfscCurve.tla` — the curve arithmetic (sch_hfsc.c 440-666): `seg_x2y`,
  `seg_y2x`, `m2sm`, `m2ism`, `d2dx`, `sc2isc`, `rtsc_init`, `rtsc_y2x`,
  `rtsc_x2y`, `rtsc_min`. Every u64 is an integer modulo `2^WIDTH` and the u32
  `dsm` of `rtsc_min` modulo `2^WIDTH32`, so wrap-around and truncation happen
  as in the code at a width TLC can enumerate. `SM_SHIFT`/`ISM_SHIFT` are
  constants (20/18 in the code; 2/2 in the runs).
* `Hfsc.tla` — the scheduler. Its variables are the fields above. A handler
  transforms one record `St` of the index-carrying state and commits it
  (`Commit`), so that a whole handler — including the walks and the trailing
  `set_active`/`set_passive`/`update_ed` — is one action, as under the queue
  lock. The definitions keep the code's names: `eltree_insert`,
  `vttree_insert`, `update_cfmin`, `init_vf` (walk `init_vf_walk`, go_active
  branch `vf_activate`), `update_vf` (walk `update_vf_walk`, go_passive branch
  `vf_deactivate`, service branch `vf_reschedule`), `set_active`,
  `set_passive`, `hfsc_purge_queue`, `hfsc_adjust_levels`,
  `hfsc_change_rsc/fsc/usc`, `hfsc_classify`, `vttree_get_minvt`,
  `hfsc_schedule_watchdog`, `hfsc_reset_class`. Actions: `CreateClass`,
  `ChangeClass`, `DeleteClass`, `GraftClass`, `Enqueue`, the four outcomes of
  `hfsc_dequeue` (`DequeueRequeued`, `DequeueRealTime`, `DequeueLinkShare`,
  `DequeueThrottled`), `Watchdog`, `Transmit` and `Requeue` (the device),
  `Drop`, `Reset` and `Tick` (the clock).
* `MCHfsc.tla` — model values and curves for TLC: classes `A`, `B`, `I`,
  three curves (`Concave` m1=2,d=2,m2=1; `Linear1`; `Linear2`), hierarchies
  (root–I–{A,B}; flat root–{A,B}; a single leaf) and the curve sets used by
  each run.

A red-black tree is a sequence in tree order; insertion goes after every
entry whose key is `<=` the new key, as the rb descent goes right on `>=`, so
ties and the first-fit scans (`eltree_get_mindl`, `vttree_firstfit`) see the
same order as the code. `rb_erase` of a node that was never linked (zeroed
by `memset`) sets the tree's root to NULL; `eltree_remove` models exactly
that.

Data abstraction: a packet is its length (`Lens = {1, 2}`); classids, the
hash, filters, estimators, statistics and netlink dumps are left out; the
leaf qdisc is a pfifo of limit `QLimit` (drop from the tail, as
`pfifo_drop`); the clock is an integer in `1..MaxTime` (PSCHED never reads
0) with `CLK = USEC = 1`.

### 2.1 The snapview-server snapshot list (`SnapviewMgmt`, `SnapCache`)

The translator keeps `priv->dirents`, one entry per snapshot (name, uuid,
and a `glfs_t` handle `fs` created on first use by
`svs_initialize_snapshot_volume`, in another file). The list is refreshed
from glusterd in two cases:
- when `priv->rpc` connects (`svs_rpc_notify`);
- on each GETSNAPS callback glusterd sends after a snapshot change
  (`mgmt_cbk_snap`).

Both call `svs_get_snapshot_list`, which sends a request on `ctx->mgmt`
through `svs_mgmt_submit_request`. The reply runs `mgmt_get_snapinfo_cbk`.

`SnapviewMgmt.tla` state:

| variable | code |
|---|---|
| `dirents` | `priv->dirents` / `num_snaps` |
| `req[r].pc` | where request r is: at glusterd, reply on the wire, callback built / swapped / done |
| `req[r].old` | the `old_dirents` a callback still has to finalise |
| `frames` | call frames alive |
| `fini` | handles passed to `glfs_fini` |
| `fsof` | for each handle, the snapshot it was created for |
| `hist` | glusterd's list, as its history |
| `installed` | the position in `hist` of the installed list |

Actions:
- `svs_rpc_notify`, `mgmt_cbk_snap`, `svs_get_snapshot_list` and
  `svs_mgmt_submit_request`, each with its failure paths.
- The callback as three steps:
  - `CbkBuild`: decode the reply and build the new array, or fail;
  - `CbkSwap`: the `snaplist_lock` section, which moves handles through
    `SameSnap`, `TransferFs` and `ReleaseFs`;
  - `CbkFini`: `glfs_fini` on the old array and destroy the frame.
- The environment:
  - glusterd changes the snapshots (`SnapCreate`, `SnapDelete`; uuids are
    never reused) and answers requests in order (`ServerAnswer`);
  - the rpc layer drops `priv->rpc` (`Disconnect`; pending callbacks are
    lost);
  - `InitFs` gives an entry a handle.

Two constants select the behaviour of code outside the file:
- `Failures`: allocation, rpc and decode errors happen;
- `ConcurrentCbk`: the transport may run two reply callbacks at once.

`SnapCache.tla` is the abstract promise. The cache shows a list glusterd
really had, never older than the one it showed before. `SnapviewMgmt`
implements it through `INSTANCE SnapCache WITH shown <- installed,
cache <- SnapsOf(dirents)`.

### 2.2 The netfilter logger registry (`NfLog`)

`nf_logging[pf]` is written under `nf_log_lock` and read under RCU.

`NfLog.tla` state:

| variable | meaning |
|---|---|
| `cpu[c]` | CPU c's read-side section: a `nf_log_packet` holding the logger it dereferenced, or a proc-file reader at `pos` |
| `mod[l]` | logger module l: loaded, exiting (inside `synchronize_net`) or freed |
| `gp[w]` | the CPUs waiter w's grace period still waits for |

Actions:
- `nf_log_register` takes an empty slot (the -EBUSY/-EEXIST returns change
  nothing).
- `nf_log_unregister_pf` (by an unbinder thread, like nfnetlink_log's
  PF_UNBIND) and `nf_log_unregister_logger` (by a module on exit) clear slots
  and enter `synchronize_net` (`StartSync`).
- `SyncDone` returns from `synchronize_net` and frees an exiting module.
- `PacketDeref`/`PacketLog` are `nf_log_packet`.
- `ProcStart`, `ProcShow` (`seq_show` + `seq_next`) and `ProcStop` are the
  seq_file iterator.
- `-EINVAL` for `pf >= NPROTO` is left out: every `pf` the model passes is
  valid.

### 2.3 Erasure-coding answer combination (`EcCombine`)

A disperse fop is first wound to between `fop->minimum` and all of the
bricks: ec-common.c, which is not in this tree, winds a write to every
brick at once (`ec_dispatch_all`) and a read to the minimum
(`ec_dispatch_min`). Each brick's
callback calls `ec_combine` with its answer. Under `fop->lock`:
- the answer is compared (`ec_combine_check`) with the head of each group in
  `fop->cbk_list`, in list order;
- it absorbs the first group it matches (`Absorb`: count and mask added,
  `newcbk->next` chained to the old head), and is moved up the list while it
  outnumbers the groups before it (`InsertAfter`);
- if every brick wound to has answered and the biggest group has fewer than
  `fop->minimum` answers (`Needed`), the callback winds the fop to one more
  brick after the unlock.

`EcCombine.tla` state:

| variable | code |
|---|---|
| `answer[i]` | the answer brick i sent (op_ret, op_errno, xdata, its iatt) |
| `iatt[i]`, `cmask[i]`, `count[i]`, `next[i]` | cbk i's iatt (merged with the group it absorbed), `mask`, `count`, `next` |
| `cbk_list` | `fop->cbk_list`, the group heads in list order |
| `received`, `remaining` | `fop->received`, `fop->remaining` (`fop->mask` is every brick) |
| `locked` | whether the fop holds the inode lock (`ec_iatt_is_trusted`) |
| `wake` | callbacks that found `needed > 0` and will call `ec_dispatch_next` |

Actions:
- `Answer(i)` is brick i's callback running `ec_combine`, the whole locked
  section.
- `Dispatch(i)` is `ec_dispatch_next`. It lives in ec-common.c, which is not
  in this tree, so which remaining brick it takes is left open.

The comparison is `ec_combine_check` with `ec_combine_write` as the combine
function. It uses `ec_iatt_combine` with the trusted test and
`ec_iatt_time_merge`. The iatt array is one entry, holding uid (standing for
uid, gid and mode), blocks and a (sec, nsec) time. `ec_dict_list`,
`ec_dict_data_uuid` and `ec_dict_data_concat` are operators over a group.
A concatenated value is its sequence of brick values and separators; the
format's prefix and suffix are left out.

### 2.4 The aufs filesystem module (`Aufs`)

`aufs_init` registers `aufs_type` and takes a kernel mount (`kern_mount`).
It then creates two directories at the root, `woman_star` and `man_star`,
and three files under each. Each creation goes down the same chain:
- `aufs_create_file` calls `aufs_create_by_name`;
- `aufs_create_by_name` calls `lookup_one_len`, then `aufs_mkdir` or
  `aufs_create`;
- these call `aufs_mknod`, which calls `aufs_get_inode`.

A directory's `pslot` is the parent of the files that follow it. It is NULL
when the directory's creation failed. `aufs_exit` drops the kernel mount and
unregisters the type. User mounts reach the module through `aufs_type`:
`aufs_get_sb` calls `mount_single`, and the umount of the last mount calls
`kill_litter_super`.

The VFS is not in the repository. The model gives each VFS call the effect
the module relies on:
- `lookup_one_len` returns the cached dentry with one more reference, or a
  new negative dentry with one reference, or (`LookupMayFail`) an error
  pointer;
- `new_inode` may fail, at most `MaxAllocFailures` times per load;
- `register_filesystem` and `kern_mount` may fail (`RegisterMayFail`,
  `MountMayFail`);
- `kill_litter_super` drops one reference of every positive dentry.

Every insmod attempt is numbered (`gen`). The superblock it creates carries
that number, so a user mount can outlive the module instance that created
its superblock.

| variable | code |
|---|---|
| `module` | the module's state: unloaded, live, or oopsed inside `aufs_init` |
| `registered` | `aufs_type` on the filesystem list |
| `aufs_mount` | the static `aufs_mount`: NULL, an error pointer, or the number of its superblock |
| `dcache[g]` | the dentries of superblock g by name: parent, inode kind, `d_count`, `i_nlink` |
| `alive[g]`, `umounts[g]` | superblock g not yet killed; its user mounts |
| `enabled` | the static `enabled` of the loaded instance |

Actions:
- `aufs_init` is the whole of `aufs_init`. It has three outcomes: a failed
  register, a failed kern_mount, or the creation walk. The walk is
  `CreateTree`, a recursive operator over the eight calls. It takes the
  set of calls whose `new_inode` fails, and the call at which
  `lookup_one_len` returns an error pointer. That call passes the wrong
  `IS_ERR` test and is dereferenced, so it is an oops.
- `aufs_exit`, `UserMount`, `UserUmount(g)`.
- `aufs_file_write(g, byte)`.
- `aufs_file_read` only formats `enabled` into the user buffer. It changes
  no state and is left out.

## 3. Properties

* `TypeOK` — the type of every variable (`qlen` at most the packets offered).
* `QlenAccounting` — `sch->q.qlen` equals the packets in the leaf queues plus
  the requeue list, across enqueue, dequeue, drop, purge on create, delete
  and graft, requeue and reset.
* `RealTimeIndexExact` — the eligible tree holds, once each, exactly the
  backlogged classes with a real-time curve.
* `LinkShareIndexExact` — a class is in its parent's vt and cf trees iff a
  link-sharing leaf at or below it is backlogged, `cl_nactive` counts the
  active children, and a vt tree holds only children, without duplicates.
* `IndexOrder` — every tree is in key order (no key changes while linked).
* `FitTimeConsistent` — `cl_cfmin` is the fit-time at the head of the cf
  tree, and an active class has `f = max(myf, cfmin)`.
* `UpperLimitContainment` — an active class with an upper-limit curve has a
  fit-time no earlier than its ulimit curve at its total work (spec §8).
* `LevelInvariant` — level = 0 for a childless class, else 1 + max child
  level (spec §8).
* `DeadlineMonotone` (action) — a backlogged real-time class's deadline does
  not decrease across dequeues (spec §8, "monotonic eligibility").
* `DeadlineEnvelope` (action) — when a real-time class becomes backlogged,
  its new deadline curve is, at every point of the next 7 clock values, the
  lower of its old deadline curve and its real-time curve anchored at
  (`cur_time`, `cl_cumul`). This is what `rtsc_min`'s comment promises. It
  exercises the rounded intersection through the u32 `dsm` division
  (line 651).
* `RealTimeWithinEligible` (action) — a class is served by the real-time
  criterion (its `cl_cumul` grows) only when its eligible curve, one clock
  tick later, has reached `cl_cumul`. The tick allows for the rounding of
  `seg_y2x` at the model's 2-bit shifts. Real-time service never runs ahead
  of the curve that `init_ed` and `update_ed` project through `rtsc_y2x`.
* `WatchdogNotLate` (action) — when `hfsc_dequeue` finds no class and
  throttles, `hfsc_schedule_watchdog` arms a non-zero time (the `ASSERT` at
  line 1488). At no earlier clock value, up to the bound, would either
  criterion have picked a class in the state left behind. An early wake-up
  only costs a dequeue that throttles again, so only lateness is checked.
* `VirtualTimeMonotone` (action) — within one backlog period an active
  class's vt does not decrease (`init_vf`'s comment; `cl_vtadj` exists so that
  a skipped class is not moved back).

Snapview (`SnapviewMgmt`):
* `TypeOK`.
* `HandleOwnership`: every handle not yet finalised is held by exactly one
  entry, counting the installed array and the old arrays still being
  finalised. A finalised handle is held by none. So no handle leaks, none is
  finalised twice, and none is finalised while installed.
* `HandleMatchesSnap`: an entry's handle was created for that entry's
  snapshot (name and uuid). This includes a snapshot deleted and re-created
  under the same name.
* `FrameAccounting`: the live call frames are exactly the requests in
  flight. No run checks it. The passing runs have no failing submit, and
  there it would only restate the create and destroy of the frame.
  Section 5 shows how to reproduce its violation.
* `Converges` (temporal): once glusterd stops changing snapshots, the cached
  list becomes and stays glusterd's list.
* `CacheRefinement` (temporal): `SnapCache!Spec`.

Logger registry (`NfLog`):
* `TypeOK`.
* `NoUseAfterFree`: a logger a CPU dereferenced inside a read-side section
  is not freed before that section ends.

Erasure-coding answer combination (`EcCombine`):
* `GroupAccounting`: the masks of the groups in `cbk_list` split
  `fop->received`, and each group's count is its mask's size.
* `ListOrdered`: `cbk_list` is ordered by decreasing count, so its head is
  the biggest group. Between groups of equal count, the one whose head
  answered first stays ahead, because the walk back stops at line 967.
  `arrival`, a history variable, records the order in which callbacks took
  the lock.
* `ChainIsGroup`: a head's `next` chain reaches exactly its group. The node
  uuid `ec_dict_data_uuid` reports comes from the lowest brick of the group.
* `GroupsAreClasses`: in every arrival order, two answers share a group
  exactly when a client observes the same thing of them (`Observed`): the
  result, the errno on failure, the xdata, and for a successful write under
  the inode lock the owner. A later answer is compared with a group's head,
  whose iatt is already merged; this property shows that this comparison
  still sorts answers by what they are.
* `IattMerged`: the head of a successful group holds the sum of the blocks
  and the latest time of its answers.
* `Decides` (temporal): eventually every wound brick has answered, and
  either the biggest group reaches `fop->minimum` or no brick is left.
* `ConcatJoined`: a concatenated value of a successful group has one
  separator between two brick values. No run checks it; section 5 shows
  how to reproduce its violation.

aufs (`Aufs`):
* `NlinkCount`: on a live superblock, every directory's `i_nlink` is 2 plus
  its subdirectories. This must hold whichever creation failed: `aufs_mkdir`
  raises the parent's count only when `aufs_mknod` succeeded.
* `UnmountClean` (action): when `kill_litter_super` tears a superblock
  down, `d_genocide` has dropped every reference still held. It is violated
  (`aufs_litter`).
* `ModuleLiveWhileUsed`, `FilesInTheirDir`, `NoOops`: a mounted
  superblock belongs to the loaded module instance; every file is in its
  directory; `aufs_init` does not oops. No run checks them; section 5 shows
  how to reproduce their violations.

## 4. Runs

| run | cfg | expect | what it shows |
|---|---|---|---|
| traffic | `MCHfscTraffic.cfg` | pass (72,253 states, ~1.5 min) | root–I–{A,B}, 3 configuration requests, 3 packets, clock 1..2: the two-level walks keep counters, trees, `nactive` and fit-times exact; the watchdog is never armed late |
| flat | `MCHfscFlat.cfg` | pass (89,662 states) | two siblings, A with a concave real-time curve (reaches the intersection branch of `rtsc_min`) compete under both criteria, clock 1..3; a reactivated real-time class gets the envelope of `rtsc_min`; real-time service stays within the eligible curve |
| single | `MCHfscSingle.cfg` | pass (136,698 states) | one leaf, 4 packets, 3 requests: reconfiguration, graft, delete, re-create and reset while backlogged across several backlog periods (reaches the `cl_vtadj` clamp and non-zero `cl_vtoff`) |
| stale_cfmin | `MCHfscStaleCfmin.cfg` | violation of `FitTimeConsistent` | A without upper limit activated under an active I: I's `cfmin` stays stale |
| add_rsc | `MCHfscAddRsc.cfg` | violation of `RealTimeIndexExact` | B (link-sharing only, backlogged) is given a real-time curve while A is in the eligible tree: the tree is erased |
| vt_wrap | `MCHfscVtWrap.cfg` | violation of `VirtualTimeMonotone` | changing B's link-sharing curve in its second backlog period (`cl_vtoff` = 1) wraps `cl_vt` to 2^16-1 |
| snapview_handles | `MCSnapviewHandles.cfg` | pass (246,270 states, ~15 s) | two names, three uuids, two handles, 3 snapshot changes; failures on, callbacks concurrent: the handle hand-over is exact |
| snapview_converge | `MCSnapviewConverge.cfg` | pass (433,103 states, ~1.3 min) | one handle, 3 changes, one disconnect; no failures, callbacks serialised: the cache converges and refines `SnapCache` |
| nflog | `MCNfLog.cfg` | pass (18,348 states, ~6 s) | 2 protocol families, 2 logger modules, 1 unbinder, 2 CPUs: no use after free |
| ec | `MCEcCombine.cfg` | pass (93,670 states, ~30 s) | 4 bricks, minimum 2, a write fop first wound to 2, 3 or 4 bricks, six kinds of answer, inode lock held or not: up to three merges into one group, and ties broken by arrival; grouping, order, chain, merge and progress hold in every arrival order |
| aufs | `MCAufs.cfg` | pass (83,791 states, ~15 s) | up to 3 insmod attempts, each of which may fail in `register_filesystem`, `kern_mount`, `lookup_one_len` or one `new_inode`; user mounts, umounts and writes in between: link counts stay exact |
| aufs_litter | `MCAufsLitter.cfg` | violation of `UnmountClean` | one clean insmod and rmmod: every created dentry still holds its lookup reference when `kill_litter_super` runs |

Every passing-run property has a seeded fault that TLC finds under that
run's own configuration. Each fault is an operator defined just before the
definition it replaces:
- in `Hfsc.tla`: `*_keepqlen`, `*_nounlink`, `*_noreorder`, `*_nomyf`,
  `*_keepel`, `*_nocfmin`;
- in `Hfsc.tla` also `hfsc_dequeue_class_cumulall`, which counts
  link-sharing service in `cl_cumul`, and `hfsc_schedule_watchdog_cffirst`,
  which takes the root's cfmin even when an eligible time comes first;
- in `HfscCurve.tla`: `rtsc_min_dsm`, which divides by `sm1` instead of the
  slope difference;
- in `SnapviewMgmt.tla`: `*_destroy`, `*_keep`, `*_nameonly`,
  `*_skipempty`, `*_keepheld`;
- in `NfLog.tla`: `*_nosync`, `*_offbyone`;
- in `EcCombine.tla`: `Absorb_nomask`, `Absorb_nonext`, `InsertAfter_tohead` (the walk back never stops),
  `Needed_mask`, `ec_combine_check_errno`, `ec_iatt_time_merge_sec`;
- in `Aufs.tla`: `aufs_mkdir_always`, which raises the parent's nlink even
  when `aufs_mknod` failed, and `aufs_file_write_raw`, which stores `res`
  instead of 0 or 1.

`PROJECT.json` lists them.

Bounds. Each bound is a constant: `MaxPkts` packets offered, `MaxConf`
configuration requests, `MaxTime` clock values, `QLimit` pfifo length. They
were raised until the branches that matter are reached: two packets in one
queue (`update_ed`, `update_d`, drop leaving a non-empty queue), a second
backlog period (`cl_cvtoff`, `cl_vtoff`, `cl_parentperiod`), a class whose vt
falls below `cl_cvtmin` (the `cl_vtadj` clamp, reached in `single` only with
4 packets and 3 clock values), the concave intersection branch of `rtsc_min`
(reached in `flat`), throttling and the watchdog, and requeue before a
dequeue. Every action and every disjunct of `Next` fires in the passing runs.
The curve width is 16 bits so that the wrap in `vt_wrap` is visible. `dsm`
has 8 bits, where the model's slopes do not wrap. The `flat` run does not
reach the branch of `rtsc_min` that adds the remaining first segment of the
old curve (line 657): a mutant that drops it passes.

Snapview and registry bounds:
- `MaxChanges = 3` is the smallest number of changes that covers delete
  followed by re-create under the same name.
- `MaxReqs = MaxChanges + MaxDisconnects + 1` lets every trigger send its
  request, so the bound never blocks a refresh.
- One disconnect covers notifications lost while `priv->rpc` is down.
- The handle run needs no disconnect; it uses the permutations of names,
  uuids and handles as symmetry.
- The liveness runs use no symmetry.
- `NfLog`: two CPUs allow one packet reader and one proc reader to overlap
  an unregister. Two loggers and one unbinder cover both unregister paths.
- `EcCombine`: 4 bricks with minimum 2 is a 2+2 disperse volume. This is
  the smallest size where:
  - a group can be overtaken and moved up the list;
  - the fop must be wound to more bricks after disagreeing answers;
  - all bricks can be used up;
  - a group can lack brick 0;
  - when the fop is wound to all four at once, one group can absorb three
    times, and two groups of count 2 tie, so the stop test of the walk
    back (line 967) is true.

  The six answers cover the cases of the comparison:
  - two successes that agree but differ in blocks and nanoseconds;
  - a success with another owner (a mismatch only under the lock) and a
    later second;
  - a success with other xdata;
  - two failures with different errnos.
- `Aufs`: the tree is the one `aufs_init` builds. Three load attempts
  allow an unload followed by a reload, with a user mount of the first
  superblock still held. One mount per superblock is enough for the
  mount-versus-rmmod orders. A single `new_inode` failure per load covers
  a failed directory, which sends its files to the root, and a failed
  file. The three bytes are '0', '1' and another character.

Deadlock. Every run sets `CHECK_DEADLOCK FALSE`. In each model, the system
legitimately stops once its bounded inputs are used up:
- H-FSC: the packets and configuration requests are used up and the clock
  is at `MaxTime`; an idle scheduler then takes no step.
- Snapview: no more changes can happen and every request has completed.
- Registry: every module has exited.
- EC: every brick wound to has answered and no dispatch is pending; the
  fop then completes (in ec-common.c).
- aufs: every load attempt is used and no mount is left, or `aufs_init`
  oopsed (a module stuck in init cannot be unloaded).

Fairness. The H-FSC and aufs properties are safety only, so no fairness is assumed
there. The liveness checks use weak fairness only where the code or its
environment guarantees progress.

`SnapviewMgmt`:
- the rpc layer's reconnect timer reconnects `priv->rpc`;
- glusterd answers every request;
- a GETSNAPS callback that was delivered is handled;
- each reply callback runs to its end.

Snapshot changes, disconnects and handle creation get no fairness.

`NfLog` keeps weak fairness on leaving a read-side section and on waking
a waiter whose grace period is over, but no run checks a liveness property
of it. Whether `synchronize_net` returns depends on the kernel's RCU,
which is not in the repository. The model's grace period is a set of CPUs
that only shrinks, so such a property would hold whatever nf_log.c does.

`EcCombine`:
- every brick the fop was wound to calls back; the rpc layer turns a
  disconnection into an error answer;
- a callback that found `needed > 0` goes on to `ec_dispatch_next` after the
  unlock.

## 5. Findings

1. `init_vf` (line 809) updates the parent's `cl_cfmin` only when the class's
   own `f` changed; a leaf without an upper-limit curve keeps `f = 0` and the
   parent's `cfmin` stays stale (`stale_cfmin`). Later kernels moved
   `update_cfmin` out of that `if`.
2. Adding a real-time curve to a backlogged link-sharing class (line 1095)
   runs `rb_erase` on an unlinked node and empties the eligible tree
   (`add_rsc`).
3. `hfsc_change_fsc` (line 1024) anchors the virtual curve at `cl_vt` while
   `update_vf` subtracts `cl_vtoff`, so in a later backlog period `cl_vt`
   wraps around 2^64 (`vt_wrap`).
4. `aufs_create_by_name` (aufs.c line 99) keeps the reference
   `lookup_one_len` returns. `debugfs_create_by_name`, which this code
   copies, drops it with `dput(*dentry)`. `aufs_mknod` then takes a second
   reference with `dget`, and `d_genocide` drops only one. So on every rmmod,
   `kill_litter_super` finds each created dentry still in use
   (`aufs_litter`).

The project keeps at most twelve runs, so some observations have no run of
their own. Each of the following can be reproduced by changing one constant or one
property in a passing configuration:
- `svs_get_snapshot_list` (snapview-server-mgmt.c line 506) clears
  `frame_cleanup` whatever `svs_mgmt_submit_request` returned. The submit
  can fail before `rpc_clnt_submit` (an iobref, iobuf or xdr failure). Then
  no callback runs and the frame leaks. Reproduce: `Failures = TRUE` in
  `MCSnapviewConverge.cfg`, with `INVARIANT FrameAccounting` added; TLC
  reports it violated.
- `ec_dict_data_concat` (ec-combine.c line 419) writes a separator after
  brick i's value when `i < num`. `num` is one less than the number of
  values taken, so this compares a brick index with a count. When the
  values do not start at brick 0 (brick 0 down, or outside the accepted
  group), separators are lost: bricks 1 and 2 give `v1v2`. The first loop
  sizes the buffer for one separator between two values. This affects the
  pathinfo and clear-locks values. The pathinfo call (line 731) also
  passes `_gf_false` where the format string goes, which this model does
  not check. Reproduce: add `ConcatJoined` to the INVARIANTS of
  `MCEcCombine.cfg`.
- `aufs_type` (aufs.c line 186) has no `.owner`, so a mount does not pin
  the module. rmmod succeeds while the filesystem is mounted. The later
  umount then calls `kill_sb` through the freed `aufs_type`, and a write
  runs `aufs_file_write` in unloaded code. Reproduce: check
  `ModuleLiveWhileUsed` with the constants of `MCAufs.cfg`; TLC finds a
  user mount followed by rmmod.
- When `aufs_create_dir` fails (`new_inode` returns NULL), `pslot` is NULL
  and the files that follow are created at the root (aufs.c line 212).
  Reproduce: check `FilesInTheirDir` with `MCAufs.cfg`.
- `aufs_create_by_name` tests `IS_ERR(dentry)` (line 100), the address of
  the caller's pointer, not `*dentry`. An error pointer from
  `lookup_one_len` reaches `aufs_mknod`, which dereferences it (line 52).
  Reproduce: check `NoOops` with `MCAufs.cfg`.
- When `kern_mount` fails, `aufs_init` unregisters the type and returns
  `ret`, which is 0 at that point (line 209). insmod succeeds with no
  filesystem. `MCAufs.cfg` reaches this state (`aufs_mount = ERR`). It is
  harmless after that, because `kern_unmount` ignores an error pointer.
- `hfsc_adjust_levels` (line 980) leaves a class whose last child was deleted
  at level 1: it can no longer be a leaf, be deleted, or receive packets.
  Later kernels give a childless class level 0. Reproduce: check
  `INVARIANT LevelInvariant` with the constants of `MCHfscTraffic.cfg`; TLC
  creates and deletes I.
- `update_d` (line 708) lowers a deadline when the next packet is smaller,
  against spec §8. Reproduce: check `PROPERTY DeadlineMonotone` with the
  constants of `MCHfscFlat.cfg`.
- `update_vf` (line 829) skips an interior class without a link-sharing
  curve, but `init_vf` activates it, so it is never deactivated. Reproduce:
  `CreateSC <- MC_CreateSC_NoFscParent` in `MCHfscTraffic.cfg`; TLC reports
  `LinkShareIndexExact` violated.
- A real-time curve with `m2 = 0` is accepted: `hfsc_change_class`
  (line 1056) rejects only `m1 = m2 = 0`. `m2ism` gives it `ism2 =
  HT_INFINITY` (line 489). Once the class has spent its burst within a
  backlog period, `rtsc_y2x` (line 578) returns `x + dx + HT_INFINITY`. That
  wraps to `x + dx - 1`, so the eligible time and the deadline both fall
  before the end of the burst. The class then stays eligible with the
  earliest deadline and takes real-time service ahead of every other class
  until its queue empties. Reproduce: `CreateSC <- MC_CreateSC_ZeroTail`,
  `MaxPkts = 4` and `MaxTime = 4` in `MCHfscFlat.cfg`. TLC reports
  `RealTimeWithinEligible` violated after about 2 minutes: A's fifth byte
  is served at time 2 with `e = d = 2`.
- `rtsc_min` (line 651) keeps the slope difference in a u32 `dsm` and
  divides by it. With SM_SHIFT 20 and a microsecond clock, `dsm` wraps once
  m1 - m2 reaches 4096 bytes/us, about 4.3e9 bytes/s. That is near the top
  of the u32 `m1` of `tc_service_curve`. Past that point `do_div` divides by
  zero (a difference of exactly 2^32) or computes a wrong intersection. Reproduce: `WIDTH32 = 2` in `MCHfscFlat.cfg`; TLC
  stops with "The second argument of \div is 0" in `rtsc_min`.
- `mgmt_get_snapinfo_cbk` (line 403) installs whatever list its reply
  carries. It does not check that the list is newer than the installed one.
  If the transport runs two reply callbacks concurrently, the older list can
  be installed last. Reproduce: `ConcurrentCbk = TRUE` in
  `MCSnapviewConverge.cfg`; `Converges` and `CacheRefinement` fail.
- A failed refresh is only logged (lines 65, 432) and never retried. The
  list stays stale until the next change notification or reconnect.
  Reproduce: `Failures = TRUE` in `MCSnapviewConverge.cfg`; `Converges`
  fails.
- Observed with an action property, now dropped. The comment before the
  swap (line 372) says the new list is a subset or a
  superset of the old one. A delete followed by a create between two
  refreshes gives neither. The matching loop still handles this case:
  `HandleOwnership` and `HandleMatchesSnap` hold in `snapview_handles`.

## 6. Plan and what is not modelled

Done:
- `HfscCurve` and `Hfsc`;
- `SnapviewMgmt`, with the `SnapCache` refinement and liveness;
- `NfLog`, with its RCU safety;
- `EcCombine`, the answer grouping of `ec_combine` with its liveness;
- `Aufs`, the aufs module's load, unload and tree creation against the VFS.

Next:

1. `HfscCurve` checked on its own against an exact rational envelope over
   all small curves. Within the scheduler, `DeadlineEnvelope` and
   `RealTimeWithinEligible` already check `rtsc_min` and `rtsc_y2x` on the
   curves the runs reach, and section 5 reproduces the `m2 = 0` wrap and
   the `dsm` truncation.
2. An abstract per-class FIFO specification (`HfscQueues`), refined by
   `Hfsc` through `INSTANCE ... WITH` a mapping from `q`, `requeue` and
   `held`. In `HfscQueues`:
   - enqueue appends;
   - dequeue takes the head of some backlogged leaf;
   - drop takes a tail.
3. H-FSC liveness: every backlogged packet is eventually dequeued. This
   assumes weak fairness of dequeue, the watchdog and the clock, with time
   abstracted so that the clock is not bounded. `WatchdogNotLate` already
   checks the time the watchdog is armed for (lines 1488, 1493).
4. The rest of ec-combine.c as operators over a group: the `max32`,
   `max64`, quota and `stime` dict merges, `ec_combine_statvfs`, and the
   vector and flock comparisons.

Not modelled: filters and `filter_cnt`, reference counts and
`hfsc_destroy_class`, rate estimators and statistics, netlink dumps
(`sm2m`, `dx2d`), `hfsc_change_qdisc` (changing `defcls`), jiffies
conversion of the watchdog delay, the unlocked `TCQ_F_THROTTLED` update in
`hfsc_watchdog` (nothing in the tree reads the flag), and leaf qdiscs other
than pfifo (the "non-work-conserving" branch is covered only through the
index properties).

Not modelled in the other components:
- EC: the dict merge of `ec_dict_combine` beyond the node-uuid and concat
  values, the `xattr_match` and `value_ignore` string matching of
  `ec_dict_compare`, rebuild, and `ec_dispatch_next` and fop completion
  (ec-common.c is not in this tree);
- Snapview:
  - the failure paths of `svs_mgmt_init`: the translator does not start when
    it fails. Its NULL `priv->rpc` dereference at line 156 is listed as a
    hazard;
  - readers that use a handle outside `snaplist_lock`: they are in other
    files.
- `nf_log`:
  - the proc entry creation (`netfilter_log_init`);
  - the memory ordering of `rcu_assign_pointer`: the model is sequentially
    consistent;
  - a negative `pf`: `nf_log_register` checks only `pf >= NPROTO`, but every
    caller in the tree passes a protocol family constant.
- aufs:
  - `aufs_file_read`: it returns one of two strings and changes no state;
  - user path walks during `aufs_init` (the missing `i_mutex` at line 99):
    the model runs `aufs_init` as one step, and the walks are VFS code.
    This is listed as a hazard.
  - the user pointer that `aufs_file_write` reads directly (line 155),
    and a zero-length write: a fault on it is outside the model's state.
