---------------------------- MODULE SnapviewMgmt ----------------------------
(***************************************************************************)
(* The snapshot-list refresh of the glusterfs snapview-server translator  *)
(* (xlators/features/snapview-server/src/snapview-server-mgmt.c).          *)
(*                                                                         *)
(* A refresh (svs_get_snapshot_list) is started when the management       *)
(* connection priv->rpc comes up (svs_rpc_notify) and on every GETSNAPS    *)
(* callback glusterd sends when the snapshots change (mgmt_cbk_snap).  It *)
(* sends a GET_SNAPSHOT_INFO request on ctx->mgmt; the reply is handled by *)
(* mgmt_get_snapinfo_cbk, which builds the new dirents array, swaps it in  *)
(* under snaplist_lock moving each surviving snapshot's glfs handle (fs)   *)
(* to its new entry, and after the unlock calls glfs_fini on the handles   *)
(* left in the old array.  The callback is modelled as its three steps:   *)
(* build (outside the lock), swap (the locked section), fini.              *)
(*                                                                         *)
(* Environment, outside this file: glusterd (changes the snapshots, sends  *)
(* GETSNAPS while connected, answers requests in order), the rpc layer     *)
(* (drops priv->rpc and later reconnects), and svs_initialize_snapshot_    *)
(* volume, which gives an entry of the current list a fresh glfs handle.  *)
(***************************************************************************)
EXTENDS Naturals, Sequences, FiniteSets, TLC

CONSTANTS Names,          \* snapshot names
          Uuids,          \* snapshot uuids; glusterd never reuses one
          Handles,        \* glfs_t handles svs_initialize_snapshot_volume may create
          NoFs,           \* the NULL fs of an entry without a handle
          MaxChanges,     \* bound on snapshot creations and deletions
          MaxDisconnects, \* bound on drops of priv->rpc
          Failures,       \* whether allocation, rpc and decoding failures occur
          ConcurrentCbk   \* whether two reply callbacks may run at the same time

ASSUME NoFs \notin Handles
ASSUME Failures \in BOOLEAN /\ ConcurrentCbk \in BOOLEAN

\* Every refresh trigger (a change, a connect) can send one request.
MaxReqs == MaxChanges + MaxDisconnects + 1
ReqIds == 1..MaxReqs

VARIABLES
  hist,        \* glusterd's snapshot list, as its history; the last entry is current
  connected,   \* priv->rpc is connected to glusterd
  disconnects, \* drops of priv->rpc so far
  notes,       \* GETSNAPS callbacks glusterd sent and the client has not handled
  req,         \* per request: its progress, the list it carries, the old dirents it frees
  sent,        \* requests sent on ctx->mgmt so far
  dirents,     \* priv->dirents (priv->num_snaps is its size)
  fsof,        \* the snapshot each created handle was initialised for
  fini,        \* handles passed to glfs_fini
  frames,      \* call frames created and not yet destroyed
  installed    \* the position in hist of the list priv->dirents came from

vars == <<hist, connected, disconnects, notes, req, sent, dirents, fsof,
          fini, frames, installed>>

Snap == [name : Names, uuid : Uuids]
Dirent == [name : Names, uuid : Uuids, fs : Handles \cup {NoFs}]
ReqPc == {"unsent", "atserver", "onwire", "built", "swapped", "done"}

Server == hist[Len(hist)]
SnapsOf(D) == {[name |-> e.name, uuid |-> e.uuid] : e \in D}
UsedUuids == UNION {{s.uuid : s \in hist[i]} : i \in 1..Len(hist)}
InFlight == {r \in ReqIds : req[r].pc \in {"atserver", "onwire", "built", "swapped"}}

TypeOK ==
  /\ hist \in Seq(SUBSET Snap) /\ Len(hist) \in 1..MaxChanges + 1
  /\ connected \in BOOLEAN
  /\ disconnects \in 0..MaxDisconnects /\ notes \in 0..MaxChanges
  /\ req \in [ReqIds -> [pc : ReqPc, gen : 0..MaxChanges + 1, old : SUBSET Dirent]]
  /\ sent \in 0..MaxReqs
  /\ dirents \in SUBSET Dirent
  /\ DOMAIN fsof \subseteq Handles /\ \A h \in DOMAIN fsof : fsof[h] \in Snap
  /\ fini \subseteq Handles
  /\ frames \in Nat
  /\ installed \in 0..MaxChanges + 1

\* After svs_mgmt_init: priv->rpc is created, its notify function and the
\* GETSNAPS callback program registered, and it is started, not yet
\* connected.  (When svs_mgmt_init fails the translator's init fails.)
Init ==
  /\ hist = <<{}>>
  /\ connected = FALSE
  /\ disconnects = 0
  /\ notes = 0
  /\ req = [r \in ReqIds |-> [pc |-> "unsent", gen |-> 0, old |-> {}]]
  /\ sent = 0
  /\ dirents = {}
  /\ fsof = <<>>
  /\ fini = {}
  /\ frames = 0
  /\ installed = 0

\* Mutant: the sender also destroys the frame of a request it handed over.
svs_mgmt_submit_request_destroy ==
  \/ /\ req' = [req EXCEPT ![sent + 1].pc = "atserver"]
     /\ sent' = sent + 1
     /\ UNCHANGED frames
  \/ /\ Failures
     /\ frames' = frames + 1
     /\ UNCHANGED <<req, sent>>

\* svs_mgmt_submit_request: the request goes out on ctx->mgmt and the frame
\* is handed to the rpc layer; or iobref_new, iobuf_get2 or the xdr encoding
\* fails and -1 is returned before rpc_clnt_submit, the frame still alive.
svs_mgmt_submit_request ==
  \/ /\ req' = [req EXCEPT ![sent + 1].pc = "atserver"]
     /\ sent' = sent + 1
     /\ frames' = frames + 1
  \/ /\ Failures
     /\ frames' = frames + 1
     /\ UNCHANGED <<req, sent>>

\* svs_get_snapshot_list: create the frame and the volname dict, serialize
\* it and submit; a failure before the submit destroys the frame (if any)
\* at out:.  After svs_mgmt_submit_request frame_cleanup is cleared whatever
\* it returned.
svs_get_snapshot_list ==
  \/ svs_mgmt_submit_request
  \/ /\ Failures
     /\ UNCHANGED <<req, sent, frames>>

\* svs_rpc_notify, RPC_CLNT_CONNECT: refresh the list.
svs_rpc_notify ==
  /\ ~connected
  /\ sent < MaxReqs
  /\ connected' = TRUE
  /\ svs_get_snapshot_list
  /\ UNCHANGED <<hist, disconnects, notes, dirents, fsof, fini, installed>>

\* mgmt_cbk_snap: the GETSNAPS callback refreshes the list.
mgmt_cbk_snap ==
  /\ notes > 0
  /\ sent < MaxReqs
  /\ notes' = notes - 1
  /\ svs_get_snapshot_list
  /\ UNCHANGED <<hist, connected, disconnects, dirents, fsof, fini, installed>>

\* The rpc layer drops priv->rpc; callbacks not yet delivered are lost.
Disconnect ==
  /\ connected
  /\ disconnects < MaxDisconnects
  /\ connected' = FALSE
  /\ disconnects' = disconnects + 1
  /\ notes' = 0
  /\ UNCHANGED <<hist, req, sent, dirents, fsof, fini, frames, installed>>

\* glusterd changes the snapshots and, if connected, sends GETSNAPS.
Change(S) ==
  /\ Len(hist) <= MaxChanges
  /\ hist' = Append(hist, S)
  /\ notes' = IF connected THEN notes + 1 ELSE notes
  /\ UNCHANGED <<connected, disconnects, req, sent, dirents, fsof, fini,
                 frames, installed>>

SnapCreate ==
  \E n \in Names \ {s.name : s \in Server}, u \in Uuids \ UsedUuids :
    Change(Server \cup {[name |-> n, uuid |-> u]})

SnapDelete == \E s \in Server : Change(Server \ {s})

\* glusterd answers the oldest request with its current list.
ServerAnswer(r) ==
  /\ req[r].pc = "atserver"
  /\ \A q \in ReqIds : q < r => req[q].pc # "atserver"
  /\ req' = [req EXCEPT ![r].pc = "onwire", ![r].gen = Len(hist)]
  /\ UNCHANGED <<hist, connected, disconnects, notes, sent, dirents, fsof,
                 fini, frames, installed>>

\* The reply callbacks run one at a time, in the order of the replies,
\* unless ConcurrentCbk lets the transport run them in parallel.
CbkMayRun(r) ==
  \/ ConcurrentCbk
  \/ \A q \in ReqIds \ {r} :
       /\ req[q].pc \notin {"built", "swapped"}
       /\ q < r => req[q].pc # "onwire"

\* mgmt_get_snapinfo_cbk up to the lock: check the rpc status, decode the
\* reply, unserialize the dict, read snap-count and fill dirents from the
\* snap-volname, snap-id and snapname keys.  Any failure frees the new
\* dirents and destroys the frame, leaving priv untouched.
CbkBuild(r) ==
  /\ req[r].pc = "onwire"
  /\ CbkMayRun(r)
  /\ \/ /\ req' = [req EXCEPT ![r].pc = "built"]
        /\ UNCHANGED frames
     \/ /\ Failures
        /\ req' = [req EXCEPT ![r].pc = "done"]
        /\ frames' = frames - 1
  /\ UNCHANGED <<hist, connected, disconnects, notes, sent, dirents, fsof,
                 fini, installed>>

\* Mutant: entries matched by name only.
SameSnap_nameonly(o, e) == o.name = e.name

\* An old entry and a new one are the same snapshot: equal name and uuid.
SameSnap(o, e) == o.name = e.name /\ o.uuid = e.uuid

\* Mutant: old entries that hold a handle are kept in the new list.
TransferFs_keepheld(new, old) ==
  {[e EXCEPT !.fs = IF \E o \in old : o.name = e.name /\ o.uuid = e.uuid
                    THEN (CHOOSE o \in old : o.name = e.name /\ o.uuid = e.uuid).fs
                    ELSE NoFs] : e \in new}
  \cup {o \in old : o.fs # NoFs}

\* The new entries, each taking the fs of the old entry of the same snapshot.
TransferFs(new, old) ==
  {[e EXCEPT !.fs = IF \E o \in old : SameSnap(o, e)
                    THEN (CHOOSE o \in old : SameSnap(o, e)).fs
                    ELSE NoFs] : e \in new}

\* Mutant: the moved handle is not cleared in the old entry.
ReleaseFs_keep(old, new) == old

\* The old entries after the loop: a handle moved to a new entry is cleared.
ReleaseFs(old, new) ==
  {[o EXCEPT !.fs = IF \E e \in new : SameSnap(o, e) THEN NoFs ELSE o.fs] : o \in old}

\* Mutant: an empty snapshot list is not installed.
CbkSwap_skipempty(r) ==
  /\ req[r].pc = "built"
  /\ IF hist[req[r].gen] = {}
     THEN /\ req' = [req EXCEPT ![r].pc = "swapped"]
          /\ UNCHANGED <<dirents, installed>>
     ELSE LET new == {[name |-> s.name, uuid |-> s.uuid, fs |-> NoFs] : s \in hist[req[r].gen]}
          IN /\ dirents' = TransferFs(new, dirents)
             /\ req' = [req EXCEPT ![r].pc = "swapped", ![r].old = ReleaseFs(dirents, new)]
             /\ installed' = req[r].gen
  /\ UNCHANGED <<hist, connected, disconnects, notes, sent, fsof, fini, frames>>

\* The section under snaplist_lock: move the handles of surviving snapshots
\* to the new array and install it as priv->dirents and priv->num_snaps.
CbkSwap(r) ==
  /\ req[r].pc = "built"
  /\ LET new == {[name |-> s.name, uuid |-> s.uuid, fs |-> NoFs] : s \in hist[req[r].gen]}
     IN /\ dirents' = TransferFs(new, dirents)
        /\ req' = [req EXCEPT ![r].pc = "swapped", ![r].old = ReleaseFs(dirents, new)]
  /\ installed' = req[r].gen
  /\ UNCHANGED <<hist, connected, disconnects, notes, sent, fsof, fini, frames>>

\* After the unlock: glfs_fini on every handle left in the old array, free
\* it, and destroy the frame.
CbkFini(r) ==
  /\ req[r].pc = "swapped"
  /\ fini' = fini \cup {o.fs : o \in {o \in req[r].old : o.fs # NoFs}}
  /\ req' = [req EXCEPT ![r].pc = "done", ![r].old = {}]
  /\ frames' = frames - 1
  /\ UNCHANGED <<hist, connected, disconnects, notes, sent, dirents, fsof,
                 installed>>

\* svs_initialize_snapshot_volume (outside this file) gives an entry of the
\* current list a new glfs handle.
InitFs ==
  \E h \in Handles \ DOMAIN fsof, e \in dirents :
    /\ e.fs = NoFs
    /\ dirents' = (dirents \ {e}) \cup {[e EXCEPT !.fs = h]}
    /\ fsof' = fsof @@ (h :> [name |-> e.name, uuid |-> e.uuid])
    /\ UNCHANGED <<hist, connected, disconnects, notes, req, sent, fini,
                   frames, installed>>

Next ==
  \/ svs_rpc_notify \/ mgmt_cbk_snap \/ Disconnect
  \/ SnapCreate \/ SnapDelete \/ InitFs
  \/ \E r \in ReqIds : ServerAnswer(r) \/ CbkBuild(r) \/ CbkSwap(r) \/ CbkFini(r)

\* The rpc layer reconnects priv->rpc (its reconnect timer), glusterd answers
\* every request and each callback runs to its end: weak fairness for those.
\* Snapshot changes, drops and handle creation are not required to happen.
Fairness ==
  /\ WF_vars(svs_rpc_notify)
  /\ WF_vars(mgmt_cbk_snap)
  /\ \A r \in ReqIds : /\ WF_vars(ServerAnswer(r)) /\ WF_vars(CbkBuild(r))
                       /\ WF_vars(CbkSwap(r)) /\ WF_vars(CbkFini(r))

Spec == Init /\ [][Next]_vars /\ Fairness
-----------------------------------------------------------------------------
\* Number of places holding handle h: the entries of priv->dirents and of
\* the old arrays swapped out and not yet finalised.
Holders(h) ==
  Cardinality({<<0, e>> : e \in {e \in dirents : e.fs = h}}
              \cup UNION {{<<r, o>> : o \in {o \in req[r].old : o.fs = h}} : r \in ReqIds})

\* The handle hand-over in mgmt_get_snapinfo_cbk (the nested loop that moves
\* old_dirents[i].fs to dirents[j].fs and clears the old one, then glfs_fini
\* on the old array): every handle not yet finalised is held by exactly one
\* entry, so none leaks and none is finalised twice, and a finalised handle
\* is held by no entry, so the cached list never uses a dead handle.
HandleOwnership ==
  \A h \in DOMAIN fsof :
    IF h \in fini THEN Holders(h) = 0 ELSE Holders(h) = 1

\* The name-and-uuid match of that loop: an entry's handle was initialised
\* for that very snapshot, also when a snapshot is deleted and one of the
\* same name created (new uuid) between two refreshes.
HandleMatchesSnap ==
  \A e \in dirents : e.fs # NoFs => fsof[e.fs] = [name |-> e.name, uuid |-> e.uuid]

\* Each call frame created by svs_get_snapshot_list belongs to a request in
\* flight and is destroyed when its callback ends (SVS_STACK_DESTROY).
FrameAccounting == frames = Cardinality(InFlight)

\* Once glusterd stops changing the snapshots, the cached list becomes and
\* stays glusterd's list: the GETSNAPS and connect refreshes are enough.
Converges == <>[](SnapsOf(dirents) = Server)

\* The cached list refines SnapCache: it only shows lists glusterd had, and
\* never goes back to an older one.
Cache == INSTANCE SnapCache WITH Snaps <- Snap, shown <- installed,
                                 cache <- SnapsOf(dirents)
CacheRefinement == Cache!Spec
=============================================================================
