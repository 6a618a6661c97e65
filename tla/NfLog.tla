-------------------------------- MODULE NfLog --------------------------------
(***************************************************************************)
(* The netfilter logger registry (net/netfilter/nf_log.c): one logger     *)
(* pointer per protocol family, written under nf_log_lock and read under  *)
(* RCU by nf_log_packet and by the /proc/net/netfilter/nf_log seq_file.   *)
(* Unregistering clears slots and then waits in synchronize_net for the   *)
(* read-side sections already running; only after that may the logger     *)
(* module that called nf_log_unregister_logger be freed.                   *)
(*                                                                         *)
(* Actors: CPUs running nf_log_packet or reading the proc file; logger    *)
(* modules (ipt_LOG and the like) that register and, on exit, unregister   *)
(* and are freed; unbinders (the nfnetlink_log PF_UNBIND command) calling  *)
(* nf_log_unregister_pf.  A waiter in synchronize_net waits for the CPUs   *)
(* that were inside a read-side section when it started.                   *)
(***************************************************************************)
EXTENDS Naturals, FiniteSets

CONSTANTS NPROTO,     \* number of protocol families
          Loggers,    \* struct nf_logger instances, one per logger module
          Unbinders,  \* threads that may call nf_log_unregister_pf
          Cpus,       \* CPUs running read-side sections
          NULL

ASSUME NULL \notin Loggers
Pf == 0..NPROTO - 1
Waiters == Loggers \cup Unbinders

VARIABLES
  nf_logging, \* the slot per protocol family
  mod,        \* per logger module: "loaded", "exiting" (in synchronize_net), "freed"
  gp,         \* per waiter: the CPUs whose read-side section it still waits for
  syncing,    \* the waiters inside synchronize_net
  cpu         \* per CPU: its read-side section and the logger it dereferenced

vars == <<nf_logging, mod, gp, syncing, cpu>>

CpuState == [pc : {"idle", "packet", "proc"}, lg : Loggers \cup {NULL}, pos : 0..NPROTO]

\* CPUs inside rcu_read_lock ... rcu_read_unlock.
InReadSide == {c \in Cpus : cpu[c].pc # "idle"}

TypeOK ==
  /\ nf_logging \in [Pf -> Loggers \cup {NULL}]
  /\ mod \in [Loggers -> {"loaded", "exiting", "freed"}]
  /\ gp \in [Waiters -> SUBSET Cpus]
  /\ syncing \subseteq Waiters
  /\ cpu \in [Cpus -> CpuState]

Init ==
  /\ nf_logging = [p \in Pf |-> NULL]
  /\ mod = [l \in Loggers |-> "loaded"]
  /\ gp = [w \in Waiters |-> {}]
  /\ syncing = {}
  /\ cpu = [c \in Cpus |-> [pc |-> "idle", lg |-> NULL, pos |-> 0]]

\* synchronize_net, entered: wait for the CPUs now in a read-side section.
StartSync(w) ==
  /\ gp' = [gp EXCEPT ![w] = InReadSide]
  /\ syncing' = syncing \cup {w}

\* nf_log_register: under nf_log_lock, take an empty slot (0); a slot held
\* by another logger (-EBUSY) or by this one (-EEXIST) is left alone.
nf_log_register(pf, l) ==
  /\ mod[l] = "loaded"
  /\ nf_logging[pf] = NULL
  /\ nf_logging' = [nf_logging EXCEPT ![pf] = l]
  /\ UNCHANGED <<mod, gp, syncing, cpu>>

\* nf_log_unregister_pf: clear the slot whoever holds it, then wait.
nf_log_unregister_pf(u, pf) ==
  /\ u \notin syncing
  /\ nf_logging' = [nf_logging EXCEPT ![pf] = NULL]
  /\ StartSync(u)
  /\ UNCHANGED <<mod, cpu>>

\* Mutant: the module is freed without waiting in synchronize_net.
nf_log_unregister_logger_nosync(l) ==
  /\ mod[l] = "loaded"
  /\ nf_logging' = [p \in Pf |-> IF nf_logging[p] = l THEN NULL ELSE nf_logging[p]]
  /\ mod' = [mod EXCEPT ![l] = "freed"]
  /\ UNCHANGED <<gp, syncing, cpu>>

\* nf_log_unregister_logger, called from the module's exit: clear every
\* slot holding the logger, then wait.
nf_log_unregister_logger(l) ==
  /\ mod[l] = "loaded"
  /\ nf_logging' = [p \in Pf |-> IF nf_logging[p] = l THEN NULL ELSE nf_logging[p]]
  /\ mod' = [mod EXCEPT ![l] = "exiting"]
  /\ StartSync(l)
  /\ UNCHANGED cpu

\* synchronize_net returns once the CPUs it waited for have left their
\* sections; an exiting module then finishes its exit and is freed.
SyncDone(w) ==
  /\ w \in syncing
  /\ gp[w] = {}
  /\ syncing' = syncing \ {w}
  /\ mod' = IF w \in Loggers THEN [mod EXCEPT ![w] = "freed"] ELSE mod
  /\ UNCHANGED <<nf_logging, gp, cpu>>

\* rcu_read_unlock on CPU c: waiters stop waiting for it.
LeaveReadSide(c) ==
  /\ cpu' = [cpu EXCEPT ![c] = [pc |-> "idle", lg |-> NULL, pos |-> 0]]
  /\ gp' = [w \in Waiters |-> gp[w] \ {c}]

\* nf_log_packet up to the call: rcu_read_lock and rcu_dereference of the
\* slot.  Without a logger it warns (rate limited) and unlocks.
PacketDeref(c, pf) ==
  /\ cpu[c].pc = "idle"
  /\ nf_logging[pf] # NULL
  /\ cpu' = [cpu EXCEPT ![c] = [pc |-> "packet", lg |-> nf_logging[pf], pos |-> pf]]
  /\ UNCHANGED <<nf_logging, mod, gp, syncing>>

\* nf_log_packet: logger->logfn formats and logs the packet, then
\* rcu_read_unlock.
PacketLog(c) ==
  /\ cpu[c].pc = "packet"
  /\ LeaveReadSide(c)
  /\ UNCHANGED <<nf_logging, mod, syncing>>

\* seq_start: rcu_read_lock at position 0.
ProcStart(c) ==
  /\ cpu[c].pc = "idle"
  /\ cpu' = [cpu EXCEPT ![c] = [pc |-> "proc", lg |-> NULL, pos |-> 0]]
  /\ UNCHANGED <<nf_logging, mod, gp, syncing>>

\* Mutant: seq_next tests *pos > NPROTO; the show at pos = NPROTO reads past
\* the array, any value.
ProcShow_offbyone(c) ==
  /\ cpu[c].pc = "proc"
  /\ cpu[c].pos <= NPROTO
  /\ \E v \in Loggers \cup {NULL} :
       cpu' = [cpu EXCEPT ![c] = [pc |-> "proc",
                 lg |-> IF cpu[c].pos < NPROTO THEN nf_logging[cpu[c].pos] ELSE v,
                 pos |-> cpu[c].pos + 1]]
  /\ UNCHANGED <<nf_logging, mod, gp, syncing>>

\* seq_show of the current position (rcu_dereference of the slot, then
\* logger->name), then seq_next.
ProcShow(c) ==
  /\ cpu[c].pc = "proc"
  /\ cpu[c].pos < NPROTO
  /\ cpu' = [cpu EXCEPT ![c] = [pc |-> "proc", lg |-> nf_logging[cpu[c].pos],
                                pos |-> cpu[c].pos + 1]]
  /\ UNCHANGED <<nf_logging, mod, gp, syncing>>

\* seq_start or seq_next found pos >= NPROTO; seq_stop: rcu_read_unlock.
ProcStop(c) ==
  /\ cpu[c].pc = "proc"
  /\ cpu[c].pos = NPROTO
  /\ LeaveReadSide(c)
  /\ UNCHANGED <<nf_logging, mod, syncing>>

Next ==
  \/ \E pf \in Pf, l \in Loggers : nf_log_register(pf, l)
  \/ \E pf \in Pf, u \in Unbinders : nf_log_unregister_pf(u, pf)
  \/ \E l \in Loggers : nf_log_unregister_logger(l)
  \/ \E w \in Waiters : SyncDone(w)
  \/ \E c \in Cpus : \/ \E pf \in Pf : PacketDeref(c, pf)
                     \/ PacketLog(c) \/ ProcStart(c) \/ ProcShow(c) \/ ProcStop(c)

\* Read-side sections run in softirq or without sleeping and always reach
\* rcu_read_unlock; a waiter whose grace period has ended is woken.
Fairness ==
  /\ \A c \in Cpus : WF_vars(PacketLog(c)) /\ WF_vars(ProcShow(c)) /\ WF_vars(ProcStop(c))
  /\ \A w \in Waiters : WF_vars(SyncDone(w))

Spec == Init /\ [][Next]_vars /\ Fairness
-----------------------------------------------------------------------------
\* The RCU contract of nf_log_unregister_logger: a logger a CPU dereferenced
\* in nf_log_packet or in seq_show stays in memory until that CPU's
\* rcu_read_unlock (it calls logger->logfn, reads logger->name), even when
\* the logger's module exits meanwhile.
NoUseAfterFree ==
  \A c \in Cpus : cpu[c].lg # NULL => mod[cpu[c].lg] # "freed"

=============================================================================
