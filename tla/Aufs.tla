-------------------------------- MODULE Aufs --------------------------------
(***************************************************************************)
(* The aufs example filesystem module of src/aufs/aufs.c: its load        *)
(* (aufs_init), which registers the filesystem type, takes a kernel mount *)
(* and builds the fixed tree of directories and files through             *)
(* aufs_create_dir / aufs_create_file / aufs_create_by_name / aufs_mknod; *)
(* its unload (aufs_exit); the write handler of its files; and the user   *)
(* mounts and unmounts the VFS performs on the registered type.           *)
(*                                                                         *)
(* The VFS is not part of the repository.  It is the environment of the   *)
(* module and is modelled by the effect of the calls the module makes:    *)
(* lookup_one_len returns the existing dentry with one more reference or  *)
(* a new negative dentry holding one reference (or, if LookupMayFail, an  *)
(* error pointer); new_inode may fail (at most MaxAllocFailures times per *)
(* load); mount_single shares the one superblock; kill_litter_super drops *)
(* one reference of every positive dentry (d_genocide) and then reports   *)
(* every dentry still referenced.                                         *)
(*                                                                         *)
(* Every load attempt is numbered; the superblock a load creates carries  *)
(* that number, so that a user mount can outlive the module instance that *)
(* created its superblock.                                                *)
(***************************************************************************)
EXTENDS Naturals, FiniteSets, SequencesExt

CONSTANTS
    Dirs,             \* the directories aufs_init creates, in order
    FilesOf,          \* FilesOf[d]: the files it then creates under d
    ROOT,             \* the root dentry s_root made by simple_fill_super
    NOINODE, DIR, REG,\* d_inode of a dentry: none, a directory, a file
    NULL, ERR,        \* aufs_mount before init / after a failed kern_mount
    MaxLoads,         \* bound on insmod attempts
    MaxUserMounts,    \* bound on simultaneous user mounts of one sb
    MaxAllocFailures, \* bound on new_inode failures within one load
    RegisterMayFail,  \* register_filesystem may return an error
    MountMayFail,     \* kern_mount may return an error pointer
    LookupMayFail     \* lookup_one_len may return an error pointer

Gens == 1..MaxLoads

(* The creation calls of aufs_init, lines 212-220, in program order.      *)
DirCall(d) == [name |-> d, kind |-> DIR]
FileCall(f, d) == [name |-> f, kind |-> REG, dir |-> d]
Calls ==
    FlattenSeq([k \in 1..Len(Dirs) |->
        <<DirCall(Dirs[k])>> \o
        [i \in 1..Len(FilesOf[Dirs[k]]) |-> FileCall(FilesOf[Dirs[k]][i], Dirs[k])]])

Names == {Calls[k].name : k \in 1..Len(Calls)}

Dentry == [parent : Names \cup {ROOT}, inode : {NOINODE, DIR, REG},
           count : Nat, nlink : Nat]

VARIABLES
    module,     \* "unloaded", "live", or "oops" (init died in the kernel)
    registered, \* aufs_type is on the kernel's filesystem list
    aufs_mount, \* NULL, ERR, or the number of the sb it mounts
    gen,        \* number of load attempts so far
    dcache,     \* dcache[g]: the dentries of sb g, by name
    alive,      \* alive[g]: sb g has not been killed
    umounts,    \* umounts[g]: user mounts of sb g
    enabled     \* the static int enabled of the loaded instance

vars == <<module, registered, aufs_mount, gen, dcache, alive, umounts, enabled>>

(* simple_fill_super: the root directory inode, nlink 2, ref held by sb.  *)
FreshSb == ROOT :> [parent |-> ROOT, inode |-> DIR, count |-> 1, nlink |-> 2]

(* lookup_one_len(name, parent): the cached dentry with one more          *)
(* reference, or a new negative one with a single reference.              *)
lookup_one_len(dc, name, parent) ==
    IF name \in DOMAIN dc
    THEN [dc EXCEPT ![name].count = @ + 1]
    ELSE dc @@ (name :> [parent |-> parent, inode |-> NOINODE, count |-> 1, nlink |-> 0])

(* aufs_get_inode: the link count of the new inode, or NULL when         *)
(* new_inode fails; a directory gets new_inode's 1 and then __i_nlink++.  *)
aufs_get_inode(kind, fail) ==
    IF fail THEN NULL ELSE IF kind = DIR THEN 2 ELSE 1

(* aufs_mknod: -EEXIST on a positive dentry, -EPERM when aufs_get_inode   *)
(* fails, else d_instantiate and dget.                                    *)
aufs_mknod(dc, name, kind, fail) ==
    LET inode == aufs_get_inode(kind, fail)
    IN  IF dc[name].inode # NOINODE \/ inode = NULL
        THEN [dc |-> dc, res |-> FALSE]
        ELSE [dc |-> [dc EXCEPT ![name].inode = kind, ![name].count = @ + 1,
                                ![name].nlink = inode],
              res |-> TRUE]

(* A mutant of aufs_mkdir: the parent's nlink is raised whatever          *)
(* aufs_mknod returned (the `if (!res)` of line 69 dropped).              *)
aufs_mkdir_always(dc, parent, name, fail) ==
    LET r == aufs_mknod(dc, name, DIR, fail)
    IN  [r EXCEPT !.dc[parent].nlink = @ + 1]

(* aufs_mkdir: on success the parent directory's nlink is incremented.    *)
aufs_mkdir(dc, parent, name, fail) ==
    LET r == aufs_mknod(dc, name, DIR, fail)
    IN  IF r.res THEN [r EXCEPT !.dc[parent].nlink = @ + 1] ELSE r

aufs_create(dc, name, fail) == aufs_mknod(dc, name, REG, fail)

(* aufs_create_by_name, with the parent already resolved (a NULL parent   *)
(* is the root: aufs_mount is valid whenever aufs_init gets here).        *)
aufs_create_by_name(dc, call, parent, fail) ==
    LET dl == lookup_one_len(dc, call.name, parent)
    IN  IF call.kind = DIR THEN aufs_mkdir(dl, parent, call.name, fail)
                           ELSE aufs_create(dl, call.name, fail)

(* Lines 212-220: each directory is created at the root; pslot is its     *)
(* dentry, or NULL if aufs_create_file failed, and a NULL pslot makes the *)
(* following files land at the root.  fails: the calls whose new_inode    *)
(* fails; the walk stops before call `stop` (the oopsing one).            *)
RECURSIVE CreateTree(_, _, _, _, _)
CreateTree(dc, pslot, k, fails, stop) ==
    IF k > Len(Calls) \/ k = stop THEN dc
    ELSE LET call   == Calls[k]
             parent == IF call.kind = DIR \/ pslot = NULL THEN ROOT ELSE pslot
             r      == aufs_create_by_name(dc, call, parent, k \in fails)
             slot   == IF call.kind # DIR THEN pslot
                       ELSE IF r.res THEN call.name ELSE NULL
         IN  CreateTree(r.dc, slot, k + 1, fails, stop)

Init ==
    /\ module = "unloaded"
    /\ registered = FALSE
    /\ aufs_mount = NULL
    /\ gen = 0
    /\ dcache = [g \in Gens |-> FreshSb]
    /\ alive = [g \in Gens |-> FALSE]
    /\ umounts = [g \in Gens |-> 0]
    /\ enabled = 1

(* insmod: aufs_init, lines 193-223.  The module's static data is fresh:  *)
(* enabled is 1 again.                                                    *)
aufs_init ==
    /\ module = "unloaded"
    /\ gen < MaxLoads
    /\ gen' = gen + 1
    /\ enabled' = 1
    /\ UNCHANGED umounts
    /\ \/ /\ RegisterMayFail                  \* lines 199-203
          /\ UNCHANGED <<module, registered, aufs_mount, dcache, alive>>
       \/ /\ MountMayFail                     \* lines 205-210: returns 0
          /\ module' = "live"
          /\ aufs_mount' = ERR
          /\ UNCHANGED <<registered, dcache, alive>>
       \/ \E fails \in SUBSET (1..Len(Calls)),
             stop \in IF LookupMayFail THEN 0..Len(Calls) ELSE {0} :
          /\ Cardinality(fails) <= MaxAllocFailures
          /\ registered' = TRUE
          /\ aufs_mount' = gen'
          /\ alive' = [alive EXCEPT ![gen'] = TRUE]
          /\ dcache' = [dcache EXCEPT ![gen'] = CreateTree(FreshSb, NULL, 1, fails, stop)]
          \* an error pointer from lookup_one_len passes the IS_ERR test of
          \* line 100 and is dereferenced by aufs_mknod at line 52
          /\ module' = IF stop = 0 THEN "live" ELSE "oops"

(* Tear-down of sb g by its last mount: kill_litter_super.                *)
KillSb(g) == alive' = [alive EXCEPT ![g] = FALSE]

(* rmmod: aufs_exit, lines 226-231.  No .owner in aufs_type, so nothing   *)
(* a user mount holds keeps the module from being unloaded.               *)
aufs_exit ==
    /\ module = "live"
    /\ module' = "unloaded"
    /\ registered' = FALSE
    /\ aufs_mount' = NULL
    \* kern_unmount ignores an error pointer; the sb dies with its last mount
    /\ IF aufs_mount \in Gens /\ umounts[aufs_mount] = 0
       THEN KillSb(aufs_mount) ELSE UNCHANGED alive
    /\ UNCHANGED <<gen, dcache, umounts, enabled>>

(* mount -t aufs: the type is found while registered; mount_single shares *)
(* the superblock of the kernel mount.                                    *)
UserMount ==
    /\ registered
    /\ aufs_mount \in Gens
    /\ umounts[aufs_mount] < MaxUserMounts
    /\ umounts' = [umounts EXCEPT ![aufs_mount] = @ + 1]
    /\ UNCHANGED <<module, registered, aufs_mount, gen, dcache, alive, enabled>>

(* umount: the last reference to sb g kills it through aufs_type.kill_sb. *)
UserUmount(g) ==
    /\ umounts[g] > 0
    /\ umounts' = [umounts EXCEPT ![g] = @ - 1]
    /\ IF umounts[g] = 1 /\ aufs_mount # g THEN KillSb(g) ELSE UNCHANGED alive
    /\ UNCHANGED <<module, registered, aufs_mount, gen, dcache, enabled>>

(* A mutant of aufs_file_write: enabled takes res itself, not 0 or 1.     *)
aufs_file_write_raw(g, byte) ==
    /\ umounts[g] > 0
    /\ \E f \in DOMAIN dcache[g] : dcache[g][f].inode = REG
    /\ enabled' = byte - 48
    /\ UNCHANGED <<module, registered, aufs_mount, gen, dcache, alive, umounts>>

(* aufs_file_write, lines 153-163, on a file of a mounted sb g: the first *)
(* byte minus '0' decides enabled.                                        *)
aufs_file_write(g, byte) ==
    /\ umounts[g] > 0
    /\ \E f \in DOMAIN dcache[g] : dcache[g][f].inode = REG
    /\ enabled' = IF byte - 48 # 0 THEN 1 ELSE 0
    /\ UNCHANGED <<module, registered, aufs_mount, gen, dcache, alive, umounts>>

(* The first byte of the user buffer: '0', '1', or another character.     *)
Bytes == {48, 49, 120}

Next ==
    \/ aufs_init
    \/ aufs_exit
    \/ UserMount
    \/ \E g \in Gens : UserUmount(g)
    \/ \E g \in Gens, b \in Bytes : aufs_file_write(g, b)

Spec == Init /\ [][Next]_vars

-----------------------------------------------------------------------------
TypeOK ==
    /\ module \in {"unloaded", "live", "oops"}
    /\ registered \in BOOLEAN
    /\ aufs_mount \in {NULL, ERR} \cup Gens
    /\ gen \in 0..MaxLoads
    /\ \A g \in Gens : DOMAIN dcache[g] \subseteq Names \cup {ROOT}
                       /\ \A n \in DOMAIN dcache[g] : dcache[g][n] \in Dentry
    /\ alive \in [Gens -> BOOLEAN]
    /\ umounts \in [Gens -> 0..MaxUserMounts]
    /\ enabled \in {0, 1}

Positive(g, n) == dcache[g][n].inode # NOINODE

(* The link count aufs_mkdir and aufs_get_inode maintain: every directory *)
(* of a live superblock has nlink 2 plus one per subdirectory, whichever  *)
(* of the creations of aufs_init failed.                                  *)
NlinkCount ==
    \A g \in Gens : alive[g] =>
        \A n \in DOMAIN dcache[g] : dcache[g][n].inode = DIR =>
            dcache[g][n].nlink =
                2 + Cardinality({c \in DOMAIN dcache[g] \ {ROOT} :
                                   dcache[g][c].parent = n /\ dcache[g][c].inode = DIR})

(* kill_litter_super leaves no dentry in use: once d_genocide has dropped *)
(* the pin of every positive dentry, no reference taken by                *)
(* aufs_create_by_name (its lookup_one_len) is left over.                 *)
UnmountClean ==
    [][\A g \in Gens : alive[g] /\ ~alive'[g] =>
         \A n \in DOMAIN dcache[g] \ {ROOT} :
             dcache[g][n].count - (IF Positive(g, n) THEN 1 ELSE 0) = 0]_vars

(* A user mount only reaches code of a loaded module: every mounted sb    *)
(* belongs to the instance of the module that is loaded now.              *)
ModuleLiveWhileUsed ==
    \A g \in Gens : umounts[g] > 0 => module # "unloaded" /\ g = gen

(* aufs_init places every file it creates in the directory it names.      *)
FilesInTheirDir ==
    \A g \in Gens, k \in 1..Len(Calls) :
        LET c == Calls[k] IN
        c.kind = REG /\ c.name \in DOMAIN dcache[g] /\ Positive(g, c.name)
            => dcache[g][c.name].parent = c.dir

(* aufs_init never brings the kernel down.                                *)
NoOops == module # "oops"
=============================================================================
