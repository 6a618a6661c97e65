\* Load/unload cycles of the aufs module with every failure the VFS can
\* report during aufs_init, user mounts and writes to its files.
CONSTANTS
    woman_star = woman_star
    man_star = man_star
    lbb = lbb
    fbb = fbb
    lj1 = lj1
    ldh = ldh
    lcw = lcw
    jw = jw
    Dirs <- MC_Dirs
    FilesOf <- MC_FilesOf
    ROOT = ROOT
    NOINODE = NOINODE
    DIR = DIR
    REG = REG
    NULL = NULL
    ERR = ERR
    MaxLoads = 3
    MaxUserMounts = 1
    MaxAllocFailures = 1
    RegisterMayFail = TRUE
    MountMayFail = TRUE
    LookupMayFail = TRUE
SPECIFICATION Spec
\* The module stops when it oopsed in aufs_init or after MaxLoads loads.
CHECK_DEADLOCK FALSE
INVARIANTS TypeOK NlinkCount
