\* One load and unload: every rmmod reports dentries still in use.
\* report during aufs_init, user mounts and writes to its files.
CONSTANTS
    woman_star = woman_star
    man_star = man_star
    lbb = lbb
    fbb = fbb
    lj1 = lj1
    ldh = ldh
    lcw = lcw
    jw = jw
    Dirs <- MC_Dirs
    FilesOf <- MC_FilesOf
    ROOT = ROOT
    NOINODE = NOINODE
    DIR = DIR
    REG = REG
    NULL = NULL
    ERR = ERR
    MaxLoads = 1
    MaxUserMounts = 1
    MaxAllocFailures = 0
    RegisterMayFail = FALSE
    MountMayFail = FALSE
    LookupMayFail = FALSE
SPECIFICATION Spec
\* The module stops when it oopsed in aufs_init or after MaxLoads loads.
CHECK_DEADLOCK FALSE
PROPERTIES UnmountClean
