------------------------------- MODULE MCAufs -------------------------------
(* The tree aufs_init builds, lines 212-220 of src/aufs/aufs.c.           *)
EXTENDS Aufs

CONSTANTS woman_star, man_star, lbb, fbb, lj1, ldh, lcw, jw

MC_Dirs == <<woman_star, man_star>>
MC_FilesOf == (woman_star :> <<lbb, fbb, lj1>>) @@ (man_star :> <<ldh, lcw, jw>>)
=============================================================================
