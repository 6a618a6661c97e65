------------------------------- MODULE MCNfLog -------------------------------
(* Model-checking instance of NfLog: two protocol families, two logger     *)
(* modules, one unbinder thread and two CPUs.                              *)
EXTENDS NfLog

CONSTANTS l1, l2, t1, c1, c2

MC_Loggers == {l1, l2}
MC_Unbinders == {t1}
MC_Cpus == {c1, c2}
=============================================================================
