---------------------------- MODULE MCEcCombine -----------------------------
EXTENDS EcCombine

CONSTANTS e1, e2, x1, x2, u1, u2

\* Answers that tell the cases of ec_combine_check apart: successes that
\* agree, differ only in their owner (a mismatch only when the inode is
\* locked) or in their times and blocks (merged), or in xdata; failures
\* with the same or another errno.
MC_Answers ==
  { [ret |-> 0, errno |-> e1, xdata |-> x1, uid |-> u1, blocks |-> 1, sec |-> 0, nsec |-> 1],
    [ret |-> 0, errno |-> e2, xdata |-> x1, uid |-> u1, blocks |-> 2, sec |-> 0, nsec |-> 0],
    [ret |-> 0, errno |-> e1, xdata |-> x1, uid |-> u2, blocks |-> 1, sec |-> 1, nsec |-> 0],
    [ret |-> 0, errno |-> e1, xdata |-> x2, uid |-> u1, blocks |-> 1, sec |-> 0, nsec |-> 0],
    [ret |-> -1, errno |-> e1, xdata |-> x1, uid |-> u1, blocks |-> 0, sec |-> 0, nsec |-> 0],
    [ret |-> -1, errno |-> e2, xdata |-> x1, uid |-> u1, blocks |-> 0, sec |-> 0, nsec |-> 0] }
=============================================================================
