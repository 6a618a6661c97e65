----------------------------- MODULE HfscCurve -----------------------------
(***************************************************************************)
(* Service-curve arithmetic of net/sched/sch_hfsc.c (lines 400-666): the   *)
(* fixed-point conversion of an external curve (m1, d, m2) into the        *)
(* internal representation, evaluation of a runtime curve in both          *)
(* directions, and rtsc_min, the lower envelope of a runtime curve and a   *)
(* curve re-anchored at (x, y).                                            *)
(*                                                                         *)
(* Every u64 of the code is an integer modulo 2^WIDTH, every u32 one       *)
(* modulo 2^WIDTH32, so that wrap-around behaves as in the code at a       *)
(* width TLC can enumerate.  CLK stands for PSCHED_JIFFIE2US(HZ) (clock    *)
(* ticks per second) and USEC for the 1000000 microseconds of a second.    *)
(***************************************************************************)
EXTENDS Naturals

CONSTANTS SM_SHIFT, ISM_SHIFT, WIDTH, WIDTH32, CLK, USEC

ASSUME /\ SM_SHIFT \in Nat /\ ISM_SHIFT \in Nat
       /\ WIDTH \in Nat \ {0} /\ WIDTH32 \in 1..WIDTH
       /\ CLK \in Nat \ {0} /\ USEC \in Nat \ {0}

U64 == 2^WIDTH
U32 == 2^WIDTH32

\* u64 and u32 arithmetic: results are reduced modulo the word size.
W(n) == n % U64
W32(n) == n % U32

\* HT_INFINITY, the all-ones u64.
HT_INFINITY == U64 - 1

\* The values an external curve parameter (u32) and an internal one (u64)
\* may take.
U64Val == 0..(U64 - 1)

\* struct internal_sc and struct runtime_sc.
InternalSC == [sm1 : U64Val, ism1 : U64Val, dx : U64Val, dy : U64Val,
               sm2 : U64Val, ism2 : U64Val]
RuntimeSC  == [x : U64Val, y : U64Val, sm1 : U64Val, ism1 : U64Val,
               dx : U64Val, dy : U64Val, sm2 : U64Val, ism2 : U64Val]

\* seg_x2y: y = x * sm >> SM_SHIFT, split into high and low bits of x.
seg_x2y(x, sm) ==
  W(W((x \div 2^SM_SHIFT) * sm) + (W((x % 2^SM_SHIFT) * sm) \div 2^SM_SHIFT))

\* seg_y2x: x = y * ism >> ISM_SHIFT, with 0 and HT_INFINITY special-cased.
seg_y2x(y, ism) ==
  IF y = 0 THEN 0
  ELSE IF ism = HT_INFINITY THEN HT_INFINITY
  ELSE W(W((y \div 2^ISM_SHIFT) * ism)
         + (W((y % 2^ISM_SHIFT) * ism) \div 2^ISM_SHIFT))

\* m2sm, m2ism, d2dx: conversions rounded up, as do_div after adding the
\* divisor minus one.
m2sm(m)  == W(m * 2^SM_SHIFT + CLK - 1) \div CLK
m2ism(m) == IF m = 0 THEN HT_INFINITY
            ELSE W(CLK * 2^ISM_SHIFT + m - 1) \div m
d2dx(d)  == W(d * CLK + USEC - 1) \div USEC

\* sc2isc: external curve [m1, d, m2] to internal curve.
sc2isc(sc) ==
  LET sm1 == m2sm(sc.m1)
      dx  == d2dx(sc.d)
  IN [sm1 |-> sm1, ism1 |-> m2ism(sc.m1), dx |-> dx, dy |-> seg_x2y(dx, sm1),
      sm2 |-> m2sm(sc.m2), ism2 |-> m2ism(sc.m2)]

\* rtsc_init: the runtime curve of isc anchored at (x, y).
rtsc_init(isc, x, y) ==
  [x |-> x, y |-> y, sm1 |-> isc.sm1, ism1 |-> isc.ism1, dx |-> isc.dx,
   dy |-> isc.dy, sm2 |-> isc.sm2, ism2 |-> isc.ism2]

\* rtsc_y2x: the x at which the runtime curve reaches y.
rtsc_y2x(rt, y) ==
  IF y < rt.y THEN rt.x
  ELSE IF y <= W(rt.y + rt.dy)
       THEN IF rt.dy = 0 THEN W(rt.x + rt.dx)
            ELSE W(rt.x + seg_y2x(W(y - rt.y), rt.ism1))
  ELSE W(W(rt.x + rt.dx) + seg_y2x(W(W(y - rt.y) - rt.dy), rt.ism2))

\* rtsc_x2y: the y of the runtime curve at x.
rtsc_x2y(rt, x) ==
  IF x <= rt.x THEN rt.y
  ELSE IF x <= W(rt.x + rt.dx)
       THEN W(rt.y + seg_x2y(W(x - rt.x), rt.sm1))
  ELSE W(W(rt.y + rt.dy) + seg_x2y(W(W(x - rt.x) - rt.dx), rt.sm2))

\* Seeded fault: the intersection offset divides by sm1 instead of the
\* slope difference.
rtsc_min_dsm(rt, isc, x, y) ==
  IF isc.sm1 <= isc.sm2
  THEN IF rtsc_x2y(rt, x) < y THEN rt
       ELSE [rt EXCEPT !.x = x, !.y = y]
  ELSE LET y1 == rtsc_x2y(rt, x)
           y2 == rtsc_x2y(rt, W(x + isc.dx))
           dx0 == W(W(y1 - y) * 2^SM_SHIFT) \div W32(isc.sm1)
           dx  == IF W(rt.x + rt.dx) > x THEN W(dx0 + W(W(rt.x + rt.dx) - x))
                  ELSE dx0
       IN IF y1 <= y THEN rt
          ELSE IF y2 >= W(y + isc.dy)
               THEN [rt EXCEPT !.x = x, !.y = y, !.dx = isc.dx, !.dy = isc.dy]
          ELSE [rt EXCEPT !.x = x, !.y = y, !.dx = dx,
                          !.dy = seg_x2y(dx, isc.sm1)]

\* rtsc_min: the runtime curve after taking the minimum of rt and isc
\* anchored at (x, y).  For a concave isc the intersection offset is
\* found by dividing by the u32 difference of the slopes (dsm).
rtsc_min(rt, isc, x, y) ==
  IF isc.sm1 <= isc.sm2
  THEN IF rtsc_x2y(rt, x) < y THEN rt
       ELSE [rt EXCEPT !.x = x, !.y = y]
  ELSE LET y1 == rtsc_x2y(rt, x)
           y2 == rtsc_x2y(rt, W(x + isc.dx))
           dsm == W32(isc.sm1 - isc.sm2)
           dx0 == W(W(y1 - y) * 2^SM_SHIFT) \div dsm
           dx  == IF W(rt.x + rt.dx) > x THEN W(dx0 + W(W(rt.x + rt.dx) - x))
                  ELSE dx0
       IN IF y1 <= y THEN rt
          ELSE IF y2 >= W(y + isc.dy)
               THEN [rt EXCEPT !.x = x, !.y = y, !.dx = isc.dx, !.dy = isc.dy]
          ELSE [rt EXCEPT !.x = x, !.y = y, !.dx = dx,
                          !.dy = seg_x2y(dx, isc.sm1)]
=============================================================================
