------------------------------ MODULE MCSchedSim ------------------------------
(***************************************************************************)
(* SchedSim with three processes: each there at the start or submitted at  *)
(* tick 2, and with a burst that is short and then blocks for long, long   *)
(* and blocks briefly, or longer than a quantum of RR without blocking.    *)
(***************************************************************************)
EXTENDS SchedSim

\* The second process may have a priority FEEDBACK has no quantum for.
Tasks(prios) ==
  {[sub |-> s, prio |-> q, exec |-> b[1], block |-> b[2]] :
      s \in {0, 2}, q \in prios, b \in {<<1, 3>>, <<2, 1>>, <<3, 0>>}}

MCWorkloads ==
  {<<a, b, c>> : a \in Tasks({1}), b \in Tasks({4}), c \in Tasks({0})}
=============================================================================
