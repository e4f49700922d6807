--------------------------- MODULE MCDeliveryTasks ---------------------------
(* One contested task, one agent, two processors, two sweeps, one client.   *)
EXTENDS DeliveryTasks
CONSTANTS t1, a1, j1, j2, r1, s1, s2
=============================================================================
