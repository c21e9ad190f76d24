----------------------------- MODULE MCDemoLife -----------------------------
(* DemoLife for TLC: a pool of two workers.                                *)
EXTENDS DemoLife

TwoWorkers == <<"worker1", "worker2">>
OneWorker  == <<"worker1">>
=============================================================================
