---------------------------- MODULE MCEventQueue ----------------------------
\* Instances of EventQueue for TLC.
EXTENDS EventQueue

\* The reader thread and the analysis worker.
TwoProducers == {"reader", "worker"}
=============================================================================
