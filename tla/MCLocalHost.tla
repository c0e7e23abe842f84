---------------------------- MODULE MCLocalHost ----------------------------
EXTENDS LocalHost

MCLaunches ==
  {[mode |-> "entity", effects |-> {"Task", "Timer"}, clients |-> {"m1", "m2", "f1"}],
   [mode |-> "root", effects |-> {"Source", "Observer"}, clients |-> {"m1", "Shutdown"}],
   [mode |-> "child", effects |-> {"Report", "Child", "Service"}, clients |-> {"m1", "Shutdown"}],
   [mode |-> "child", effects |-> {"Source", "Task"}, clients |-> {"f1"}]}
=============================================================================
