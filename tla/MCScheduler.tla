---------------------------- MODULE MCScheduler ----------------------------
EXTENDS Scheduler

CONSTANTS a, b, c

MCPriority == a :> 1 @@ b :> 1 @@ c :> 2

=============================================================================
