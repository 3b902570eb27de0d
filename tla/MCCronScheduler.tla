-------------------------- MODULE MCCronScheduler --------------------------
(* One daemon with a job that keeps coming up and one that comes up once.  *)
EXTENDS CronScheduler

CONSTANTS busy, quiet

MCMaxOccasions == [j \in Job |-> IF j = busy THEN 3 ELSE 1]
MCMaxCliRuns == [j \in Job |-> IF j = busy THEN 1 ELSE 0]

=============================================================================
