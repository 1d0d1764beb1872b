----------------------------- MODULE MCScheduler -----------------------------
EXTENDS SchedulerProps

CONSTANTS s1, s2, s3, daily, never, g1, g2

\* s1 is the one whose expression matches no date.
AnyUsers == {<<s1, never>>, <<s2, daily>>, <<s3, daily>>}

=============================================================================
