-------------------------- MODULE MCGpuInFlight --------------------------
\* GpuInFlight with three threads, two dedicated sequences and two pooled.
EXTENDS GpuInFlight

CONSTANTS d1, d2, q1, q2

SomeBatches == {<<d1>>, <<q1, d1>>}
=============================================================================
