--------------------------- MODULE MCConfigPolicy ---------------------------
EXTENDS ConfigPolicy, TLC

CONSTANTS probe, portUsage, logMonitor

\* The goroutines are interchangeable.
CallerSymmetry == Permutations({probe, portUsage, logMonitor})

=============================================================================
