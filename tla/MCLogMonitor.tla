---------------------------- MODULE MCLogMonitor ----------------------------
EXTENDS LogMonitor

CONSTANTS i1, i2, i3

=============================================================================
