------------------------------ MODULE MCSpiQueue ------------------------------
EXTENDS SpiQueue
=============================================================================
