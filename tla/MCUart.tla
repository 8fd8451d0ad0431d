-------------------------------- MODULE MCUart --------------------------------
EXTENDS Uart
=============================================================================
