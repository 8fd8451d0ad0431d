-------------------------------- MODULE MCGpio --------------------------------
EXTENDS GpioInterrupt
=============================================================================
