---------------------------- MODULE MCCdcPulse ----------------------------
(* cdc_pulse.v as every instance of it is built: pSYNC_STAGES = 2.         *)
EXTENDS CdcPulse
===========================================================================
