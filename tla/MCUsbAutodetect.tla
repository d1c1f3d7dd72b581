-------------------------- MODULE MCUsbAutodetect --------------------------
(* UsbAutodetect with waits of a few cycles for 60000 and 3600000. *)
EXTENDS UsbAutodetect
===========================================================================
