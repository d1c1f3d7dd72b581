--------------------------- MODULE MCUsbEndpoints ---------------------------
EXTENDS UsbEndpoints

\* Less than a packet, a packet, and more than one DMA transfer.
MCReadSizes == {1, 2, 5}
===========================================================================
