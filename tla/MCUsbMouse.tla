----------------------------- MODULE MCUsbMouse -----------------------------
EXTENDS UsbMouse
=============================================================================
