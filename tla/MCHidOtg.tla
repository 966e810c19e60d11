------------------------------- MODULE MCHidOtg -------------------------------
EXTENDS HidOtg

CONSTANTS mouse, alt  \* the devices of the two mice

MCMouse == [m \in Modes |-> IF m = "usb_rel" THEN alt ELSE mouse]
MCModes == {"usb", "usb_rel"}

=============================================================================
