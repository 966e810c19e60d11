------------------------------- MODULE MCHidMcu -------------------------------
EXTENDS HidMcu

\* A Pico that reboots by itself behind a sensed power line, and a
\* microcontroller with a reset pin only.
MCConfigs ==
  {[resetSelf |-> TRUE, resetPin |-> FALSE, powerPin |-> TRUE],
   [resetSelf |-> FALSE, resetPin |-> TRUE, powerPin |-> FALSE]}

=============================================================================
