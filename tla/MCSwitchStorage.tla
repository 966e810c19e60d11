--------------------------- MODULE MCSwitchStorage ---------------------------
EXTENDS SwitchStorage

MCClients == {Saver, Runner}

=============================================================================
