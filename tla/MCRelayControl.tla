--------------------------- MODULE MCRelayControl ---------------------------
(* RelayControl on small instances.  Commands are 1 (one relay) and 256,   *)
(* whose low byte is 0: it does not fit the 8-bit copy of the mask.        *)
EXTENDS RelayControl

MCCommands == {1, 256}
MCOneCommand == {1}
=============================================================================
