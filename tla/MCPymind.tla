------------------------------ MODULE MCPymind ------------------------------
EXTENDS Pymind
MCNames == {<<"n", "n">>}
MCUnknown == <<"N", "N", "N">>
MCHelpName == <<"n">>
MCDataName == <<"N">>
MCParentName == <<"N", "n">>
MCParameter == <<"N">>
=============================================================================
