-------------------------------- MODULE MCDns --------------------------------
EXTENDS Dns, TLC
CONSTANTS zone1, zone2, host1, ip1
MCSymmetry == Permutations({zone1, zone2})
=============================================================================
