------------------------------ MODULE MCRouter ------------------------------
EXTENDS Router
CONSTANTS eth0, ppp0, addr1, route1, class1, dialup, tunnel
=============================================================================
