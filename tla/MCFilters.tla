------------------------------ MODULE MCFilters ------------------------------
EXTENDS Filters
CONSTANTS inward, onward, accept, icmp, web, mail, snat1, nohost, masq1, nonet
=============================================================================
