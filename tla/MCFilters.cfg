SPECIFICATION Spec
CONSTANTS
    inward = inward
    onward = onward
    accept = accept
    icmp = icmp
    web = web
    mail = mail
    snat1 = snat1
    nohost = nohost
    masq1 = masq1
    nonet = nonet
    Chain = {inward, onward}
    Target = {accept, icmp}
    Forward = {web, mail}
    Snat = {snat1, nohost}
    Masq = {masq1, nonet}
    Unfit = {icmp, mail, nohost, nonet}
    MaxRules = 2
    MaxEdits = 4
INVARIANTS TablesFollowFlags DaemonComesBack
