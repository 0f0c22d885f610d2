--------------------------- MODULE MCDnsSentinel ---------------------------
(* Small instances of DnsSentinel: a name, and one below it.               *)
EXTENDS DnsSentinel

CONSTANTS ip1, ip2

Above == <<"top">>
Below == <<"sub", "top">>
OneName == {Above}
TwoNames == {Above, Below}
BelowAndIp == {Below, ip1}
=============================================================================
