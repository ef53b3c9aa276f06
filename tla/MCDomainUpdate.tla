--------------------------- MODULE MCDomainUpdate ---------------------------
(* e0 is configured, e1 and e2 are further domains; host has no dot, ip is *)
(* an address and url a URL.                                               *)
EXTENDS DomainUpdate

CONSTANTS e0, e1, e2, host, ip, url
=============================================================================
