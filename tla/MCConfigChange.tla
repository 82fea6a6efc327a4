-------------------------- MODULE MCConfigChange --------------------------
(***************************************************************************)
(* ConfigChange for TLC: port 1 and the extra port 2 at first, port 4      *)
(* reserved, and requests that name all, some or one of the settings.      *)
(***************************************************************************)
EXTENDS ConfigChange

R(port, proto, addr, dns1, dns2, v6, extras) ==
    [port |-> port, proto |-> proto, addr |-> addr, dns1 |-> dns1,
     dns2 |-> dns2, v6 |-> v6, extras |-> extras]

MCRequests ==
    {R(2, "tcp", None, None, None, FALSE, {3}),
     R(2, "tcp", None, None, "d2", TRUE, None),
     R(1, "udp", "a2", "d1", "d2", TRUE, {2}),
     R(4, "tcp", None, None, None, None, None)}

==============================================================================
