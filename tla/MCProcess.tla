----------------------------- MODULE MCProcess ------------------------------
(* A small instance of Process for TLC.                                    *)
EXTENDS Process

WarpPorts == <<2408, 500, 1701, 4500>>

At2(ip, port) == [ip |-> ip, port |-> port]

\* One address; two addresses, the first listed again; an unusual port, and an
\* address that comes at two ports.
WarpConfigs ==
    {[endpoint |-> At2("i1", 2408), candidates |-> <<>>],
     [endpoint |-> At2("i1", 2408), candidates |-> <<At2("i1", 2408), At2("i2", 500)>>],
     [endpoint |-> At2("i1", 9999), candidates |-> <<At2("i2", 2408), At2("i2", 500)>>]}
=============================================================================
