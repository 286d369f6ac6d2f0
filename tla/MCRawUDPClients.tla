---------------------------- MODULE MCRawUDPClients ----------------------------
EXTENDS RawUDPClients

Plain == {"offline", "frame"} \cup Frags

Load(c, n, o, ks, s) == [clients |-> c, packets |-> n, outside |-> o, kinds |-> ks, size |-> s]

Loads3 ==
    {Load(1, 3, 0, Plain, "fits"), Load(1, 2, 1, Plain, "fits"), Load(2, 2, 0, Plain, "fits"),
     Load(1, 5, 0, Frags \cup {"other"}, "fits")}
    \cup {Load(1, 3, 0, Frags, s) : s \in {"parts", "bytes"}}
================================================================================
