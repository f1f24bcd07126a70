----------------------------- MODULE MCEnvStrings -----------------------------
(* Instances of EnvStrings for TLC.                                        *)
EXTENDS EnvStrings

Req(via, text, port) == [via |-> via, text |-> text, port |-> port]

\* one name by header and by authority, another text that pushes it out
Rivals == {Req("host", <<"a", 0>>, 80), Req("authority", <<"a", 0>>, 80),
           Req("authority", <<"a", 90>>, 80),
           Req("value", <<"u", 1>>, 80), Req("body", <<"x", 1>>, 80)}

OneToTen == 1 .. 10
CodeSlots == 11 .. 10 + (HostCap + 1) * 2 + (ValueCap + 1)
OnePin == {31}
=============================================================================
