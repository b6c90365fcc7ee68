-------------------------- MODULE MCServerConnect --------------------------
(* Two servers: a plain one that may be disabled, and a static dual-stack one with obfuscation. *)
EXTENDS ServerConnect

Plain == [preferred |-> FALSE, required |-> FALSE, safe |-> FALSE, smart |-> FALSE,
          reconnect |-> FALSE, preferIPv6 |-> FALSE, staticOnly |-> FALSE, autoConnect |-> FALSE]
(* The preferences the program ships, and sets that switch its branches one by one. *)
Shipped == [Plain EXCEPT !.preferred = TRUE, !.safe = TRUE, !.smart = TRUE, !.reconnect = TRUE,
                         !.preferIPv6 = TRUE, !.autoConnect = TRUE]
Handover == [Plain EXCEPT !.preferred = TRUE, !.reconnect = TRUE, !.preferIPv6 = TRUE]
Auto == [Plain EXCEPT !.preferred = TRUE, !.reconnect = TRUE, !.autoConnect = TRUE]
Required == [Plain EXCEPT !.preferred = TRUE, !.required = TRUE, !.safe = TRUE]
StaticOnly == [Plain EXCEPT !.staticOnly = TRUE, !.smart = TRUE]
MCConfigs == {Shipped, Auto, Required, StaticOnly}
ShippedOnly == {Shipped}
MCConfigsAll == MCConfigs \cup {Handover, [Shipped EXCEPT !.safe = FALSE]}
=============================================================================
