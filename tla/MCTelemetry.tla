----------------------------- MODULE MCTelemetry -----------------------------
(* Instances of Telemetry for TLC.                                        *)
EXTENDS Telemetry

CONSTANTS r1, r2, p1, p2

Off == [log |-> FALSE, control |-> FALSE, quarantine |-> FALSE, elastic |-> FALSE,
        crashes |-> FALSE,
        requests |-> {r1, r2}, probes |-> {}, ticks |-> 1, stops |-> FALSE]

\* The log, the control plane and the monitor meet in nothing but the
\* sensors, so each is switched on by itself: the monitor with a clock (busy
\* times), crashes and recycled slots, one probe with a whole batch (the
\* sums), one with a clock and recycled slots, and two that compete; the
\* shutdown where it has something to end.
MCConfigs == {[Off EXCEPT !.log = TRUE, !.ticks = 0, !.stops = TRUE],
              [Off EXCEPT !.control = TRUE, !.probes = {p1}, !.ticks = 0],
              [Off EXCEPT !.control = TRUE, !.probes = {p1, p2}, !.requests = {r1}, !.ticks = 0,
                          !.stops = TRUE],
              [Off EXCEPT !.control = TRUE, !.probes = {p1}, !.requests = {r1}, !.elastic = TRUE],
              [Off EXCEPT !.quarantine = TRUE, !.elastic = TRUE, !.crashes = TRUE]}
MCSlots == 1 .. 1
MCBounds == <<0>>
=============================================================================
