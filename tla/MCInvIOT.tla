------------------------------ MODULE MCInvIOT ------------------------------
(* Constants of InvIOT for TLC: hours of one tick, two devices, two serials. *)
EXTENDS InvIOT

Device(s, b, m) == [serial |-> s, brand |-> b, mppt |-> m]

\* Two devices, the second of a brand without a driver or not.
File(d, brand, m) ==
    [duration |-> d, num |-> 2,
     dev |-> [i \in Index |-> IF i = 0 THEN Device("s1", brand, m) ELSE Device("s2", "SimDev", 1)]]

Bounds(start, signal, crash, clockSet, edit, fault) ==
    [e \in Events |->
        CASE e = "start" -> start [] e = "signal" -> signal [] e = "crash" -> crash
          [] e = "clock" -> clockSet [] e = "edit" -> edit [] e = "fault" -> fault]

\* Restarts after a crash, clock changes and edits of solar.conf, without signals.
\* The times are around the start and the end of working time.
RestartFiles == {File(1, "SimDev", 1), File(2, "SimDev", 2), File(4, "Other", 2)}
RestartCounts == {0, 1, 2}
RestartTimes == {3, 4, 5, 20}
RestartBudget == Bounds(2, 0, 1, 1, 1, 1)

\* Signals on either thread at every point of one process.
SignalFiles == {File(0, "SimDev", 1), File(1, "Other", 1)}
SignalCounts == {0, 2}
SignalTimes == {4, 5}
SignalBudget == Bounds(1, 2, 0, 0, 0, 1)
=============================================================================
