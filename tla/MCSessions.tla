----------------------------- MODULE MCSessions -----------------------------
(* Instances of Sessions.  Sessions share nothing but the sweeper, so one     *)
(* connection with repeated requests, beside a legacy row, is enough; its     *)
(* token is never good, expires early or outlives the run.                    *)

EXTENDS Sessions

CONSTANTS s1, s2

WithLegacyRow == {s1, s2}
LegacyRow == {s2}
TwoTries == {1, 2}

SomeExpiries == {0, 2, MaxTime + 1}
=============================================================================
