------------------------- MODULE MonitoredDashboard -------------------------
(***************************************************************************)
(* The dashboard over the log of the live monitor: a record is in the log  *)
(* if its write did not fail.                                              *)
(***************************************************************************)
EXTENDS LiveMonitor, Dashboard

CONSTANT MaxLog     \* bound of the model: records in a log the slices are computed of

Log == [i \in DOMAIN written |-> records[written[i]]]

(* While every record reached the log, the dashboard's counts over all of  *)
(* it are those that the monitor keeps.                                    *)
DashboardMatchesMonitor ==
  Len(written) = Len(records) =>
    LET state == DashboardState(Log, 0, "all") IN
      /\ state.incidents = counts["total"]
      /\ state.blocked = counts["blocked"]
      /\ state.attackers >= Len(known)
      /\ state.attackers <= Cap => state.attackers = Len(known)

(* The dashboard computes its slices one by one, some from the whole log   *)
(* and some from a range of it. At every time and for every range they     *)
(* agree with each other, and with what the monitor counted.               *)
DashboardAgrees ==
  /\ DashboardMatchesMonitor
  /\ Len(records) <= MaxLog =>
       \A now \in 1..MaxTime, range \in Ranges :
         SlicesAgree(DashboardState(Log, now, range))
=============================================================================
