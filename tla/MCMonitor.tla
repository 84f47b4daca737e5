----------------------------- MODULE MCMonitor -----------------------------
(***************************************************************************)
(* The live monitor and the dashboard that reads its log, on a small       *)
(* instance: four sources, stores for two.                                 *)
(***************************************************************************)
EXTENDS MonitoredDashboard

CONSTANTS s1, s2, s3, s4

MCSources == {s1, s2, s3, s4}
MCSafelisted == {s4}
MCRangeSpans == [h |-> 1, d |-> 2]

Symmetry == Permutations({s1, s2, s3})

(* The kinds of event: not worth a look, refused by the policy, blocked.   *)
Kinds == {<<"low", TRUE>>, <<"middle", FALSE>>, <<"high", TRUE>>}

Init == MonitorInit

(* What is safelisted would be alerted otherwise. At most one write fails. *)
Next ==
  \E s \in Sources, t \in Times, k \in Kinds :
    /\ s \in Safelisted => k[1] = "high"
    /\ RecordEvent(s, t, k[1], k[2])
    /\ Len(written') + 1 >= Len(records')

Spec == Init /\ [][Next]_monitorVars
=============================================================================
