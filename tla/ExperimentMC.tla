---------------------------- MODULE ExperimentMC ----------------------------
(***************************************************************************)
(* Small instances of Experiment for TLC.                                  *)
(***************************************************************************)
EXTENDS Experiment, TLC

CONSTANTS n1, n2, p1, p2, p3, k1, k2, k3

MCNodes == {n1, n2}
MCKeys == {k1, k2, k3}
MCStringKeys == {k1, k2}

\* The endpoint is a master, or was until the other one took over from it; or the other
\* one has no line yet, or is not in order.
MCViews == {n1 :> {"myself", "master"} @@ n2 :> {"master"},
            n1 :> {"myself", "slave"} @@ n2 :> {"master"},
            n1 :> {"myself", "master"} @@ n2 :> {"slave", "nofailover"},
            n1 :> {"myself", "master", "fail?"}}
MCConfigured == <<n1, n2>>
MCPauses == {p1, p2, p3}
MCRequests == p1 :> {[duration |-> 2, mode |-> "ALL", cluster |-> TRUE]}
           @@ p2 :> {[duration |-> 1, mode |-> "WRITE", cluster |-> FALSE]}
           @@ p3 :> {[duration |-> 2, mode |-> "ALL", cluster |-> FALSE]}

\* Two pauses that overlap, a pause or the sleep next to each other, to a check or to the
\* discovery; a scan, whose calls fail anyway.
MCExperiments == {{p1, p2}, {p1, Sleep}, {p3, Check}, {Sleep, Check},
                  {Sleep, Discovering}, {Scanning}}

\* The sleeping attack alone.
SleepAlone == {{Sleep}}

AllKinds == {"memory", "connections", "replication", "latency"}

\* Readings around the thresholds of 80 percent and 5, and the lag of a replica without link.
SomeValues == {-1, 0, 4, 5, 6}
=============================================================================
