------------------------------ MODULE Exporter ------------------------------
(***************************************************************************)
(* The Prometheus exporter of the controller (cmd/controller/prometheus):  *)
(* once a second it takes AggregateData from the storage, here the         *)
(* in-memory one, and sets its gauges, all under the lock that Collect     *)
(* takes.  A gauge vector keeps a series for each label it was ever set    *)
(* for until it is Reset.  Of the sums over GPUs only the counts are kept; *)
(* what the percentiles are is the business of Percentiles.                *)
(***************************************************************************)
EXTENDS MemdbStorage

CONSTANTS GpuName,  \* the name of the one GPU each agent has
          NoLabel   \* the label of a gauge without any

ASSUME ExporterAssumption == NoLabel \notin {GpuName[a] : a \in Agent}

VARIABLE gauges

exporterVars == <<vars, gauges>>

\* How many items have each label; label is a function of the items.
Count(label) ==
    [l \in {label[i] : i \in DOMAIN label} |->
        Cardinality({i \in DOMAIN label : label[i] = l})]

Rows == {a \in Agent : Present(a)}

Listings == {l \in Agent \X Session : Present(l[1]) /\ l[2] \in Ids(l[1])}

\* One pass over the agents of a snapshot; a session counts in the state its
\* agent's row has it in.
AggregateData ==
    [agents         |-> [l \in {NoLabel} |-> Cardinality(Rows)],
     agentsByStatus |-> Count([a \in Rows |-> aState[a]]),
     sessions       |-> [l \in {NoLabel} |-> Cardinality(Listings)],
     sessionsByStatus |-> Count([l \in Listings |-> mirror[l[1]][l[2]]]),
     gpusByGpuName  |-> Count([a \in Rows |-> GpuName[a]]),
     vramGBAvailableByGpuName |-> [n \in {GpuName[a] : a \in Rows} |-> "percentiles"]]

Series == DOMAIN AggregateData

ExporterInit ==
    /\ Init
    /\ gauges = [g \in Series |->
           IF g \in {"agents", "sessions"} THEN [l \in {NoLabel} |-> 0] ELSE <<>>]

\* Mutant of Reset: the sessions by status are not reset.
SomeReset == {"agentsByStatus", "gpusByGpuName"}

\* The gauge vectors update resets before it sets them; the percentiles by GPU
\* name it only sets.
Reset == {"agentsByStatus", "sessionsByStatus", "gpusByGpuName"}

\* Set for each label of data; the other series stay.
WithSet(series, data) ==
    [l \in DOMAIN series \cup DOMAIN data |-> IF l \in DOMAIN data THEN data[l] ELSE series[l]]

Update ==
    /\ up
    /\ gauges' = [g \in Series |->
           IF g \in Reset THEN AggregateData[g] ELSE WithSet(gauges[g], AggregateData[g])]
    /\ UNCHANGED vars

ExporterNext == (Next /\ UNCHANGED gauges) \/ Update

ExporterSpec == ExporterInit /\ [][ExporterNext]_exporterVars

----------------------------------------------------------------------------

Sum(series) == MapThenSumSet(LAMBDA l : series[l], DOMAIN series)

\* What a scrape sees adds up: the series by status and by GPU are those of the
\* one snapshot the totals are from, whatever was exported before (update);
\* and no GPU is without its percentiles.
SeriesAddUp ==
    /\ Sum(gauges["agentsByStatus"]) = gauges["agents"][NoLabel]
    /\ Sum(gauges["sessionsByStatus"]) = gauges["sessions"][NoLabel]
    /\ Sum(gauges["gpusByGpuName"]) = gauges["agents"][NoLabel]
    /\ DOMAIN gauges["gpusByGpuName"] \subseteq DOMAIN gauges["vramGBAvailableByGpuName"]

=============================================================================
