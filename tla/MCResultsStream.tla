--------------------------- MODULE MCResultsStream ---------------------------
EXTENDS ResultsStream

\* Everything but the end of the pod, which would take the connection with it.
StreamFaults == FaultKinds \ {"rollout", "crash"}
=============================================================================
