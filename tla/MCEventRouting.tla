--------------------------- MODULE MCEventRouting ---------------------------
EXTENDS EventRouting

CONSTANTS anomaly, risk     \* the two routed-to peers of the deployment

\* azure_anomaly detects anomalies; gcp_risk stores events and computes risk.
MCProviders == <<{anomaly}, {risk}, {risk}>>

=============================================================================
