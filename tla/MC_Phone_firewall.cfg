\* A failed app_execution leaves its firewall rule behind.
CONSTANTS
  NumDevices <- MCNumDevices
  AppSeq <- MCAppSeq
  IptablesDevices <- MCIptables
  XprivacyDevices <- MCXprivacy
  WhiteList = TRUE
  Selected <- MCSelected
  MaxExperiments <- MCMaxExperiments
SPECIFICATION Spec
INVARIANTS
  FirewallClosedWhenIdle
\* The wrapper ends after its last experiment or after a fatal one.
CHECK_DEADLOCK FALSE
