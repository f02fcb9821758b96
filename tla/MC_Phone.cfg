\* Smartphone control over two experiments: every adb call may fail.
CONSTANTS
  NumDevices <- MCNumDevices
  AppSeq <- MCAppSeq
  IptablesDevices <- MCIptables
  XprivacyDevices <- MCXprivacy
  WhiteList = TRUE
  Selected <- MCSelected
  MaxExperiments <- MCMaxExperiments
SPECIFICATION Spec
INVARIANTS
  TypeOK
  InputOnAwakeScreen
  WifiOffBetweenRuns
PROPERTIES
  SessionEnds
\* The wrapper ends after its last experiment or after a fatal one.
CHECK_DEADLOCK FALSE
