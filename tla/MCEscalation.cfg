SPECIFICATION Spec
CONSTANTS
  Worker <- MCWorker
  MaxPolls = 1
  Retries = 1
  FallbackToTriage = TRUE
  Target <- MCTarget
  Config <- MCConfig
  Fix <- MCFix
  Diagnosis <- MCDiagnosis
  Restored <- MCRestored
  MinConfidence = 1
INVARIANT EscalationsReachAHuman
