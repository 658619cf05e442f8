CONSTANTS
  Names = {"allowed", "other"}
  AllowedCR = "allowed"
  Size <- DefSize
  Foreground = {"other"}
  Verdicts = {"single"}
  Failures = {"deploy-failed"}
  Blockers = {"customer-stream-exists"}
  ZoneCounts = {1}
SPECIFICATION Spec
INVARIANTS
  TypeOK
  SettledVerdict
PROPERTY
  SizeIsExported
