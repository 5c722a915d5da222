SPECIFICATION Spec
CONSTANTS
  Checks = {"check_feature_store_completeness", "check_bronze_timestamp_range"}
  MaxRows = 3
INVARIANTS
  TypeOK
  GateHoldsBack
  AuditRows
  RowsPerAttempt
