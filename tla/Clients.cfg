SPECIFICATION PackageSpec
CONSTANTS
  Workloads <- MCWorkloads
  OutputInputs <- MCOutputs
  Documents <- MCDocuments
  CoinsPerUtxoByte = 4310
INVARIANTS InStep OwnResponse InFlightAccounted CloseReported
INVARIANTS SizeAsLedger OneRound SanitizedAsTyped
PROPERTY CallsSettle
CHECK_DEADLOCK FALSE
