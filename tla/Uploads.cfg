SPECIFICATION Spec
CONSTANTS
  Files <- MCFiles
  NULL = NULL
  Failed = Failed
INVARIANTS ConfirmsThePreview DatesAsWritten AmountsAsWritten NoneLeftOut
           RightMappingReadsAll TransactionsApart
PROPERTIES SamePreview
