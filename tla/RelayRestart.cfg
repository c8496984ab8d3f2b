\* Two transactions, the second one over the receipt and the event of the first,
\* two failed writes or launches and one stop of the machine.
SPECIFICATION Spec
CONSTANTS
  Owners = {o1}
  Host = host
  Free = free
  MaxTransitions = 2
  MaxOutbox = 1
  MaxFaults = 2
  MaxCrashes = 1
INVARIANTS
  RelayTypeOK
  ReceiptTellsTheFiles
  RunsWhatIsRecorded
  OutcomeNotLost
  OneOutcome
PROPERTIES
  NoEventDropped
  ImplementsSettleOnce
