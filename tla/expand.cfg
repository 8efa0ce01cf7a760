\* exec over env files as they may be written.
CONSTANTS
  Names <- ABC
  Order <- Alphabetical
  Inputs <- SmallInputs
SPECIFICATION FairSpec
CHECK_DEADLOCK FALSE
INVARIANTS TypeOK LinesReadRight ExpansionExact ChildSeesItsPorts NoReentry
PROPERTIES Ends
