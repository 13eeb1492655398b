CONSTANTS
  Protocols = {"openai", "anthropic"}
  MaxOutput = 3
SPECIFICATION Spec
INVARIANT MissingUsageIsEstimated
CHECK_DEADLOCK FALSE
