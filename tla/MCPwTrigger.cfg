CONSTANTS
  NUM_PULSES = 2
  MAX_DELAY = 2
  Calls <- LegalCalls
SPECIFICATION FairTriggerSpec
INVARIANTS PulsesAsProgrammed
PROPERTIES TriggerEnds
