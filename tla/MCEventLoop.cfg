\* Four event objects at up to four times: a handler and update_world() can
\* both schedule in the step that empties a deque.
CONSTANTS
  Event = {e1, e2, e3, e4}
  MaxTime = 3
  MaxSteps = 2
  MaxBatch = 2
SPECIFICATION LoopSpec
PROPERTIES
  AgendaKept
  AllAndStepsReturn
  UntilReturns
