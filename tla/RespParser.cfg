\* The client may stop at any byte and the server then waits for it.
SPECIFICATION Spec
CONSTANTS
  Inputs <- MCInputs
  PageSize = 19
  MaxChars = 5
INVARIANTS TypeOK CommandsParsed
PROPERTIES PromptlyParsed
CHECK_DEADLOCK FALSE
