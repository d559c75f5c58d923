\* Requests with up to 8 arguments. A request may leave the format string, or
\* read through NULL: then the server may stop.
SPECIFICATION Spec
CONSTANTS
  Size = 256
  Home <- ServerHome
  Startup <- ServerStartup
  Requests <- ServerRequests
  MaxArgs = 8
INVARIANTS TypeOK FormatFollowed
PROPERTIES RequestsEnd
CHECK_DEADLOCK FALSE
