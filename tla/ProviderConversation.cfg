SPECIFICATION Spec
CONSTANTS
  CallIds = {a, b}
  Tools = {"edit_file", "stop_investigation"}
  Stop = "stop_investigation"
  MaxCalls = 2
  MaxMessages = 6
  MaxChars = 9
  MaxRounds = 3
  Script <- MCScript
INVARIANTS
  TypeOK
  ConversationFaithful
  NativeMirrors
  NothingAfterStop
  OnlyAuthorizedRequests
CHECK_DEADLOCK FALSE
