SPECIFICATION NamedSpec
CHECK_DEADLOCK FALSE
CONSTANTS
  AgentNames = {a}
  MaxMessages = 3
  MaxIds = 3
  MaxTurns = 3
  MaxNotices = 1
PROPERTIES MessagesHandled ForkRequestPaired
