\* The time limit of the agent, for a Codex run that does not end by itself.
SPECIFICATION FairSpec
CONSTANTS
  Agents = {"codex"}
  MaxCommands = 1
  MaxExpirations = 1
PROPERTIES
  AgentTimeoutIsEnforced
CHECK_DEADLOCK FALSE
