\* Both agents and four kinds of tasks: a ReAct agent whose commands carry a
\* timeout, and the Codex CLI.
SPECIFICATION GradedSpec
CONSTANTS
  Agents = {"react", "codex"}
  MaxCommands = 2
  MaxExpirations = 1
  Kinds = {"r2e", "swe_smith", "swe_bench", "deep_swe"}
  Edits <- SomeEdits
  Expectations <- SomeExpectations
  Outputs <- SomeOutputs
  MaxRegrades = 1
INVARIANTS
  SnapshotIsQuiet
  TimeoutKeepsSandbox
  GraderIsIndependent
  VerdictIsEarned
PROPERTIES
  KnownContainerIsRemoved
  ToolAgentTimeoutIsEnforced
CHECK_DEADLOCK FALSE
