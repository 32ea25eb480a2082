\* What docs/cli/system.md says of `enable`, against what set-heartbeats does.
SPECIFICATION WakeSpec
CONSTANTS
  Runners <- MCRunners
  Sessions = {s}
  Untargeted = main
  Firings = {f1, f2}
PROPERTY EnableTurnsBackOn
CHECK_DEADLOCK FALSE
