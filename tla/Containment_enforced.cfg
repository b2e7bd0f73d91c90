SPECIFICATION OverrideSpec
CONSTANTS
  shell = shell
  Timed <- OneTool
  Trust <- NoAgent
  Durations <- ShortAndLong
INVARIANT DeniedToolsDoNotRun
