--------------------------- MODULE MCExitHistory ---------------------------
EXTENDS ExitHistory, MCParkingSessions

\* The responses steer nothing.
HistoryWithoutAnswers == <<table, settings, locks, pc, local, answered, history>>
=============================================================================
