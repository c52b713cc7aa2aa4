--------------------------- MODULE MCPerfRecording ---------------------------
EXTENDS PerfRecording

MCSizeOf(rec) ==
  CASE rec.type \in {"SAMPLE", "SYS_ENTER"} -> 3
    [] rec.type \in {"LOST", "SWITCH_IN", "SWITCH_OUT", "SYS_EXIT", "MMAP"} -> 2
    [] OTHER -> 1


MCSkews == {-1, 0}
=============================================================================
