---------------------------- MODULE MCNPUDriver -----------------------------
(* Constants of NPUDriver for TLC.                                         *)
EXTENDS NPUDriver

CONSTANTS t1, t2

(* Two callers of the driver and device API.                               *)
MCThreads == {t1, t2}

(* Every IoCtl command the code handles, and one it rejects.               *)
MCAllCommands == {"RESET", "LOAD_MODEL", "START_INF", "SOFT_STOP", "INVALID"}

(* The commands without NPU_CMD_RESET.                                     *)
MCNoReset == MCAllCommands \ {"RESET"}

=============================================================================
