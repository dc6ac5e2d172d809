---------------------------- MODULE DericProcess ----------------------------
(***************************************************************************)
(* DericProcess (process/src/deric_process.cpp): brings the IoModule up    *)
(* and down.  m_initMutex is held for the whole of init and of deinit, so  *)
(* at most one of them runs and one program counter, ctl, stands for it;   *)
(* the calls to IoModule it makes are steps of their own, because the      *)
(* polling thread runs between them.  DericProcessEntry only forwards.     *)
(***************************************************************************)
EXTENDS IoModule

VARIABLES
  m_init,  \* the process believes the module is up
  ctl      \* what the running init or deinit does next

procVars == <<m_init, ctl>>

ProcTypeOK ==
  /\ m_init \in BOOLEAN
  /\ ctl \in {"idle", "start", "undo", "deinit"}


ProcInitial == m_init = FALSE /\ ctl = "idle"

\* init: nothing to do when m_init is set.
ProcInit ==
  /\ ctl = "idle"
  /\ ~m_init
  /\ \E ok \in BOOLEAN : /\ ModuleInit(ok)
                         /\ ctl' = IF ok THEN "start" ELSE "idle"
  /\ UNCHANGED m_init

\* Wrong: m_init is set whether the start succeeds or not.
ProcStartUnchecked ==
  /\ ctl = "start"
  /\ \E ok \in BOOLEAN : /\ ModuleStart(ok)
                         /\ m_init' = TRUE
                         /\ ctl' = IF ok THEN "idle" ELSE "undo"

ProcStart ==
  /\ ctl = "start"
  /\ \E ok \in BOOLEAN : /\ ModuleStart(ok)
                         /\ m_init' = ok
                         /\ ctl' = IF ok THEN "idle" ELSE "undo"

\* start failed: deinit the module, its result ignored.
ProcUndo ==
  /\ ctl = "undo"
  /\ \E ok \in BOOLEAN : ModuleDeinit(ok)
  /\ ctl' = "idle"
  /\ UNCHANGED m_init

\* deinit: nothing to do unless m_init is set.
ProcStop ==
  /\ ctl = "idle"
  /\ m_init
  /\ \E ok \in BOOLEAN : /\ ModuleStop(ok)
                         /\ ctl' = IF ok THEN "deinit" ELSE "idle"
  /\ UNCHANGED m_init

ProcDeinit ==
  /\ ctl = "deinit"
  /\ \E ok \in BOOLEAN : /\ ModuleDeinit(ok)
                         /\ m_init' = ~ok
  /\ ctl' = "idle"

ProcStep == ProcInit \/ ProcStart \/ ProcUndo \/ ProcStop \/ ProcDeinit
=============================================================================
