---------------------------- MODULE IoModuleProofs ----------------------------
(* Lemmas about the operators of IoModule and DericProcess that the proofs   *)
(* about their users share: each keeps the types, whoever calls it.          *)
EXTENDS DericProcess, TLAPS

USE DEF Gens, NoEpoll, Callers

LEMMA IdleCallType == IdleCall \in Frames
BY DEF IdleCall, Frames

LEMMA FrameFields ==
  ASSUME NEW f \in Frames
  PROVE  /\ f.m \in Members \cup {NoMember}
         /\ f.fd \in Fds \cup {NoFd}
         /\ \A op \in {"addCtl", "addWake", "delCtl"} : [f EXCEPT !.op = op] \in Frames
BY DEF Frames

LEMMA FrameUpdate ==
  ASSUME call \in [Callers -> Frames], NEW c \in Callers, NEW o,
         call' = [call EXCEPT ![c].op = o]
  PROVE  call'[c].op = o /\ call'[c].m = call[c].m /\ call'[c].fd = call[c].fd
BY DEF Frames

LEMMA WrittenType ==
  ASSUME pipe \in [Gens -> Seq({"wake", "stop"})],
         NEW byte \in {"wake", "stop"}
  PROVE  Written(byte) \in [Gens -> Seq({"wake", "stop"})]
BY DEF Written

LEMMA RestType ==
  ASSUME batch \in [Gens -> SUBSET (Fds \cup {WakeFd})], NEW g \in Gens, NEW fd
  PROVE  Rest(g, fd) \in [Gens -> SUBSET (Fds \cup {WakeFd})]
BY DEF Rest

LEMMA IoInitType == IoInit => IoTypeOK
<1> SUFFICES ASSUME IoInit PROVE IoTypeOK
  OBVIOUS
<1> USE DEF IoInit
<1>1. pipe \in [Gens -> Seq({"wake", "stop"})]
  OBVIOUS
<1>2. call \in [Callers -> Frames] /\ \A c \in Callers : call[c].op = "none"
  BY IdleCallType DEF IdleCall
<1>3. wakePolled \in [Gens -> BOOLEAN] /\ m_ioMembersMutex \in BOOLEAN
      /\ closedZero \in BOOLEAN /\ crashed \in BOOLEAN
  OBVIOUS
<1> QED
  BY <1>1, <1>2, <1>3, IoAssumption DEF IoTypeOK, LoopPcs

\* init and deinit of the process, and what they call.
LEMMA ProcStepType == IoTypeOK /\ ProcTypeOK /\ ProcStep => IoTypeOK' /\ ProcTypeOK'
<1> SUFFICES ASSUME IoTypeOK, ProcTypeOK, ProcStep PROVE IoTypeOK' /\ ProcTypeOK'
    OBVIOUS
<1> USE IoAssumption DEF IoTypeOK, ProcTypeOK, LoopPcs, kernelVars,
        stateVars, tableVars, loopVars
<1>1. ASSUME ProcInit PROVE IoTypeOK' /\ ProcTypeOK'
    BY <1>1 DEF ProcInit, ModuleInit
<1>2. ASSUME ProcStart PROVE IoTypeOK' /\ ProcTypeOK'
    BY <1>2, ZenonT(60) DEF ProcStart, ModuleStart
<1>3. ASSUME NEW ok \in BOOLEAN, ModuleDeinit(ok), m_init' \in BOOLEAN, ctl' = "idle"
      PROVE IoTypeOK' /\ ProcTypeOK'
  <2>1. closedZero' \in BOOLEAN
    BY <1>3, ZenonT(30) DEF ModuleDeinit
  <2>2. wakePolled' \in [Gens -> BOOLEAN]
    <3>1. [h \in Gens |-> h # m_epollFd /\ wakePolled[h]] \in [Gens -> BOOLEAN]
      BY ZenonT(30)
    <3> QED
      BY <1>3, <3>1, Zenon DEF ModuleDeinit
  <2>3. m_state' \in {"CREATED", "INITIALIZED", "STARTED"} /\ m_epollFd' \in Gens \cup {NoEpoll}
    BY <1>3 DEF ModuleDeinit
  <2> QED
    BY <1>3, <2>1, <2>2, <2>3 DEF ModuleDeinit
<1>4. ASSUME ProcStop PROVE IoTypeOK' /\ ProcTypeOK'
    BY <1>4, WrittenType DEF ProcStop, ModuleStop
<1> QED
    BY <1>1, <1>2, <1>3, <1>4 DEF ProcStep, ProcUndo, ProcDeinit

\* Calling addIoMember or removeIoMember for a member.
LEMMA CallAddType ==
  ASSUME IoTypeOK, NEW c \in Callers, NEW m \in Members, NEW fd \in Fds \cup {NoFd},
         CallAdd(c, m, fd)
  PROVE  IoTypeOK'
<1> USE DEF IoTypeOK, kernelVars, stateVars, tableVars, loopVars
<1>1. call' \in [Callers -> Frames]
  BY DEF CallAdd, Frames
<1>2. \A d \in Callers : call'[d].op \in {"add", "addCtl"} => call'[d].fd \in Fds
  BY DEF CallAdd
<1> QED
  BY <1>1, <1>2 DEF CallAdd

LEMMA CallRemoveType ==
  ASSUME IoTypeOK, NEW c \in Callers, NEW m \in Members, NEW fd \in Fds \cup {NoFd},
         CallRemove(c, m, fd)
  PROVE  IoTypeOK'
<1> USE DEF IoTypeOK, kernelVars, stateVars, tableVars, loopVars
<1>1. call' \in [Callers -> Frames]
  BY DEF CallRemove, Frames
<1>2. \A d \in Callers : call'[d].op \in {"add", "addCtl"} => call'[d].fd \in Fds
  BY DEF CallRemove
<1> QED
  BY <1>1, <1>2 DEF CallRemove

\* The steps of the two calls.
LEMMA CallStepType ==
  ASSUME IoTypeOK, NEW c \in Callers, NEW ok \in BOOLEAN,
         AddEntry(c) \/ AddCtl(c, ok) \/ AddWakeup(c) \/ RemoveEntry(c) \/ RemoveCtl(c)
  PROVE  IoTypeOK'
<1> USE DEF IoTypeOK, kernelVars, stateVars, tableVars, loopVars
<1>f. /\ call[c] \in Frames
      /\ call[c].m \in Members \cup {NoMember}
      /\ call[c].fd \in Fds \cup {NoFd}
      /\ \A op \in {"addCtl", "addWake", "delCtl"} : [call[c] EXCEPT !.op = op] \in Frames
    BY FrameFields
<1>1. call' \in [Callers -> Frames]
    BY <1>f, IdleCallType DEF AddEntry, AddCtl, AddWakeup, RemoveEntry, RemoveCtl
<1>2. \A d \in Callers : call'[d].op \in {"add", "addCtl"} => call'[d].fd \in Fds
  <2>1. call' = [call EXCEPT ![c] = call'[c]]
    BY DEF AddEntry, AddCtl, AddWakeup, RemoveEntry, RemoveCtl
  <2>2. call'[c].op \in {"add", "addCtl"} => call[c].op = "add" /\ call'[c].fd = call[c].fd
    BY <1>f DEF AddEntry, AddCtl, AddWakeup, RemoveEntry, RemoveCtl, IdleCall, Frames
  <2> QED
    BY <2>1, <2>2
<1>3. m_ioMembers' \in [Fds -> Members \cup {NoMember}]
    BY <1>f DEF AddEntry, AddCtl, AddWakeup, RemoveEntry, RemoveCtl
<1>4. m_ioMembersMutex' \in BOOLEAN
    BY ZenonT(30) DEF AddEntry, AddCtl, AddWakeup, RemoveEntry, RemoveCtl
<1>5. polled' \in [Gens -> SUBSET Fds]
    BY DEF AddEntry, AddCtl, AddWakeup, RemoveEntry, RemoveCtl
<1>6. pipe' \in [Gens -> Seq({"wake", "stop"})]
    BY WrittenType DEF AddEntry, AddCtl, AddWakeup, RemoveEntry, RemoveCtl
<1>7. UNCHANGED <<wakePolled, stateVars, loopVars, crashed>>
    BY DEF AddEntry, AddCtl, AddWakeup, RemoveEntry, RemoveCtl
<1> QED
    BY <1>1, <1>2, <1>3, <1>4, <1>5, <1>6, <1>7

LEMMA KernelCloseType ==
  ASSUME polled \in [Gens -> SUBSET Fds], NEW fd, KernelClose(fd)
  PROVE  polled' \in [Gens -> SUBSET Fds]
BY DEF KernelClose

\* The polling thread, in its loop and at the end of a callback.
LEMMA LoopType ==
  ASSUME IoTypeOK, NEW g \in Gens, LoopStep(g) \/ CallbackReturn(g)
  PROVE  IoTypeOK'
<1> USE DEF IoTypeOK, LoopPcs, kernelVars, stateVars, tableVars, loopVars
<1>1. CASE ThreadStart(g)
    BY <1>1 DEF ThreadStart
<1>2. CASE EpollEnter(g)
    BY <1>2 DEF EpollEnter
<1>3. CASE EpollReturn(g)
  <2>1. PICK ready \in SUBSET (polled[lep[g]] \cup {WakeFd}) : batch' = [batch EXCEPT ![g] = ready]
    BY <1>3 DEF EpollReturn
  <2>2. polled[lep[g]] \subseteq Fds
    BY <1>3 DEF EpollReturn
  <2>3. batch' \in [Gens -> SUBSET (Fds \cup {WakeFd})]
    BY <2>1, <2>2
  <2>4. crashed' \in BOOLEAN
    BY <1>3, ZenonT(30) DEF EpollReturn
  <2> QED
    BY <1>3, <2>3, <2>4 DEF EpollReturn
<1>4. CASE ScanFreed(g)
    BY <1>4 DEF ScanFreed
<1>5. CASE ScanWake(g)
    BY <1>5, RestType DEF ScanWake
<1>6. ASSUME NEW callback \in {"onReadAvailable", "onIoError"}, ScanMember(g, callback)
      PROVE IoTypeOK'
  <2>1. PICK fd \in Event(g) \ {WakeFd} :
          /\ batch' = Rest(g, fd)
          /\ IF Registered(fd)
             THEN /\ cur_member' = [cur_member EXCEPT ![g] = m_ioMembers[fd]]
                  /\ lpc' = [lpc EXCEPT ![g] = callback]
             ELSE UNCHANGED <<cur_member, lpc>>
    BY <1>6 DEF ScanMember
  <2>2. batch' \in [Gens -> SUBSET (Fds \cup {WakeFd})]
    BY <2>1, RestType
  <2>3. cur_member' \in [Gens -> Members \cup {NoMember}]
    BY <2>1 DEF Registered
  <2>4. lpc' \in [Gens -> LoopPcs] /\ (\A h \in Gens : lpc'[h] = "blocked" => lpc[h] = "blocked")
    BY <2>1, ZenonT(60)
  <2> QED
    BY <1>6, <2>2, <2>3, <2>4 DEF ScanMember
<1>7. CASE CallbackReturn(g)
    BY <1>7 DEF CallbackReturn
<1>8. CASE BatchDone(g)
    BY <1>8 DEF BatchDone
<1>9. CASE ThreadExit(g)
    BY <1>9 DEF ThreadExit
<1> QED
    BY <1>1, <1>2, <1>3, <1>4, <1>5, <1>6, <1>7, <1>8, <1>9 DEF LoopStep
=============================================================================
