--------------------------- MODULE ContractProofs ----------------------------
(***************************************************************************)
(* Furan implements BuildContract, for every set of pods and clients and   *)
(* every bound on faults, disruptions and crashes.                         *)
(***************************************************************************)
EXTENDS FuranProofs

Taken == \E p \in Pods : Took(p)

\* A step of the contract or a stutter, in the terms of Furan
ContractStep == [Contract!Next]_(Contract!vars)

\* The steps of the contract that the steps of Furan are mapped to: each has
\* its effect on the status and the reason that the contract asks for.
LEMMA ContractActions ==
  ASSUME Requested' <=> Requested, Taken' <=> Taken
  PROVE  /\ status' = status /\ pushed' = pushed => ContractStep
         /\ /\ status = NoRow /\ status' = "NotStarted" /\ pushed' = pushed
            => ContractStep
         /\ status # NoRow /\ status' = "Failure" /\ pushed' = pushed
            => ContractStep
         /\ pushed # {} /\ status' = "Success" /\ pushed' = pushed
            => ContractStep
         /\ Taken /\ pushed = {} /\ status' = "Skipped" /\ pushed' = pushed
            => ContractStep
         /\ Taken /\ Requested /\ status' = "Cancelled" /\ pushed' = pushed
            => ContractStep
         /\ /\ Taken /\ status # "Skipped" /\ status' = status
            /\ pushed # {} => pushed' # {}
            => ContractStep
<1> USE DEF Taken, ContractStep, Contract!Next, Contract!vars, NoRow, Contract!NoRow
<1>1. status' = status /\ pushed' = pushed => ContractStep
  OBVIOUS
<1>2. status = NoRow /\ status' = "NotStarted" /\ pushed' = pushed => ContractStep
  BY DEF Contract!Accept
<1>3. status # NoRow /\ status' = "Failure" /\ pushed' = pushed => ContractStep
  BY DEF Contract!Fail
<1>4. pushed # {} /\ status' = "Success" /\ pushed' = pushed => ContractStep
  BY DEF Contract!Succeed
<1>5. Taken /\ pushed = {} /\ status' = "Skipped" /\ pushed' = pushed
        => ContractStep
  BY DEF Contract!Skip
<1>6. Taken /\ Requested /\ status' = "Cancelled" /\ pushed' = pushed
        => ContractStep
  BY DEF Contract!Cancel
<1>7. /\ Taken /\ status # "Skipped" /\ status' = status
      /\ pushed # {} => pushed' # {}
      => ContractStep
  BY DEF Contract!Push
<1> QED BY <1>1, <1>2, <1>3, <1>4, <1>5, <1>6, <1>7

\* Becoming Running and being taken over
LEMMA ContractRun ==
  ASSUME Requested' <=> Requested, ~Taken, status # NoRow,
         status' = "Running", pushed' = pushed
  PROVE  ContractStep
BY DEF Taken, ContractStep, Contract!Next, Contract!Run, NoRow, Contract!NoRow

-----------------------------------------------------------------------------
(* Steps of the server and of a client *)

\* The server only creates the row and writes Failure to it.
LEMMA ServerContract ==
  ASSUME RowInv, HandoffNext, UNCHANGED <<runnerVars, rpc>>
  PROVE  ContractStep
<1>1. Requested' <=> Requested
  BY DEF Requested
<1>2. Taken' <=> Taken
  BY DEF Taken, Took, runnerVars
<1> QED BY <1>1, <1>2, ContractActions, ServerFrame
     DEF ServerWrite, RowInv, runnerVars

\* A call of CancelBuild is a request from its transaction on.
LEMMA ClientContract ==
  ASSUME TypeOK, RowInv, NEW c \in Clients, CancelStep(c), UNCHANGED runnerVars
  PROVE  ContractStep
<1>1. Taken' <=> Taken
  BY DEF Taken, Took, runnerVars
<1>2. CASE rpc[c] # "commit"
  <2>1. status' = status
    BY <1>2, CancelStep(c), TxStatus
    DEF CancelStep, CancelCheck, CancelRecheck, CancelCommit, CancelAbandoned, OK,
        Fault
  <2>2. Requested' <=> Requested
    BY <1>2, CancelStep(c)
    DEF CancelStep, CancelCheck, CancelRecheck, CancelCommit, CancelAbandoned,
        Requested, RpcGoto, TypeOK, RpcTypeOK
  <2> QED BY <1>1, <2>1, <2>2, ContractActions DEF runnerVars
<1>3. CASE rpc[c] = "commit"
  <2>1. Requested' /\ status # NoRow /\ status' \in {status, "CancelRequested"}
    BY <1>3, CancelStep(c), TxStatus
    DEF CancelStep, CancelCheck, CancelRecheck, CancelCommit, CancelAbandoned, OK,
        Fault, Requested, RpcGoto, TypeOK, RpcTypeOK, RowInv
  <2> QED BY <1>1, <2>1
       DEF Taken, ContractStep, Contract!Next, Contract!vars,
           Contract!RequestCancel, NoRow, Contract!NoRow, runnerVars
<1> QED BY <1>2, <1>3

-----------------------------------------------------------------------------
(* Steps of a pod *)

\* A pod takes over, pushes and writes an outcome for the reasons the contract
\* gives; its other steps are stutters.
LEMMA PodContract ==
  ASSUME TypeOK, AttemptInv, OutcomeInv, CancelInv, RowInv, rpc' = rpc,
         NEW p \in Pods,
         PodStarts(p) \/ RunStep(p) \/ CxlStep(p) \/ SignalStep(p) \/ Kill(p)
  PROVE  ContractStep
<1>0. Requested' <=> Requested
  BY DEF Requested
<1> DEFINE Kept == (Taken' <=> Taken) /\ pushed' = pushed
<1>1. PodStarts(p) \/ Boot(p) \/ GetCommitSHA(p) \/ TagCheck(p) \/ Fetch(p)
        \/ ChooseStatus(p) \/ SignalHandler(p) \/ RunTimeout(p)
        => Kept /\ status' = status
  BY DEF PodStarts, Boot, GetCommitSHA, TagCheck, Fetch, ChooseStatus,
         SignalHandler, RunTimeout, Taken, Took, dbVars
<1>2. BootFails(p) \/ Exit(p) \/ Terminate(p) \/ Kill(p) => Kept /\ status' = status
  BY TxStatus DEF BootFails, Exit, Terminate, Kill, EndPod, Die, OK, CxlGoto, Taken, Took,
         TypeOK, RunnerTypeOK
<1>3. CxlGet(p) \/ CxlListen(p) \/ CxlWait(p) \/ CxlCtxDone(p)
        => Kept /\ status' = status
  BY TxStatus DEF CxlGet, CxlListen, CxlWait, CxlCtxDone, OK, Fault, CxlGoto,
         Taken, Took, TypeOK, RunnerTypeOK
<1>4. CxlAbort(p) \/ CxlFlag(p) => Kept /\ status' = status
  BY DEF CxlAbort, CxlFlag, CxlGoto, Taken, Took, TypeOK, RunnerTypeOK, dbVars
<1>5. Gate(p) => Kept /\ status' = status
  BY TxStatus DEF Gate, OK, Fault, Taken, Took
<1>6. TakeOver(p) => ContractStep
  BY <1>0, ContractRun
  DEF TakeOver, OK, SetBuildAsRunning, AttemptInv, RowInv, Taken
<1>7. TakeOverFails(p) => ContractStep
  <2> SUFFICES ASSUME TakeOverFails(p) PROVE ContractStep
    OBVIOUS
  <2>1. Kept /\ ~Taken /\ status # NoRow
    BY DEF TakeOverFails, Taken, Took, AttemptInv, RowInv
  <2>2. status' = status \/ status' = "Running"
    BY TxStatus DEF TakeOverFails, OK, Fault, SetBuildAsRunning
  <2> QED BY <1>0, <2>1, <2>2, ContractActions, ContractRun
<1>8. Build(p) \/ StepFails(p) => ContractStep
  <2> SUFFICES ASSUME Build(p) \/ StepFails(p) PROVE ContractStep
    OBVIOUS
  <2>1. Taken' <=> Taken
    BY DEF Build, StepFails, Taken, Took
  <2>2. status' = status /\ (pushed # {} => pushed' # {})
    BY DEF Build, StepFails, dbVars
  <2>3. Took(p) /\ status # "Skipped"
    BY DEF Build, StepFails, OutcomeInv, Working, Completing, Returned
  <2> QED BY <1>0, <2>1, <2>2, <2>3, ContractActions DEF Taken
<1>9. Complete(p) => ContractStep
  <2> SUFFICES ASSUME Complete(p) PROVE ContractStep
    OBVIOUS
  <2>1. Kept
    BY DEF Complete, Taken, Took
  <2>2. Took(p)
    BY DEF Complete, OutcomeInv, Working
  <2>3. ppc[p] = "skipmark" => pushed = {}
    BY <2>2 DEF OutcomeInv, AttemptInv, AtMostOneAttempt, Completing, Returned,
       TypeOK, RunnerTypeOK
  <2>4. ppc[p] = "complete" => pushed # {}
    BY DEF OutcomeInv
  <2>5. status' \in {status, FinalStatus(ppc[p])}
    BY TxStatus DEF Complete, OK, Fault
  <2> QED BY <1>0, <2>1, <2>2, <2>3, <2>4, <2>5, ContractActions
       DEF Taken, Complete, FinalStatus
<1>10. MarkCompleted(p) => ContractStep
  <2> SUFFICES ASSUME MarkCompleted(p) PROVE ContractStep
    OBVIOUS
  <2>1. Kept
    BY DEF MarkCompleted, Taken, Took
  <2>2. Took(p) /\ status # NoRow
    BY DEF MarkCompleted, OutcomeInv, Completing, AttemptInv
  <2>3. ppc[p] = "markCancelled" => Requested
    BY DEF CancelInv
  <2>4. status' \in {status, MarkedStatus(ppc[p])}
    BY TxStatus DEF MarkCompleted, OK, Fault
  <2> QED BY <1>0, <2>1, <2>2, <2>3, <2>4, ContractActions
       DEF Taken, MarkedStatus
<1> QED BY <1>0, <1>1, <1>2, <1>3, <1>4, <1>5, <1>6, <1>7, <1>8, <1>9, <1>10,
       ContractActions
     DEF RunStep, CxlStep, SignalStep

-----------------------------------------------------------------------------
\* The server, the pods and the clients together implement the contract of a
\* build, for any failures and any number of replacement pods, if the Job runs
\* one pod at a time.
THEOREM ContractKept ==
  ASSUME PodsOverlap = FALSE
  PROVE  Spec => KeepsContract
<1>1. Init => Contract!Init
  BY DEF Init, DBInit, RunnerInit, RpcInit, Took, Requested, Contract!Init,
         NoRow, Contract!NoRow
<1>2. TypeOK /\ AttemptInv /\ OutcomeInv /\ CancelInv /\ RowInv /\ [Next]_vars
        => [Contract!Next]_(Contract!vars)
  <2> SUFFICES ASSUME TypeOK, AttemptInv, OutcomeInv, CancelInv, RowInv,
                      [Next]_vars
               PROVE  ContractStep
    BY DEF ContractStep
  <2>1. CASE K8sStep \/ UNCHANGED vars
    BY <2>1, ContractActions
    DEF K8sStep, vars, dbVars, runnerVars, Requested, Taken, Took
  <2>2. CASE ServerStep
    BY <2>2, ServerContract DEF ServerStep
  <2>3. CASE PodStep
    BY <2>3, PodContract DEF PodStep, RunnerNext
  <2>4. CASE ClientStep
    BY <2>4, ClientContract DEF ClientStep, RpcNext
  <2> QED BY <2>1, <2>2, <2>3, <2>4 DEF Next
<1> QED BY <1>1, <1>2, TypeCorrect, OutcomeInvariant, CancelInvariant,
       RowInvariant, PTL DEF Spec, KeepsContract, Contract!Spec
==============================================================================
