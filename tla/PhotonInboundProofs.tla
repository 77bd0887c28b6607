-------------------------- MODULE PhotonInboundProofs --------------------------
(***************************************************************************)
(* One inbound message, for any number of deliveries and workers, any      *)
(* limit of attempts and any number of crashes: one worker at a time is at *)
(* it, and the agent runs at most once.                                    *)
(***************************************************************************)
EXTENDS PhotonInbound, TLAPS

\* The outcome of a reply is in memory while it is recorded.
OutcomeInHand == \A w \in Workers : pc[w] \in {"sending", "recorded"} => job[w] \in Outcomes

\* The fresh claim of a task belongs to the one worker that is at it.
ClaimInv ==
    /\ \A w \in Workers : pc[w] \in Working => status = "processing" /\ ~stale
    /\ OneWorkerAtATime

\* An attempt that starts the agent has put the event there, and nobody before it.
AgentInv ==
    /\ event = "none" => runs = 0
    /\ \A w \in Workers : pc[w] = "starting" => event # "none" /\ runs = 0
    /\ AgentRunsOnce

TaskInv == TypeOK /\ OutcomeInHand /\ ClaimInv

\* Deliveries are at none of the places where a worker is at the message.
LEMMA DeliverySteps ==
    ASSUME TaskInv, NEW d \in Deliveries, Receive(d) \/ Insert(d) \/ Dispatch(d) \/ DispatchFails(d)
    PROVE  TaskInv'
<1>1. d \notin Workers
  BY PhotonConstants
<1>2. TypeOK'
  BY <1>1 DEF TaskInv, TypeOK, Receive, Insert, Dispatch, DispatchFails, Goto, row, agent, reply,
              world, Terminal, Working
<1>3. /\ \A w \in Workers : pc'[w] = pc[w] /\ job'[w] = job[w]
      /\ status' = status \/ status = "none"
      /\ stale' = stale
  BY <1>1 DEF TaskInv, TypeOK, Receive, Insert, Dispatch, DispatchFails, Goto, row
<1> QED BY <1>2, <1>3 DEF TaskInv, OutcomeInHand, ClaimInv, OneWorkerAtATime

\* A worker at the message goes on, and the task stays its own.
LEMMA WorkingSteps ==
    ASSUME TaskInv, NEW w \in Workers, pc[w] \in Working, NEW label \in Working,
           NEW value \in Outcomes \cup {"answer", "apology", None},
           GotoWith(w, label, value), label \in {"sending", "recorded"} => value \in Outcomes,
           UNCHANGED <<row, queue, world>>, event' \in {"none", "processing", "completed", "failed"},
           runs' \in Nat, delivery' \in Outcomes \cup {None}, received' \in Nat
    PROVE  TaskInv'
<1>1. /\ pc' = [pc EXCEPT ![w] = label] /\ job' = [job EXCEPT ![w] = value]
      /\ w \in DOMAIN pc /\ w \in DOMAIN job
  BY DEF GotoWith, TaskInv, TypeOK
<1>2. TypeOK'
  BY <1>1 DEF TaskInv, TypeOK, row, world
<1>3. OutcomeInHand'
  BY <1>1 DEF TaskInv, TypeOK, OutcomeInHand
<1>4. ClaimInv'
  BY <1>1 DEF TaskInv, TypeOK, ClaimInv, OneWorkerAtATime, row
<1> QED BY <1>2, <1>3, <1>4 DEF TaskInv

\* A worker leaves the message: nobody is at it then.
LEMMA LeavingSteps ==
    ASSUME TaskInv, NEW w \in Workers, pc[w] \in Working, NEW label \in {"idle", "dispatching"},
           GotoWith(w, label, None),
           status' \in {"processing", "failed_retryable"} \cup Terminal,
           due' \in BOOLEAN, UNCHANGED <<attempts, stale, agent, reply, selected, verified, changes>>,
           queue' \in Nat, crashes' \in 0 .. MaxCrashes
    PROVE  TaskInv'
<1>1. /\ pc' = [pc EXCEPT ![w] = label] /\ job' = [job EXCEPT ![w] = None]
      /\ w \in DOMAIN pc /\ w \in DOMAIN job
  BY DEF GotoWith, TaskInv, TypeOK
<1>2. label \notin Working
  BY DEF Working
<1>3. TypeOK'
  BY <1>1 DEF TaskInv, TypeOK, agent, reply
<1>4. \A v \in Workers : pc'[v] \notin Working
  BY <1>1, <1>2 DEF TaskInv, TypeOK, ClaimInv, OneWorkerAtATime
<1> QED BY <1>3, <1>4 DEF TaskInv, OutcomeInHand, ClaimInv, OneWorkerAtATime, Working

\* The steps of process_task, from the claim to the record of the outcome.
LEMMA WorkerSteps ==
    ASSUME TaskInv, NEW w \in Workers, WorkerStep(w)
    PROVE  TaskInv'
<1>t. /\ w \in DOMAIN pc /\ w \in DOMAIN job
      /\ job[w] \in Outcomes \cup {"answer", "apology", None}
      /\ pc[w] \in Working => status = "processing"
  BY DEF TaskInv, TypeOK, ClaimInv
<1>1. ASSUME NEW label \in Working, Goto(w, label) PROVE GotoWith(w, label, job[w])
  BY <1>1, <1>t DEF Goto, GotoWith, TaskInv, TypeOK
<1>2. ASSUME NEW outcome \in Terminal, pc[w] \in Working, Finish(w, outcome),
             UNCHANGED <<agent, reply, queue, world>>
      PROVE  TaskInv'
  BY <1>2, LeavingSteps DEF Finish, TaskInv, TypeOK, world
<1>3. ASSUME pc[w] \in Working, MarkFailure(w), UNCHANGED <<agent, reply, queue, world>>
      PROVE  TaskInv'
  BY <1>3, LeavingSteps DEF MarkFailure, TaskInv, TypeOK, world, Terminal
<1>4. CASE ProviderOff(w) \/ Unverified(w) \/ RepeatNothing(w)
  BY <1>2, <1>4 DEF ProviderOff, Unverified, RepeatNothing, Working, Terminal
<1>5. CASE AgentRaises(w)
  BY <1>3, <1>5 DEF AgentRaises, Working
<1>6. CASE ProviderOn(w) \/ AgentAnswers(w) \/ AgentFails(w) \/ Resolve(w)
  BY <1>1, <1>6, <1>t, WorkingSteps
     DEF ProviderOn, AgentAnswers, AgentFails, Resolve, Working, TaskInv, TypeOK, agent, reply
<1>7. CASE StartEvent(w) \/ StartRun(w)
  BY <1>1, <1>7, <1>t, WorkingSteps
     DEF StartEvent, StartRun, Working, TaskInv, TypeOK, reply
<1>8. CASE RefuseContent(w) \/ RepeatAnswer(w) \/ StartRefused(w) \/ RecordAnswer(w) \/ RecordFailure(w)
  BY <1>8, WorkingSteps
     DEF RefuseContent, RepeatAnswer, StartRefused, RecordAnswer, RecordFailure, Working, TaskInv,
         TypeOK, agent, reply
<1>9. CASE SentBefore(w)
  BY <1>9, WorkingSteps DEF SentBefore, Working, Outcomes, TaskInv, TypeOK, agent, reply
<1>10. CASE Send(w)
  BY <1>10, WorkingSteps DEF Send, Working, TaskInv, TypeOK, agent
<1>11. CASE RecordDelivery(w)
  <2>1. job[w] \in Outcomes
    BY <1>11 DEF RecordDelivery, TaskInv, OutcomeInHand
  <2> QED BY <1>1, <1>11, <2>1, WorkingSteps DEF RecordDelivery, Working, TaskInv, TypeOK, agent
<1>12. CASE Conclude(w)
  <2>1. job[w] \in Outcomes /\ pc[w] \in Working
    BY <1>12 DEF Conclude, TaskInv, OutcomeInHand, Working
  <2>2. job[w] # "failed_retryable" => job[w] \in Terminal
    BY <2>1 DEF Outcomes, Terminal
  <2> QED BY <1>2, <1>3, <1>12, <2>1, <2>2 DEF Conclude
<1> QED BY <1>4, <1>5, <1>6, <1>7, <1>8, <1>9, <1>10, <1>11, <1>12 DEF WorkerStep

\* Every step keeps the claim with the worker that is at the message.
LEMMA TaskNext == TaskInv /\ [Next]_vars => TaskInv'
<1> SUFFICES ASSUME TaskInv, [Next]_vars PROVE TaskInv'
  OBVIOUS
<1>1. ASSUME NEW w \in Workers, Claim(w) PROVE TaskInv'
  <2>1. \A v \in Workers : pc[v] \notin Working
    BY <1>1 DEF Claim, Claimable, TaskInv, ClaimInv
  <2>2. /\ pc' = [pc EXCEPT ![w] = "claimed"] /\ job' = job
        /\ w \in DOMAIN pc
    BY <1>1 DEF Claim, Goto, TaskInv, TypeOK
  <2>3. TypeOK'
    <3>1. stale' \in BOOLEAN /\ due' \in BOOLEAN /\ selected' \in BOOLEAN /\ verified' \in BOOLEAN
      BY <1>1 DEF Claim, TaskInv, TypeOK, world
    <3>2. /\ status' \in {"none", "pending", "processing", "failed_retryable"}
          /\ attempts' \in Nat /\ queue' \in Nat
      BY <1>1 DEF Claim, TaskInv, TypeOK
    <3>3. pc' \in [Deliveries \cup Workers ->
                      {"idle", "inserting", "dispatching", "done"} \cup Working]
      BY <2>2 DEF TaskInv, TypeOK, Working
    <3> QED BY <1>1, <2>2, <3>1, <3>2, <3>3 DEF Claim, TaskInv, TypeOK, agent, reply, world
  <2>4. \A v \in Workers : pc'[v] \in Working => v = w /\ pc'[v] = "claimed"
    BY <2>1, <2>2 DEF TaskInv, TypeOK
  <2>5. OutcomeInHand'
    BY <2>4 DEF OutcomeInHand, Working
  <2>6. ClaimInv'
    BY <1>1, <2>4 DEF Claim, ClaimInv, OneWorkerAtATime
  <2> QED BY <2>3, <2>5, <2>6 DEF TaskInv
<1>2. ASSUME NEW w \in Workers, Skip(w) PROVE TaskInv'
  BY <1>2 DEF Skip, row, agent, reply, world, TaskInv, TypeOK, OutcomeInHand, ClaimInv,
              OneWorkerAtATime
<1>3. ASSUME NEW w \in Workers, Crash(w) PROVE TaskInv'
  <2>1. /\ status = "processing" /\ due \in BOOLEAN /\ queue' \in Nat
        /\ crashes' \in 0 .. MaxCrashes
    BY <1>3, PhotonConstants DEF Crash, TaskInv, TypeOK, ClaimInv
  <2> QED BY <1>3, <2>1, LeavingSteps DEF Crash, row
<1>4. ASSUME NEW w \in Workers, Dispatch(w) \/ DispatchFails(w) PROVE TaskInv'
  <2>1. pc' = [pc EXCEPT ![w] = "idle"] /\ job' = job /\ w \in DOMAIN pc
    BY <1>4 DEF Dispatch, DispatchFails, Goto, TaskInv, TypeOK
  <2>2. TypeOK'
    BY <1>4, <2>1 DEF Dispatch, DispatchFails, row, agent, reply, world, TaskInv, TypeOK
  <2>3. \A v \in Workers : pc'[v] = pc[v] \/ pc'[v] = "idle"
    BY <2>1 DEF TaskInv, TypeOK
  <2> QED BY <1>4, <2>1, <2>2, <2>3
       DEF Dispatch, DispatchFails, row, TaskInv, OutcomeInHand, ClaimInv, OneWorkerAtATime, Working
<1>5. CASE Reap \/ Change
  <2>1. /\ UNCHANGED <<row, agent, reply, pc, job>>
        /\ queue' \in Nat /\ changes' \in 0 .. MaxChanges /\ crashes' = crashes
    BY <1>5, PhotonConstants DEF Reap, Change, TaskInv, TypeOK, world
  <2>2. selected' \in BOOLEAN /\ verified' \in BOOLEAN
    BY <1>5 DEF Reap, Change, TaskInv, TypeOK, world
  <2>3. TypeOK'
    BY <2>1, <2>2 DEF TaskInv, TypeOK, row, agent, reply
  <2> QED BY <2>1, <2>3 DEF row, TaskInv, OutcomeInHand, ClaimInv, OneWorkerAtATime
<1>6. CASE Age
  <2>1. TypeOK'
    BY <1>6 DEF Age, agent, reply, world, TaskInv, TypeOK
  <2>2. pc' = pc /\ job' = job /\ status' = status
    BY <1>6 DEF Age
  <2>3. stale' # stale => \A w \in Workers : pc[w] \notin Working
    BY <1>6 DEF Age
  <2>4. OutcomeInHand'
    BY <2>2 DEF TaskInv, OutcomeInHand
  <2>5. ClaimInv'
    BY <2>2, <2>3 DEF TaskInv, ClaimInv, OneWorkerAtATime
  <2> QED BY <2>1, <2>4, <2>5 DEF TaskInv
<1>7. CASE UNCHANGED vars
  BY <1>7 DEF vars, row, agent, reply, world, TaskInv, TypeOK, OutcomeInHand, ClaimInv,
              OneWorkerAtATime
<1> QED BY <1>1, <1>2, <1>3, <1>4, <1>5, <1>6, <1>7, DeliverySteps, WorkerSteps DEF Next, TakeMessage

\* The claim is always with the worker that is at the message.
LEMMA TaskInvariant == Spec => []TaskInv
<1>1. Init => TaskInv
  <2> SUFFICES ASSUME Init PROVE TaskInv
    OBVIOUS
  <2>1. TypeOK
    <3>1. crashes \in 0 .. MaxCrashes /\ changes \in 0 .. MaxChanges
      BY PhotonConstants DEF Init
    <3>2. stale \in BOOLEAN /\ due \in BOOLEAN /\ selected \in BOOLEAN /\ verified \in BOOLEAN
      BY DEF Init
    <3> QED BY <3>1, <3>2 DEF Init, TypeOK
  <2>2. \A w \in Workers : pc[w] \notin Working /\ pc[w] \notin {"sending", "recorded"}
    BY DEF Init, Working
  <2> QED BY <2>1, <2>2 DEF TaskInv, OutcomeInHand, ClaimInv, OneWorkerAtATime
<1> QED BY <1>1, TaskNext, PTL DEF Spec

\* Type correctness: the task, its event, its messages and the sessions.
THEOREM TypeCorrect == Spec => []TypeOK
<1>1. TaskInv => TypeOK
  BY DEF TaskInv
<1> QED BY <1>1, TaskInvariant, PTL

\* One worker at a time is at the message, for any number of repeated deliveries,
\* crashes and stale claims taken over.
THEOREM WorkersExclude == Spec => []OneWorkerAtATime
<1>1. TaskInv => OneWorkerAtATime
  BY DEF TaskInv, ClaimInv
<1> QED BY <1>1, TaskInvariant, PTL

\* Only the attempt that has the task touches the event and runs the agent.
LEMMA AgentNext == TaskInv /\ AgentInv /\ [Next]_vars => AgentInv'
<1> SUFFICES ASSUME TaskInv, AgentInv, [Next]_vars PROVE AgentInv'
  OBVIOUS
<1>1. ASSUME UNCHANGED agent, \A w \in Workers : pc'[w] = "starting" => pc[w] = "starting"
      PROVE  AgentInv'
  BY <1>1 DEF agent, AgentInv, AgentRunsOnce
<1>2. ASSUME NEW w \in Workers, pc[w] \in Working, pc' = [pc EXCEPT ![w] = pc'[w]]
      PROVE  \A v \in Workers : v # w => pc'[v] = pc[v] /\ pc'[v] # "starting"
  BY <1>2 DEF TaskInv, TypeOK, ClaimInv, OneWorkerAtATime, Working
<1>3. ASSUME NEW s \in Deliveries \cup Workers, NEW label, pc' = [pc EXCEPT ![s] = label]
      PROVE  pc'[s] = label /\ pc' = [pc EXCEPT ![s] = pc'[s]]
             /\ \A w \in Workers : w # s => pc'[w] = pc[w]
  BY <1>3 DEF TaskInv, TypeOK
<1>4. ASSUME NEW w \in Workers, StartEvent(w) PROVE AgentInv'
  <2>1. pc'[w] = "starting" /\ \A v \in Workers : v # w => pc'[v] # "starting"
    BY <1>2, <1>3, <1>4 DEF StartEvent, Goto, Working
  <2> QED BY <1>4, <2>1 DEF StartEvent, AgentInv, AgentRunsOnce
<1>5. ASSUME NEW w \in Workers, StartRun(w) PROVE AgentInv'
  <2>1. pc'[w] = "running" /\ \A v \in Workers : v # w => pc'[v] # "starting"
    BY <1>2, <1>3, <1>5 DEF StartRun, Goto, Working
  <2>2. event # "none" /\ runs = 0 /\ event' = event /\ runs' = 1
    BY <1>5 DEF StartRun, AgentInv
  <2> QED BY <2>1, <2>2 DEF AgentInv, AgentRunsOnce
<1>6. ASSUME NEW w \in Workers, RecordAnswer(w) \/ RecordFailure(w) PROVE AgentInv'
  <2>1. pc'[w] = "replying" /\ \A v \in Workers : v # w => pc'[v] # "starting"
    BY <1>2, <1>3, <1>6 DEF RecordAnswer, RecordFailure, GotoWith, Working
  <2> QED BY <1>6, <2>1 DEF RecordAnswer, RecordFailure, AgentInv, AgentRunsOnce
<1>7. ASSUME NEW s \in Deliveries \cup Workers, NEW label, label # "starting",
             pc' = [pc EXCEPT ![s] = label], UNCHANGED agent
      PROVE  AgentInv'
  BY <1>1, <1>3, <1>7
<1>8. ASSUME UNCHANGED <<pc, agent>> PROVE AgentInv'
  BY <1>1, <1>8
<1>9. ASSUME NEW d \in Deliveries, Receive(d) \/ Insert(d) PROVE AgentInv'
  BY <1>7, <1>9 DEF Receive, Insert, Goto
<1>10. ASSUME NEW s \in Deliveries \cup Workers, Dispatch(s) \/ DispatchFails(s) PROVE AgentInv'
  BY <1>7, <1>10 DEF Dispatch, DispatchFails, Goto
<1>11. ASSUME NEW w \in Workers, TakeMessage(w) \/ Crash(w) PROVE AgentInv'
  BY <1>7, <1>8, <1>11 DEF TakeMessage, Claim, Skip, Crash, Goto, GotoWith
<1>12. ASSUME NEW w \in Workers, WorkerStep(w) PROVE AgentInv'
  <2>1. CASE ProviderOff(w) \/ Unverified(w) \/ RepeatNothing(w) \/ AgentRaises(w) \/ Conclude(w)
    BY <1>7, <2>1 DEF ProviderOff, Unverified, RepeatNothing, AgentRaises, Conclude, Finish,
                      MarkFailure, GotoWith
  <2>2. CASE ProviderOn(w) \/ AgentAnswers(w) \/ AgentFails(w) \/ Resolve(w) \/ RecordDelivery(w)
    BY <1>7, <2>2 DEF ProviderOn, AgentAnswers, AgentFails, Resolve, RecordDelivery, Goto
  <2>3. CASE RefuseContent(w) \/ RepeatAnswer(w) \/ StartRefused(w) \/ SentBefore(w) \/ Send(w)
    BY <1>7, <2>3 DEF RefuseContent, RepeatAnswer, StartRefused, SentBefore, Send, GotoWith
  <2> QED BY <1>4, <1>5, <1>6, <1>12, <2>1, <2>2, <2>3 DEF WorkerStep
<1> QED BY <1>8, <1>9, <1>10, <1>11, <1>12 DEF Next, Reap, Age, Change, vars

\* The agent runs, and is billed, at most once for a message: an attempt that takes
\* the message over finds the event of the one that died.
THEOREM AgentRunsAtMostOnce == Spec => []AgentRunsOnce
<1>1. Init => AgentInv
  BY DEF Init, AgentInv, AgentRunsOnce
<1>2. AgentInv => AgentRunsOnce
  BY DEF AgentInv
<1> QED BY <1>1, <1>2, AgentNext, TaskInvariant, PTL DEF Spec
================================================================================
