----------------------------- MODULE PhotonInbound -----------------------------
(***************************************************************************)
(* One inbound iMessage that Photon delivers:                              *)
(* apps/api/services/photon_inbound_service.py, the shared agent flow      *)
(* _process_inbound of apps/api/routers/imessage_agent.py and the Celery   *)
(* tasks around them.                                                      *)
(*                                                                         *)
(* Sessions.  A delivery is one webhook request; Photon may deliver a      *)
(* message several times.  A worker takes a Celery message, claims the     *)
(* PhotonInboundTask, runs the agent, sends the reply and records the      *)
(* outcome; a reaper puts tasks back into the queue.  A step ends where    *)
(* the code commits, rolls back or waits for a service.                    *)
(*                                                                         *)
(* Faults.  A worker that dies loses its place: its Celery message goes    *)
(* back to the queue (worker lost) or is gone (hard time limit).  Photon   *)
(* may accept a reply whose answer is lost.                                *)
(*                                                                         *)
(* Time.  A task is `stale` when its last attempt is older than            *)
(* STALE_PROCESSING_MINUTES, `due` when next_retry_at has passed.  The     *)
(* hard time limit kills a task within the stale interval, so a task does  *)
(* not get stale while a worker is at it.  The countdown of a retry is     *)
(* left out: _claim does not look at next_retry_at.                        *)
(***************************************************************************)
EXTENDS Naturals, FiniteSets

CONSTANTS
    Deliveries,      \* webhook requests for the message
    Workers,
    MAX_ATTEMPTS,
    MaxMessages,     \* bound: Celery messages waiting
    MaxCrashes,      \* bound: workers that die
    MaxChanges,      \* bound: changes of the provider setting and the verification
    None             \* no reply, nothing sent

ASSUME PhotonConstants ==
    /\ MAX_ATTEMPTS \in Nat \ {0}
    /\ {MaxMessages, MaxCrashes, MaxChanges} \subseteq Nat
    /\ Deliveries \cap Workers = {}
    /\ None \notin STRING

VARIABLES
    status,      \* PhotonInboundTask.status, "none" where there is no row
    attempts,    \* attempt_count
    stale, due,  \* see above
    event,       \* IMessageInboundEvent: "none", "processing", "completed", "failed"
    runs,        \* AgentRuns committed for the message, each one billed
    delivery,    \* NotificationDelivery.status of the reply, None without a row
    received,    \* replies Photon has accepted
    queue,       \* Celery messages waiting
    selected,    \* settings.imessage_provider is photon
    verified,    \* the sender is a verified recipient
    crashes, changes,  \* counters of the bounds
    pc, job      \* where a session is; what a worker has in memory

row == <<status, attempts, stale, due>>
agent == <<event, runs>>
reply == <<delivery, received>>
world == <<selected, verified, crashes, changes>>
vars == <<row, agent, reply, queue, world, pc, job>>

Terminal == {"sent", "no_reply", "failed_permanent"}
Outcomes == {"sent", "failed_permanent", "failed_retryable"}

Init ==
    /\ status = "none" /\ attempts = 0 /\ stale = FALSE /\ due = FALSE
    /\ event = "none" /\ runs = 0 /\ delivery = None /\ received = 0 /\ queue = 0
    /\ selected = TRUE /\ verified = TRUE /\ crashes = 0 /\ changes = 0
    /\ pc = [s \in Deliveries \cup Workers |-> "idle"]
    /\ job = [w \in Workers |-> None]

Goto(s, label) == pc' = [pc EXCEPT ![s] = label] /\ UNCHANGED job
GotoWith(w, label, value) == pc' = [pc EXCEPT ![w] = label] /\ job' = [job EXCEPT ![w] = value]

-----------------------------------------------------------------------------
(* enqueue_photon_inbound *)

\* What the webhook does with a task that exists.
Requeues == status = "failed_retryable" /\ due

Receive(d) ==
    /\ pc[d] = "idle"
    /\ Goto(d, IF status = "none" THEN "inserting" ELSE IF Requeues THEN "dispatching" ELSE "done")
    /\ UNCHANGED <<row, agent, reply, queue, world>>

\* The insert is committed; or another delivery was first (unique message_id).
Insert(d) ==
    /\ pc[d] = "inserting"
    /\ status' = IF status = "none" THEN "pending" ELSE status
    /\ Goto(d, IF status = "none" THEN "dispatching" ELSE "done")
    /\ UNCHANGED <<attempts, stale, due, agent, reply, queue, world>>

\* _dispatch publishes the Celery message, of a delivery or of a worker's retry.
Dispatch(s) ==
    /\ pc[s] = "dispatching" /\ queue < MaxMessages
    /\ queue' = queue + 1
    /\ Goto(s, IF s \in Workers THEN "idle" ELSE "done")
    /\ UNCHANGED <<row, agent, reply, world>>

\* The broker is down, or the process dies: the row stays as it is.
DispatchFails(s) ==
    /\ pc[s] = "dispatching"
    /\ Goto(s, IF s \in Workers THEN "idle" ELSE "done")
    /\ UNCHANGED <<row, agent, reply, queue, world>>

-----------------------------------------------------------------------------
(* process_photon_inbound *)

\* A claim that takes any task that is not terminal.
ClaimableInProcess == status \notin Terminal \cup {"none"}

\* A task that no fresh attempt holds.
Claimable == status \in {"pending", "failed_retryable"} \/ (status = "processing" /\ stale)

\* _claim: the attempt is counted and committed.
Claim(w) ==
    /\ pc[w] = "idle" /\ queue > 0 /\ Claimable
    /\ queue' = queue - 1
    /\ status' = "processing" /\ attempts' = attempts + 1
    /\ stale' = FALSE /\ due' = FALSE
    /\ Goto(w, "claimed")
    /\ UNCHANGED <<agent, reply, world>>

\* Not claimable: the Celery message is dropped.
Skip(w) ==
    /\ pc[w] = "idle" /\ queue > 0 /\ ~Claimable
    /\ queue' = queue - 1
    /\ UNCHANGED <<row, agent, reply, world, pc, job>>

\* _finish
Finish(w, outcome) ==
    /\ status' = outcome /\ due' = FALSE
    /\ GotoWith(w, "idle", None)
    /\ UNCHANGED <<attempts, stale>>

\* A failure that stores the event's word for it.
MarkFailed(w) ==
    /\ status' = "failed" /\ due' = FALSE
    /\ GotoWith(w, "idle", None)
    /\ UNCHANGED <<attempts, stale>>

\* _mark_failure: a retry is dispatched, unless the attempts are used up.
MarkFailure(w) ==
    /\ status' = IF attempts >= MAX_ATTEMPTS THEN "failed_permanent" ELSE "failed_retryable"
    /\ due' = FALSE
    /\ GotoWith(w, IF attempts >= MAX_ATTEMPTS THEN "idle" ELSE "dispatching", None)
    /\ UNCHANGED <<attempts, stale>>

\* The operator has selected another provider.
ProviderOff(w) ==
    /\ pc[w] = "claimed" /\ ~selected
    /\ Finish(w, "failed_permanent")
    /\ UNCHANGED <<agent, reply, queue, world>>

ProviderOn(w) ==
    /\ pc[w] = "claimed" /\ selected
    /\ Goto(w, "asking")
    /\ UNCHANGED <<row, agent, reply, queue, world>>

\* resolve_verified_user finds nobody, before the agent or before the reply.
Unverified(w) ==
    /\ pc[w] \in {"asking", "replying"} /\ ~verified
    /\ Finish(w, "no_reply")
    /\ UNCHANGED <<agent, reply, queue, world>>

\* A flow that does not look for the event of an earlier attempt.
StartEventAgain(w) ==
    /\ pc[w] = "asking" /\ verified
    /\ event' = "processing"
    /\ Goto(w, "starting")
    /\ UNCHANGED <<row, runs, reply, queue, world>>

\* No attempt has got here: the event is committed by the recovery of stale runs
\* at the start of start_run.
StartEvent(w) ==
    /\ pc[w] = "asking" /\ verified /\ event = "none"
    /\ event' = "processing"
    /\ Goto(w, "starting")
    /\ UNCHANGED <<row, runs, reply, queue, world>>

\* A message start_run refuses to look at: rolled back, with the event.
RefuseContent(w) ==
    /\ pc[w] = "asking" /\ verified /\ event = "none"
    /\ GotoWith(w, "replying", "apology")
    /\ UNCHANGED <<row, agent, reply, queue, world>>

\* An earlier attempt has got here: its answer is sent again if it was recorded.
RepeatAnswer(w) ==
    /\ pc[w] = "asking" /\ verified /\ event = "completed"
    /\ GotoWith(w, "replying", "answer")
    /\ UNCHANGED <<row, agent, reply, queue, world>>

\* Otherwise the reply is empty, and nothing is sent.
RepeatNothing(w) ==
    /\ pc[w] = "asking" /\ verified /\ event \in {"processing", "failed"}
    /\ Finish(w, "no_reply")
    /\ UNCHANGED <<agent, reply, queue, world>>

\* start_run commits the run and the reservation of its credits.
StartRun(w) ==
    /\ pc[w] = "starting"
    /\ runs' = runs + 1
    /\ Goto(w, "running")
    /\ UNCHANGED <<row, event, reply, queue, world>>

\* Credits, quota, plan or skill: rolled back; the event is committed already.
StartRefused(w) ==
    /\ pc[w] = "starting"
    /\ GotoWith(w, "replying", "apology")
    /\ UNCHANGED <<row, agent, reply, queue, world>>

\* stream_run has settled the run and committed the answer.
AgentAnswers(w) ==
    /\ pc[w] = "running"
    /\ Goto(w, "answered")
    /\ UNCHANGED <<row, agent, reply, queue, world>>

\* It has refunded it and committed that.
AgentFails(w) ==
    /\ pc[w] = "running"
    /\ Goto(w, "failing")
    /\ UNCHANGED <<row, agent, reply, queue, world>>

RecordFailure(w) ==
    /\ pc[w] = "failing"
    /\ event' = "failed"
    /\ GotoWith(w, "replying", "apology")
    /\ UNCHANGED <<row, runs, reply, queue, world>>

RecordAnswer(w) ==
    /\ pc[w] = "answered"
    /\ event' = "completed"
    /\ GotoWith(w, "replying", "answer")
    /\ UNCHANGED <<row, runs, reply, queue, world>>

\* An unexpected exception in the agent flow.
AgentRaises(w) ==
    /\ pc[w] \in {"asking", "starting", "running", "answered", "failing"}
    /\ MarkFailure(w)
    /\ UNCHANGED <<agent, reply, queue, world>>

-----------------------------------------------------------------------------
(* _send_reply *)

\* The recipient is verified: nothing looks at the binding again before the reply
\* is sent.
Resolve(w) ==
    /\ pc[w] = "replying" /\ verified
    /\ Goto(w, "resolved")
    /\ UNCHANGED <<row, agent, reply, queue, world>>

\* The reply of an earlier attempt was recorded as sent.
SentBefore(w) ==
    /\ pc[w] = "resolved" /\ delivery = "sent"
    /\ GotoWith(w, "recorded", "sent")
    /\ UNCHANGED <<row, agent, reply, queue, world>>

\* Photon accepts the reply and says so, refuses it, or does not answer, in which
\* case it may have accepted it.
Send(w) ==
    /\ pc[w] = "resolved" /\ delivery # "sent"
    /\ \E outcome \in Outcomes : \E accepted \in {0, 1} :
        /\ outcome = "sent" => accepted = 1
        /\ outcome = "failed_permanent" => accepted = 0
        /\ received' = received + accepted
        /\ GotoWith(w, "sending", outcome)
    /\ UNCHANGED <<row, agent, delivery, queue, world>>

RecordDelivery(w) ==
    /\ pc[w] = "sending"
    /\ delivery' = job[w]
    /\ Goto(w, "recorded")
    /\ UNCHANGED <<row, agent, received, queue, world>>

Conclude(w) ==
    /\ pc[w] = "recorded"
    /\ IF job[w] = "failed_retryable" THEN MarkFailure(w) ELSE Finish(w, job[w])
    /\ UNCHANGED <<agent, reply, queue, world>>

-----------------------------------------------------------------------------
(* Recovery, and the environment *)

Stale == status = "processing" /\ stale
Due == status = "failed_retryable" /\ due

\* A reaper that only looks for missed retries.
ReapRetriesOnly ==
    /\ Due
    /\ queue < MaxMessages
    /\ queue' = queue + 1
    /\ UNCHANGED <<row, agent, reply, world, pc, job>>

\* reap_photon_inbound_tasks
Reap ==
    /\ Stale \/ Due
    /\ queue < MaxMessages
    /\ queue' = queue + 1
    /\ UNCHANGED <<row, agent, reply, world, pc, job>>

Working == {"claimed", "asking", "starting", "running", "answered", "failing", "replying",
            "resolved", "sending", "recorded"}

\* Time passes for a task nobody works on.
Age ==
    /\ \/ /\ status = "processing" /\ ~stale
          /\ \A w \in Workers : pc[w] \notin Working
          /\ stale' = TRUE /\ UNCHANGED due
       \/ /\ status = "failed_retryable" /\ ~due
          /\ due' = TRUE /\ UNCHANGED stale
    /\ UNCHANGED <<status, attempts, agent, reply, queue, world, pc, job>>

\* A worker dies, at the hard time limit or with its process.
Crash(w) ==
    /\ pc[w] \in Working /\ crashes < MaxCrashes
    /\ crashes' = crashes + 1
    /\ queue' \in {queue, queue + 1}
    /\ GotoWith(w, "idle", None)
    /\ UNCHANGED <<row, agent, reply, selected, verified, changes>>

\* The operator selects a provider, the user binds or removes the number.
Change ==
    /\ changes < MaxChanges
    /\ changes' = changes + 1
    /\ \/ selected' = ~selected /\ UNCHANGED verified
       \/ verified' = ~verified /\ UNCHANGED selected
    /\ UNCHANGED <<row, agent, reply, queue, crashes, pc, job>>

-----------------------------------------------------------------------------
WorkerStep(w) ==
    \/ ProviderOff(w) \/ ProviderOn(w) \/ Unverified(w)
    \/ StartEvent(w) \/ RefuseContent(w) \/ RepeatAnswer(w) \/ RepeatNothing(w)
    \/ StartRun(w) \/ StartRefused(w) \/ AgentAnswers(w) \/ AgentFails(w)
    \/ RecordAnswer(w) \/ RecordFailure(w) \/ AgentRaises(w)
    \/ Resolve(w) \/ SentBefore(w) \/ Send(w) \/ RecordDelivery(w) \/ Conclude(w)

TakeMessage(w) == Claim(w) \/ Skip(w)

Next ==
    \/ \E d \in Deliveries : Receive(d) \/ Insert(d)
    \/ \E s \in Deliveries \cup Workers : Dispatch(s) \/ DispatchFails(s)
    \/ \E w \in Workers : TakeMessage(w) \/ WorkerStep(w) \/ Crash(w)
    \/ Reap \/ Age \/ Change

Spec == Init /\ [][Next]_vars

\* Workers go on and take messages, the reaper is scheduled every minute, and time
\* passes.  Nothing makes Photon deliver a message again.
Fairness ==
    /\ \A w \in Workers : WF_vars(WorkerStep(w)) /\ WF_vars(Dispatch(w) \/ DispatchFails(w))
    /\ WF_vars(\E w \in Workers : TakeMessage(w))
    /\ WF_vars(Reap) /\ WF_vars(Age)

FairSpec == Spec /\ Fairness

-----------------------------------------------------------------------------
(* Properties *)

TypeOK ==
    /\ status \in {"none", "pending", "processing", "failed_retryable"} \cup Terminal
    /\ attempts \in Nat /\ stale \in BOOLEAN /\ due \in BOOLEAN
    /\ selected \in BOOLEAN /\ verified \in BOOLEAN
    /\ event \in {"none", "processing", "completed", "failed"} /\ runs \in Nat
    /\ delivery \in Outcomes \cup {None} /\ received \in Nat /\ queue \in Nat
    /\ crashes \in 0 .. MaxCrashes /\ changes \in 0 .. MaxChanges
    /\ pc \in [Deliveries \cup Workers ->
                  {"idle", "inserting", "dispatching", "done"} \cup Working]
    /\ job \in [Workers -> Outcomes \cup {"answer", "apology", None}]

\* At most one worker is at the message, whoever else was handed the same task: a
\* reaper's, a webhook's or a redelivered Celery message.
OneWorkerAtATime ==
    \A v, w \in Workers : pc[v] \in Working /\ pc[w] \in Working => v = w

\* However often Photon delivers the message and workers die, the agent runs, and
\* is billed, at most once.
AgentRunsOnce == runs <= 1

\* A task a worker has claimed comes to an end, through crashes, lost messages and
\* missed retries.
ClaimedEnds == (status \in {"processing", "failed_retryable"}) ~> (status \in Terminal)

\* photon_inbound_service.py:283: bounded by MAX_ATTEMPTS.
AttemptsWithinLimit == attempts <= MAX_ATTEMPTS

\* photon_inbound_service.py:12: a reply is never sent twice.
ReplySentOnce == received <= 1

\* photon_inbound_service.py:3: persistent, retryable processing.  A persisted
\* message comes to an end.
PendingEnds == (status = "pending") ~> (status \in Terminal)

\* photon_inbound_service.py:168: no_reply stands for an unverified sender or an
\* intentionally empty reply, not for a message the agent ran for.
NoReplyIsIntended == status = "no_reply" /\ changes = 0 => runs = 0
=============================================================================
