-------------------------- MODULE MemoryJobs_proofs --------------------------
(***************************************************************************)
(* Proofs about the memory pipeline, for any number of threads, sessions,  *)
(* versions, retries and faults: the job rows are what their owners did,   *)
(* and the git baseline is what an agent has consolidated.                 *)
(***************************************************************************)
EXTENDS MemoryJobs, TLAPS

\* A version is a positive stamp.
LEMMA StampFacts ==
    /\ Versions \subseteq Stamps /\ 0 \in Stamps
    /\ \A s \in Stamps : s \in Nat /\ (s # 0 => s \in Versions)
    /\ \A v \in Versions : v \in Nat /\ v > 0
  BY MemoryAssumption DEF Versions, Stamps

\* The rows and outputs a reset leaves have the shape of rows.
LEMMA EmptyRows ==
    NoJob1 \in Jobs1 /\ NoJob2 \in Jobs2 /\ NoOutput \in Outputs /\ Zero \in [Threads -> Stamps]
  BY StampFacts, MemoryAssumption DEF NoJob1, NoJob2, NoOutput, Zero, Jobs1, Jobs2, Outputs

\* The initial rows, workers and workspace satisfy the invariant of phase 1.
LEMMA MInvInit == MInit => MInv
<1> SUFFICES ASSUME MInit PROVE MInv
  OBVIOUS
<1>1. /\ \A t \in Threads : job1[t] = NoJob1 /\ version[t] = 1
      /\ \A w \in Workers, t \in Threads :
             todo[w][t] = 0 /\ claimed[w][t] = 0 /\ read[w][t] = 0
  BY DEF MInit, Zero
<1>2. MTypeOK
  <2>1. /\ version \in [Threads -> Versions] /\ polluted \subseteq Threads
        /\ job1 \in [Threads -> Jobs1] /\ output \in [Threads -> Outputs] /\ job2 \in Jobs2
    BY EmptyRows, MemoryAssumption DEF MInit, Versions
  <2>2. /\ todo \in [Workers -> [Threads -> Stamps]] /\ claimed \in [Workers -> [Threads -> Stamps]]
        /\ read \in [Workers -> [Threads -> Stamps]]
    BY EmptyRows DEF MInit
  <2>3. /\ pc \in [Workers -> Labels] /\ sel \in [Workers -> SUBSET Snapshots]
        /\ ws \subseteq Snapshots /\ edited \in BOOLEAN
        /\ baseline \in {NoBaseline} \cup SUBSET Snapshots
        /\ digested \subseteq SUBSET Snapshots
    BY DEF MInit, Labels
  <2>4. reset \in {"no", "rows", "done"} /\ faults \in 0..MaxFaults
    BY MemoryAssumption DEF MInit
  <2> QED
    BY <2>1, <2>2, <2>3, <2>4 DEF MTypeOK
<1>3. ClaimsSound /\ RowsSound
  BY <1>1 DEF ClaimsSound, RowsSound, Owns1, NoJob1
<1> QED
  BY <1>2, <1>3 DEF MInv

-----------------------------------------------------------------------------
(* Phase 1: the invariant is kept by every step *)

\* Steps that leave the rows of phase 1 alone and move only workers that have
\* nothing scanned or claimed.
LEMMA Stage1Untouched ==
    ASSUME MInv, UNCHANGED <<version, job1, stage1Vars>>,
           \A w \in Workers : pc'[w] = pc[w] \/ pc[w] # "phase1"
               \/ \A t \in Threads : todo[w][t] = 0 /\ claimed[w][t] = 0
    PROVE  ClaimsSound' /\ RowsSound'
<1>1. ClaimsSound'
  BY DEF MInv, ClaimsSound, stage1Vars
<1>2. RowsSound'
  BY DEF MInv, RowsSound, Owns1, stage1Vars
<1> QED
  BY <1>1, <1>2

\* Moving a worker.
LEMMA GotoFacts ==
    ASSUME MTypeOK, NEW w \in Workers, NEW l \in Labels, Goto(w, l)
    PROVE  /\ pc' \in [Workers -> Labels] /\ pc'[w] = l
           /\ \A u \in Workers : u # w => pc'[u] = pc[u]
  BY DEF MTypeOK, Goto

\* What the updates of the rows and the end of a phase-2 run yield.
LEMMA RowFacts ==
    ASSUME MTypeOK, NEW w \in Workers
    PROVE  /\ Failed2(w) => job2' \in Jobs2
           /\ Succeeded2(w) => job2' \in Jobs2 /\ output' \in [Threads -> Outputs]
           /\ Enqueued(job2) \in Jobs2
           /\ Leave(w) => pc' \in [Workers -> Labels] /\ sel' \in [Workers -> SUBSET Snapshots]
<1> USE StampFacts DEF MTypeOK
<1>1. Failed2(w) => job2' \in Jobs2
  BY ZenonT(60) DEF Failed2, Jobs2
<1>2. Succeeded2(w) => job2' \in Jobs2 /\ output' \in [Threads -> Outputs]
  <2>1. Succeeded2(w) => job2' \in Jobs2
    BY ZenonT(60) DEF Succeeded2, Jobs2
  <2>2. ASSUME Succeeded2(w), Owns2(w)
        PROVE  output' \in [Threads -> Outputs]
    <3>1. output' = [t \in Threads |-> [output[t] EXCEPT !.flag =
                        IF <<t, output[t].src>> \in sel[w] THEN output[t].src ELSE 0]]
      BY <2>2 DEF Succeeded2
    <3>2. \A t \in Threads : [output[t] EXCEPT !.flag =
              IF <<t, output[t].src>> \in sel[w] THEN output[t].src ELSE 0] \in Outputs
      BY DEF Outputs
    <3> QED
      BY <3>1, <3>2
  <2>3. Succeeded2(w) /\ ~Owns2(w) => output' \in [Threads -> Outputs]
    BY DEF Succeeded2
  <2> QED
    BY <2>1, <2>2, <2>3
<1>3. Enqueued(job2) \in Jobs2
  BY DEF Enqueued, Jobs2
<1>4. Leave(w) => pc' \in [Workers -> Labels] /\ sel' \in [Workers -> SUBSET Snapshots]
  BY DEF Leave, Goto, Labels
<1> QED
  BY <1>1, <1>2, <1>3, <1>4

\* What the update of a stage-1 row yields.
LEMMA Stage1RowFacts ==
    ASSUME MInv, NEW t \in Threads
    PROVE  /\ Succeeded1(t) => job1' \in [Threads -> Jobs1]
           /\ Failed1(t) /\ job1[t].status = "running" => job1' \in [Threads -> Jobs1]
           /\ \A w \in Workers, v \in Versions : Claim1(w, t, v) => job1' \in [Threads -> Jobs1]
<1>1. /\ job1 \in [Threads -> Jobs1] /\ Retries \in 0..Retries
      /\ job1[t].status = "running" => job1[t].retry > 0 /\ job1[t].retry \in 0..Retries
  BY MemoryAssumption DEF MInv, MTypeOK, RowsSound, Jobs1
<1>2. Succeeded1(t) => job1' \in [Threads -> Jobs1]
  <2> SUFFICES ASSUME Succeeded1(t) PROVE job1' \in [Threads -> Jobs1]
    OBVIOUS
  <2>1. job1' = [job1 EXCEPT ![t] = [job1[t] EXCEPT !.status = "done", !.lease = FALSE,
                                                    !.lastOk = job1[t].input]]
    BY <1>1 DEF Succeeded1
  <2>2. [job1[t] EXCEPT !.status = "done", !.lease = FALSE, !.lastOk = job1[t].input] \in Jobs1
    BY <1>1 DEF Jobs1
  <2> QED
    BY <1>1, <2>1, <2>2
<1>3. Failed1(t) /\ job1[t].status = "running" => job1' \in [Threads -> Jobs1]
  BY <1>1, MemoryAssumption DEF Failed1, Jobs1
<1>4. ASSUME NEW w \in Workers, NEW v \in Versions, Claim1(w, t, v)
      PROVE  job1' \in [Threads -> Jobs1]
  BY <1>1, <1>4, StampFacts DEF Claim1, Jobs1
<1> QED
  BY <1>2, <1>3, <1>4

\* start_memories_startup_task scans when the worker has nothing left.
LEMMA ScanKeeps ==
    ASSUME MInv, NEW w \in Workers, Scan(w)
    PROVE  MInv'
<1>1. /\ todo' \in [Workers -> [Threads -> Stamps]]
      /\ \A t \in Threads : todo'[w][t] <= version[t] /\ claimed[w][t] = 0
      /\ \A u \in Workers : u # w => todo'[u] = todo[u]
  BY StampFacts DEF MInv, MTypeOK, ClaimsSound, Scan
<1>2. pc' \in [Workers -> Labels] /\ pc'[w] = "phase1" /\ \A u \in Workers : u # w => pc'[u] = pc[u]
  BY GotoFacts DEF MInv, Scan, Labels
<1>3. MTypeOK'
  BY <1>1, <1>2 DEF MInv, MTypeOK, Scan, threadVars, rowVars, wsVars
<1>4. ClaimsSound'
  BY <1>1, <1>2 DEF MInv, ClaimsSound, Scan, threadVars
<1>5. RowsSound'
  BY DEF MInv, RowsSound, Owns1, Scan, rowVars
<1> QED
  BY <1>3, <1>4, <1>5 DEF MInv

\* try_claim_stage1_job writes a row that nobody runs.
LEMMA TryClaimKeeps ==
    ASSUME MInv, NEW w \in Workers, NEW t \in Threads, TryClaimStage1(w, t)
    PROVE  MInv'
<1> DEFINE v == todo[w][t]
<1>1. /\ v \in Versions /\ v <= version[t] /\ claimed[w][t] = 0 /\ read[w][t] = 0
      /\ pc[w] = "phase1" /\ pc' = pc
      /\ todo' = [todo EXCEPT ![w][t] = 0]
      /\ UNCHANGED <<version, read>>
  BY StampFacts DEF MInv, MTypeOK, ClaimsSound, TryClaimStage1, threadVars
<1>2. todo' \in [Workers -> [Threads -> Stamps]]
  BY <1>1, StampFacts DEF MInv, MTypeOK
<1>3. CASE UNCHANGED <<job1, claimed>>
  <2>1. MTypeOK'
    BY <1>2, <1>3 DEF MInv, MTypeOK, TryClaimStage1, threadVars, wsVars
  <2>2. ClaimsSound'
    BY <1>1, <1>3 DEF MInv, MTypeOK, ClaimsSound
  <2>3. RowsSound'
    BY <1>3 DEF MInv, RowsSound, Owns1
  <2> QED
    BY <2>1, <2>2, <2>3 DEF MInv
<1>4. CASE /\ ~UpToDate(t, v) /\ Claimable(t, v)
           /\ Claim1(w, t, v) /\ claimed' = [claimed EXCEPT ![w][t] = v]
  <2>1. job1' \in [Threads -> Jobs1]
    BY <1>1, <1>4, Stage1RowFacts
  <2>2. claimed' \in [Workers -> [Threads -> Stamps]]
    BY <1>1, <1>4, StampFacts DEF MInv, MTypeOK
  <2>3. MTypeOK'
    BY <1>2, <2>1, <2>2 DEF MInv, MTypeOK, TryClaimStage1, threadVars, wsVars
  <2>4. ClaimsSound'
    BY <1>1, <1>4 DEF MInv, MTypeOK, ClaimsSound
  <2>5. /\ job1[t] \in Jobs1 /\ job1[t].lastOk < v
        /\ job1[t].status = "none" => job1[t].input = 0
        /\ job1[t].status = "none" \/ job1[t].retry > 0 \/ v > job1[t].input
    BY <1>1, <1>4, StampFacts DEF MInv, MTypeOK, RowsSound, UpToDate, Claimable, Jobs1, Outputs
  <2>6. /\ job1'[t].status = "running" /\ job1'[t].owner = w /\ job1'[t].input = v
        /\ job1'[t].lastOk < v /\ job1'[t].retry > 0
        /\ \A u \in Threads : u # t => job1'[u] = job1[u]
    BY <1>1, <1>4, <2>5, StampFacts, MemoryAssumption DEF Claim1, MInv, MTypeOK, Jobs1
  <2>7. /\ claimed'[w][t] = v
        /\ \A x \in Workers, u \in Threads : x # w \/ u # t => claimed'[x][u] = claimed[x][u]
    BY <1>4 DEF MInv, MTypeOK
  <2>8. RowsSound'
    BY <2>6, <2>7 DEF MInv, RowsSound, Owns1
  <2> QED
    BY <2>3, <2>4, <2>8 DEF MInv
<1> QED
  BY <1>3, <1>4 DEF TryClaimStage1

\* load_rollout_items reads the thread as it is by then.
LEMMA ReadKeeps ==
    ASSUME MInv, NEW w \in Workers, NEW t \in Threads, ReadRollout(w, t)
    PROVE  MInv'
<1>1. read' \in [Workers -> [Threads -> Stamps]]
  BY StampFacts DEF MInv, MTypeOK, ReadRollout
<1>2. MTypeOK'
  BY <1>1 DEF MInv, MTypeOK, ReadRollout, threadVars, rowVars, wsVars
<1>3. ClaimsSound'
  BY DEF MInv, MTypeOK, ClaimsSound, ReadRollout, threadVars
<1>4. RowsSound'
  BY DEF MInv, RowsSound, Owns1, ReadRollout, rowVars
<1> QED
  BY <1>2, <1>3, <1>4 DEF MInv

\* A stage-1 job that ends has no claim left, and its row, if it was still the
\* worker's, does not run any more.
LEMMA EndJobKeeps ==
    ASSUME MInv, NEW w \in Workers, NEW t \in Threads, EndJob(w, t),
           UNCHANGED <<version, todo, pc>>,
           \/ job1' = job1 /\ ~Owns1(w, t)
           \/ /\ job1' \in [Threads -> Jobs1] /\ job1'[t].status \in {"done", "error"}
              /\ \A u \in Threads : u # t => job1'[u] = job1[u]
    PROVE  /\ claimed' \in [Workers -> [Threads -> Stamps]]
           /\ read' \in [Workers -> [Threads -> Stamps]]
           /\ job1' \in [Threads -> Jobs1]
           /\ ClaimsSound' /\ RowsSound'
<1>1. /\ claimed' \in [Workers -> [Threads -> Stamps]] /\ read' \in [Workers -> [Threads -> Stamps]]
      /\ job1' \in [Threads -> Jobs1]
  BY StampFacts DEF MInv, MTypeOK, EndJob
<1>2. /\ claimed'[w][t] = 0 /\ read'[w][t] = 0
      /\ \A x \in Workers, u \in Threads :
             x # w \/ u # t => claimed'[x][u] = claimed[x][u] /\ read'[x][u] = read[x][u]
  BY DEF MInv, MTypeOK, EndJob
<1>3. ClaimsSound'
  <2>1. version[t] \in Nat
    BY StampFacts DEF MInv, MTypeOK
  <2> QED
    BY <1>2, <2>1 DEF MInv, ClaimsSound
<1>4. RowsSound'
  BY <1>2 DEF MInv, RowsSound, Owns1
<1> QED
  BY <1>1, <1>3, <1>4

\* mark_stage1_job_succeeded, mark_stage1_job_succeeded_no_output and
\* mark_stage1_job_failed.
LEMMA Stage1EndsKeeps ==
    ASSUME MInv, NEW w \in Workers, NEW t \in Threads,
           Stage1Succeeds(w, t) \/ Stage1NoOutput(w, t) \/ Stage1Fails(w, t)
    PROVE  MInv'
<1>1. /\ EndJob(w, t) /\ UNCHANGED <<version, polluted, todo, pc, sel, wsVars, digested, reset>>
      /\ faults' \in 0..MaxFaults
  BY MemoryAssumption DEF Stage1Succeeds, Stage1NoOutput, Stage1Fails, Fault, threadVars, MInv, MTypeOK
<1>2. \/ job1' = job1 /\ ~Owns1(w, t)
      \/ /\ job1' \in [Threads -> Jobs1] /\ job1'[t].status \in {"done", "error"}
         /\ \A u \in Threads : u # t => job1'[u] = job1[u]
  <2>1. CASE ~Owns1(w, t)
    BY <2>1 DEF Stage1Succeeds, Stage1NoOutput, Stage1Fails, rowVars
  <2>2. CASE Owns1(w, t)
    <3>1. Succeeded1(t) \/ Failed1(t)
      BY <2>2 DEF Stage1Succeeds, Stage1NoOutput, Stage1Fails
    <3>2. job1' \in [Threads -> Jobs1]
      BY <2>2, <3>1, Stage1RowFacts DEF Owns1
    <3>3. job1'[t].status \in {"done", "error"} /\ \A u \in Threads : u # t => job1'[u] = job1[u]
      BY <3>1 DEF Succeeded1, Failed1, MInv, MTypeOK, Jobs1
    <3> QED
      BY <3>2, <3>3
  <2> QED
    BY <2>1, <2>2
<1>3. output' \in [Threads -> Outputs] /\ job2' \in Jobs2
  <2>1. /\ output \in [Threads -> Outputs] /\ job2 \in Jobs2 /\ Enqueued(job2) \in Jobs2
        /\ NoOutput \in Outputs /\ claimed[w][t] \in Stamps
    BY RowFacts, EmptyRows DEF MInv, MTypeOK
  <2>2. CASE Stage1Succeeds(w, t)
    BY <2>1, <2>2 DEF Stage1Succeeds, rowVars, Outputs
  <2>3. CASE Stage1NoOutput(w, t)
    BY <2>1, <2>3 DEF Stage1NoOutput, rowVars
  <2>4. CASE Stage1Fails(w, t)
    BY <2>1, <2>4 DEF Stage1Fails
  <2> QED
    BY <2>2, <2>3, <2>4
<1>4. /\ claimed' \in [Workers -> [Threads -> Stamps]] /\ read' \in [Workers -> [Threads -> Stamps]]
      /\ job1' \in [Threads -> Jobs1] /\ ClaimsSound' /\ RowsSound'
  BY <1>1, <1>2, EndJobKeeps
<1>5. MTypeOK'
  BY <1>1, <1>3, <1>4 DEF MInv, MTypeOK, wsVars
<1> QED
  BY <1>4, <1>5 DEF MInv

\* Phase 2 does not touch the rows, claims and reads of phase 1.
LEMMA Phase2Keeps ==
    ASSUME MInv, NEW w \in Workers,
           \/ ClaimPhase2(w) \/ LoadSelection(w) \/ SyncInputs(w) \/ DiffWorkspace(w)
           \/ AgentCompletes(w) \/ ConfirmOwnership(w) \/ RemoveBaseline(w)
           \/ CommitBaseline(w) \/ MarkSucceeded(w) \/ AgentEdits(w) \/ Heartbeat(w)
           \/ Phase2Fails(w)
    PROVE  MInv'
<1>1. UNCHANGED <<version, polluted, job1, stage1Vars, reset>>
  BY DEF ClaimPhase2, LoadSelection, SyncInputs, DiffWorkspace, AgentCompletes,
         ConfirmOwnership, RemoveBaseline, CommitBaseline, MarkSucceeded, AgentEdits,
         Heartbeat, Phase2Fails, threadVars, rowVars
<1>2. faults' \in 0..MaxFaults
  BY MemoryAssumption
     DEF ClaimPhase2, LoadSelection, SyncInputs, DiffWorkspace, AgentCompletes,
         ConfirmOwnership, RemoveBaseline, CommitBaseline, MarkSucceeded, AgentEdits,
         Heartbeat, Phase2Fails, Fault, MInv, MTypeOK
<1>3. pc' \in [Workers -> Labels] /\ \A u \in Workers : u # w => pc'[u] = pc[u]
  BY DEF ClaimPhase2, LoadSelection, SyncInputs, DiffWorkspace, AgentCompletes,
         ConfirmOwnership, RemoveBaseline, CommitBaseline, MarkSucceeded, AgentEdits,
         Heartbeat, Phase2Fails, Leave, Goto, Labels, MInv, MTypeOK
<1>4. pc[w] # "phase1" \/ \A t \in Threads : todo[w][t] = 0 /\ claimed[w][t] = 0
  BY DEF ClaimPhase2, LoadSelection, SyncInputs, DiffWorkspace, AgentCompletes,
         ConfirmOwnership, RemoveBaseline, CommitBaseline, MarkSucceeded, AgentEdits,
         Heartbeat, Phase2Fails, Claims, Zero
<1>5. ClaimsSound' /\ RowsSound'
  BY <1>1, <1>3, <1>4, Stage1Untouched DEF stage1Vars
<1>6. sel' \in [Workers -> SUBSET Snapshots]
  <2>1. Selection \in SUBSET Snapshots
    BY StampFacts DEF Selection, Snapshots, MInv, MTypeOK, Outputs
  <2> QED
    BY <2>1 DEF ClaimPhase2, LoadSelection, SyncInputs, DiffWorkspace, AgentCompletes,
         ConfirmOwnership, RemoveBaseline, CommitBaseline, MarkSucceeded, AgentEdits,
         Heartbeat, Phase2Fails, Leave, MInv, MTypeOK
<1>7. /\ ws' \subseteq Snapshots /\ edited' \in BOOLEAN
      /\ baseline' \in {NoBaseline} \cup SUBSET Snapshots
      /\ digested' \subseteq SUBSET Snapshots
  <2>1. /\ ws \subseteq Snapshots /\ edited \in BOOLEAN /\ sel[w] \subseteq Snapshots
        /\ baseline \in {NoBaseline} \cup SUBSET Snapshots
        /\ digested \subseteq SUBSET Snapshots
    BY DEF MInv, MTypeOK
  <2>2. ws' \subseteq Snapshots /\ baseline' \in {NoBaseline} \cup SUBSET Snapshots
    BY <2>1
       DEF ClaimPhase2, LoadSelection, SyncInputs, DiffWorkspace, AgentCompletes,
         ConfirmOwnership, RemoveBaseline, CommitBaseline, MarkSucceeded, AgentEdits,
         Heartbeat, Phase2Fails, wsVars
  <2>3. edited' \in BOOLEAN
    BY <2>1
       DEF ClaimPhase2, LoadSelection, SyncInputs, DiffWorkspace, AgentCompletes,
         ConfirmOwnership, RemoveBaseline, CommitBaseline, MarkSucceeded, AgentEdits,
         Heartbeat, Phase2Fails, wsVars
  <2>4. digested' \subseteq SUBSET Snapshots
    BY <2>1
       DEF ClaimPhase2, LoadSelection, SyncInputs, DiffWorkspace, AgentCompletes,
         ConfirmOwnership, RemoveBaseline, CommitBaseline, MarkSucceeded, AgentEdits,
         Heartbeat, Phase2Fails, wsVars
  <2> QED
    BY <2>2, <2>3, <2>4
<1>8. job2' \in Jobs2
  <2>1. job2 \in Jobs2 /\ [job2 EXCEPT !.lease = TRUE] \in Jobs2
    BY DEF MInv, MTypeOK, Jobs2
  <2>2. [status |-> "running", owner |-> w, lease |-> TRUE, backoff |-> FALSE,
         cooldown |-> FALSE] \in Jobs2
    BY DEF Jobs2
  <2> QED
    BY <2>1, <2>2, RowFacts
       DEF ClaimPhase2, LoadSelection, SyncInputs, DiffWorkspace, AgentCompletes,
         ConfirmOwnership, RemoveBaseline, CommitBaseline, MarkSucceeded, AgentEdits,
         Heartbeat, Phase2Fails, rowVars, MInv
<1>9. output' \in [Threads -> Outputs]
  BY RowFacts
     DEF ClaimPhase2, LoadSelection, SyncInputs, DiffWorkspace, AgentCompletes,
         ConfirmOwnership, RemoveBaseline, CommitBaseline, MarkSucceeded, AgentEdits,
         Heartbeat, Phase2Fails, rowVars, MInv, MTypeOK
<1>10. MTypeOK'
  BY <1>1, <1>2, <1>3, <1>6, <1>7, <1>8, <1>9 DEF MInv, MTypeOK, stage1Vars
<1> QED
  BY <1>5, <1>10 DEF MInv

\* A crash takes the claims of the worker and leaves its rows to nobody.
LEMMA CrashKeeps ==
    ASSUME MInv, NEW w \in Workers, Crash(w)
    PROVE  MInv'
<1>1. /\ job1' = [t \in Threads |->
             IF job1[t].owner = w THEN [job1[t] EXCEPT !.owner = Nobody] ELSE job1[t]]
      /\ job2' = IF job2.owner = w THEN [job2 EXCEPT !.owner = Nobody] ELSE job2
      /\ todo' = [todo EXCEPT ![w] = Zero] /\ claimed' = [claimed EXCEPT ![w] = Zero]
      /\ read' = [read EXCEPT ![w] = Zero]
      /\ Goto(w, "idle") /\ sel' = [sel EXCEPT ![w] = {}]
      /\ UNCHANGED <<version, polluted, output, ws, edited, baseline, digested, reset>>
      /\ faults' \in 0..MaxFaults
  BY MemoryAssumption DEF Crash, Leave, Fault, threadVars, wsVars, MInv, MTypeOK
<1>2. job1' \in [Threads -> Jobs1] /\ job2' \in Jobs2
  <2>1. \A t \in Threads : job1[t] \in Jobs1 /\ [job1[t] EXCEPT !.owner = Nobody] \in Jobs1
    BY ZenonT(60) DEF MInv, MTypeOK, Jobs1
  <2>2. job2 \in Jobs2 /\ [job2 EXCEPT !.owner = Nobody] \in Jobs2
    BY DEF MInv, MTypeOK, Jobs2
  <2> QED
    BY <1>1, <2>1, <2>2
<1>3. pc' \in [Workers -> Labels] /\ pc'[w] = "idle" /\ \A u \in Workers : u # w => pc'[u] = pc[u]
  BY <1>1, GotoFacts DEF MInv, Labels
<1>4. MTypeOK'
  BY <1>1, <1>2, <1>3, EmptyRows DEF MInv, MTypeOK
<1>5. \A t \in Threads : todo'[w][t] = 0 /\ claimed'[w][t] = 0 /\ read'[w][t] = 0
  BY <1>1 DEF Zero, MInv, MTypeOK
<1>6. \A u \in Workers : u # w => todo'[u] = todo[u] /\ claimed'[u] = claimed[u] /\ read'[u] = read[u]
  BY <1>1 DEF MInv, MTypeOK
<1>7. ClaimsSound'
  <2>1. \A t \in Threads : version[t] \in Nat
    BY StampFacts DEF MInv, MTypeOK
  <2> QED
    BY <1>1, <1>3, <1>5, <1>6, <2>1 DEF MInv, ClaimsSound
<1>8. \A t \in Threads :
         /\ job1'[t].status = job1[t].status /\ job1'[t].input = job1[t].input
         /\ job1'[t].lastOk = job1[t].lastOk /\ job1'[t].retry = job1[t].retry
         /\ job1'[t].owner = IF job1[t].owner = w THEN Nobody ELSE job1[t].owner
  BY <1>1 DEF MInv, MTypeOK, Jobs1
<1>9. RowsSound'
  <2>1. \A t \in Threads, x \in Workers : Owns1(x, t)' => Owns1(x, t) /\ x # w
    BY <1>8, MemoryAssumption DEF Owns1
  <2> QED
    BY <1>6, <1>8, <2>1 DEF MInv, RowsSound
<1> QED
  BY <1>4, <1>7, <1>9 DEF MInv

\* A thread grows or is polluted, time passes, or the memory is cleared.
LEMMA EnvironmentKeeps ==
    ASSUME MInv,
           \/ \E t \in Threads : \/ TouchThread(t) \/ Pollute(t)
                                 \/ Stage1LeaseExpires(t) \/ Stage1BackoffEnds(t)
           \/ Phase2LeaseExpires \/ Phase2BackoffEnds \/ CooldownEnds
           \/ ClearMemoryData \/ ClearMemoryRoots
    PROVE  MInv'
<1>1. CASE \E t \in Threads : TouchThread(t)
  <2> PICK t \in Threads : TouchThread(t)
    BY <1>1
  <2>1. version' \in [Threads -> Versions] /\ \A u \in Threads : version[u] <= version'[u]
    BY MemoryAssumption DEF TouchThread, MInv, MTypeOK, Versions
  <2>2. MTypeOK'
    BY <2>1 DEF MInv, MTypeOK, TouchThread, rowVars, stage1Vars, wsVars
  <2>3. ClaimsSound'
    <3>1. \A w \in Workers, u \in Threads :
             /\ todo[w][u] \in Nat /\ claimed[w][u] \in Nat /\ version[u] \in Nat
             /\ version'[u] \in Nat
      BY <2>1, StampFacts DEF MInv, MTypeOK
    <3> QED
      BY <2>1, <3>1 DEF MInv, ClaimsSound, TouchThread, stage1Vars
  <2>4. RowsSound'
    BY DEF MInv, RowsSound, Owns1, TouchThread, rowVars, stage1Vars
  <2> QED
    BY <2>2, <2>3, <2>4 DEF MInv
<1>2. CASE \E t \in Threads : Pollute(t)
  <2> PICK t \in Threads : Pollute(t)
    BY <1>2
  <2>1. MTypeOK'
    <3>1. Enqueued(job2) \in Jobs2
      BY DEF Enqueued, MInv, MTypeOK, Jobs2
    <3> QED
      BY <3>1 DEF MInv, MTypeOK, Pollute, stage1Vars, wsVars
  <2>2. ClaimsSound' /\ RowsSound'
    BY Stage1Untouched DEF Pollute, stage1Vars
  <2> QED
    BY <2>1, <2>2 DEF MInv
<1>3. CASE \E t \in Threads : Stage1LeaseExpires(t) \/ Stage1BackoffEnds(t)
  <2> PICK t \in Threads : Stage1LeaseExpires(t) \/ Stage1BackoffEnds(t)
    BY <1>3
  <2>1. \/ job1' = [job1 EXCEPT ![t].lease = FALSE]
        \/ job1' = [job1 EXCEPT ![t].backoff = FALSE]
    BY DEF Stage1LeaseExpires, Stage1BackoffEnds
  <2>2. job1' \in [Threads -> Jobs1]
    <3>1. /\ job1 \in [Threads -> Jobs1]
          /\ [job1[t] EXCEPT !.lease = FALSE] \in Jobs1
          /\ [job1[t] EXCEPT !.backoff = FALSE] \in Jobs1
      BY ZenonT(60) DEF MInv, MTypeOK, Jobs1
    <3>2. \/ job1' = [job1 EXCEPT ![t] = [job1[t] EXCEPT !.lease = FALSE]]
          \/ job1' = [job1 EXCEPT ![t] = [job1[t] EXCEPT !.backoff = FALSE]]
      BY <2>1, <3>1
    <3> QED
      BY <3>1, <3>2
  <2>3. Untouched /\ job2' = job2 /\ faults' \in 0..MaxFaults
    BY MemoryAssumption DEF Stage1LeaseExpires, Stage1BackoffEnds, Fault, MInv, MTypeOK
  <2>4. MTypeOK'
    BY <2>2, <2>3 DEF MInv, MTypeOK, Untouched, threadVars, stage1Vars, wsVars
  <2>5. \A u \in Threads :
           /\ job1'[u].status = job1[u].status /\ job1'[u].input = job1[u].input
           /\ job1'[u].lastOk = job1[u].lastOk /\ job1'[u].retry = job1[u].retry
           /\ job1'[u].owner = job1[u].owner
    <3>1. job1 \in [Threads -> Jobs1]
      BY DEF MInv, MTypeOK
    <3>2. CASE job1' = [job1 EXCEPT ![t].lease = FALSE]
      BY <3>1, <3>2 DEF Jobs1
    <3>3. CASE job1' = [job1 EXCEPT ![t].backoff = FALSE]
      BY <3>1, <3>3 DEF Jobs1
    <3> QED
      BY <2>1, <3>2, <3>3
  <2>6. ClaimsSound'
    BY <2>3 DEF MInv, ClaimsSound, Untouched, threadVars, stage1Vars
  <2>7. RowsSound'
    BY <2>3, <2>5 DEF MInv, RowsSound, Owns1, Untouched, stage1Vars
  <2> QED
    BY <2>4, <2>6, <2>7 DEF MInv
<1>4. CASE Phase2LeaseExpires \/ Phase2BackoffEnds \/ CooldownEnds
  <2>1. job2' \in Jobs2
    BY <1>4 DEF Phase2LeaseExpires, Phase2BackoffEnds, CooldownEnds, MInv, MTypeOK, Jobs2
  <2>2. Untouched /\ job1' = job1 /\ faults' \in 0..MaxFaults
    BY <1>4, MemoryAssumption
       DEF Phase2LeaseExpires, Phase2BackoffEnds, CooldownEnds, Fault, MInv, MTypeOK
  <2>3. MTypeOK'
    BY <2>1, <2>2 DEF MInv, MTypeOK, Untouched, threadVars, stage1Vars, wsVars
  <2>4. ClaimsSound' /\ RowsSound'
    BY <2>2, Stage1Untouched DEF Untouched, threadVars, stage1Vars
  <2> QED
    BY <2>3, <2>4 DEF MInv
<1>5. CASE ClearMemoryData
  <2>1. MTypeOK'
    <3>1. job1' \in [Threads -> Jobs1] /\ output' \in [Threads -> Outputs] /\ job2' \in Jobs2
      BY <1>5, EmptyRows DEF ClearMemoryData
    <3>2. reset' = "rows" /\ faults' \in 0..MaxFaults
      BY <1>5, MemoryAssumption DEF ClearMemoryData, Fault, MInv, MTypeOK
    <3> QED
      BY <1>5, <3>1, <3>2
         DEF ClearMemoryData, MInv, MTypeOK, threadVars, stage1Vars, wsVars
  <2>2. ClaimsSound'
    BY <1>5 DEF ClearMemoryData, MInv, ClaimsSound, threadVars, stage1Vars
  <2>3. RowsSound'
    BY <1>5 DEF ClearMemoryData, RowsSound, Owns1, NoJob1
  <2> QED
    BY <2>1, <2>2, <2>3 DEF MInv
<1>6. CASE ClearMemoryRoots
  <2>1. MTypeOK'
    BY <1>6 DEF ClearMemoryRoots, MInv, MTypeOK, threadVars, rowVars, stage1Vars
  <2>2. ClaimsSound' /\ RowsSound'
    BY <1>6, Stage1Untouched DEF ClearMemoryRoots, threadVars, rowVars
  <2> QED
    BY <2>1, <2>2 DEF MInv
<1> QED
  BY <1>1, <1>2, <1>3, <1>4, <1>5, <1>6

\* Every step keeps the invariant of phase 1.
LEMMA MInvNext == MInv /\ [MNext]_mvars => MInv'
<1> SUFFICES ASSUME MInv, [MNext]_mvars PROVE MInv'
  OBVIOUS
<1>1. CASE UNCHANGED mvars
  <2>1. MTypeOK'
    BY <1>1 DEF mvars, MInv, MTypeOK
  <2>2. ClaimsSound' /\ RowsSound'
    BY <1>1, Stage1Untouched DEF mvars, stage1Vars
  <2> QED
    BY <2>1, <2>2 DEF MInv
<1>2. CASE \E w \in Workers : Scan(w)
  BY <1>2, ScanKeeps
<1>3. CASE \E w \in Workers, t \in Threads : TryClaimStage1(w, t)
  BY <1>3, TryClaimKeeps
<1>4. CASE \E w \in Workers, t \in Threads : ReadRollout(w, t)
  BY <1>4, ReadKeeps
<1>5. CASE \E w \in Workers, t \in Threads : EndStage1(w, t) \/ Stage1Fails(w, t)
  BY <1>5, Stage1EndsKeeps DEF EndStage1
<1>6. CASE \E w \in Workers :
              \/ ClaimPhase2(w) \/ LoadSelection(w) \/ SyncInputs(w) \/ DiffWorkspace(w)
              \/ AgentCompletes(w) \/ ConfirmOwnership(w) \/ RemoveBaseline(w)
              \/ CommitBaseline(w) \/ MarkSucceeded(w) \/ AgentEdits(w) \/ Heartbeat(w)
              \/ Phase2Fails(w)
  BY <1>6, Phase2Keeps
<1>7. CASE \E w \in Workers : Crash(w)
  BY <1>7, CrashKeeps
<1>8. CASE \/ \E t \in Threads : \/ TouchThread(t) \/ Pollute(t)
                                 \/ Stage1LeaseExpires(t) \/ Stage1BackoffEnds(t)
           \/ Phase2LeaseExpires \/ Phase2BackoffEnds \/ CooldownEnds
           \/ ClearMemoryData \/ ClearMemoryRoots
  BY <1>8, EnvironmentKeeps
<1> QED
  BY <1>1, <1>2, <1>3, <1>4, <1>5, <1>6, <1>7, <1>8 DEF MNext, WorkerStep

\* The rows, claims and reads of phase 1 are consistent whatever crashes, expires,
\* fails or is reset: a stage-1 row runs at the version its owner claimed.
THEOREM RowsInvariant == MSpec => []MInv
<1> QED
  BY MInvInit, MInvNext, PTL DEF MSpec

\* A watermark moves only when the owner of the row reports success, and it moves to
\* the version the owner claimed, which it had read.
LEMMA WatermarkStep ==
    ASSUME MInv, [MNext]_mvars, NEW t \in Threads
    PROVE  \/ job1'[t].lastOk = job1[t].lastOk
           \/ job1'[t] = NoJob1
           \/ /\ job1'[t].lastOk > job1[t].lastOk
              /\ \E w \in Workers :
                     /\ claimed[w][t] # 0 /\ claimed'[w][t] = 0
                     /\ read[w][t] >= job1'[t].lastOk
<1> USE DEF MInv, MTypeOK
<1>1. CASE UNCHANGED job1
  BY <1>1
<1>job. job1 \in [Threads -> Jobs1]
  OBVIOUS
<1>other. ASSUME NEW u \in Threads, NEW r,
             job1' = [job1 EXCEPT ![u] = r], r.lastOk = job1[u].lastOk
      PROVE  job1'[t].lastOk = job1[t].lastOk
  BY <1>job, <1>other
<1>2. ASSUME NEW w \in Workers, NEW u \in Threads, TryClaimStage1(w, u), ~UNCHANGED job1
      PROVE  job1'[t].lastOk = job1[t].lastOk
  <2>1. Claim1(w, u, todo[w][u])
    BY <1>2 DEF TryClaimStage1
  <2>2. CASE t = u
    BY <1>job, <2>1, <2>2 DEF Claim1
  <2>3. CASE t # u
    BY <1>job, <2>1, <2>3 DEF Claim1
  <2> QED
    BY <2>2, <2>3
<1>3. ASSUME NEW w \in Workers, NEW u \in Threads, Stage1Fails(w, u)
      PROVE  job1'[t].lastOk = job1[t].lastOk
  <2>1. Failed1(u) \/ UNCHANGED job1
    BY <1>3 DEF Stage1Fails
  <2>2. CASE Failed1(u)
    <3>1. job1' = [job1 EXCEPT ![u] = [job1[u] EXCEPT !.status = "error", !.lease = FALSE,
                                       !.backoff = TRUE, !.retry = @ - 1]]
      BY <1>job, <2>2 DEF Failed1
    <3>2. [job1[u] EXCEPT !.status = "error", !.lease = FALSE, !.backoff = TRUE,
                          !.retry = @ - 1].lastOk = job1[u].lastOk
      BY <1>job DEF Jobs1
    <3> QED
      BY <1>other, <3>1, <3>2
  <2> QED
    BY <2>1, <2>2
<1>4. ASSUME NEW w \in Workers, NEW u \in Threads, EndStage1(w, u), ~UNCHANGED job1
      PROVE  \/ job1'[t].lastOk = job1[t].lastOk
             \/ /\ job1'[t].lastOk > job1[t].lastOk
                /\ claimed[w][t] # 0 /\ claimed'[w][t] = 0
                /\ read[w][t] >= job1'[t].lastOk
  <2>1. Owns1(w, u) /\ Succeeded1(u) /\ EndJob(w, u) /\ read[w][u] # 0
    BY <1>4 DEF EndStage1, Stage1Succeeds, Stage1NoOutput, rowVars
  <2>2. CASE u # t
    BY <2>1, <2>2 DEF Succeeded1, Jobs1
  <2>3. CASE u = t
    <3>1. job1'[t].lastOk = job1[t].input /\ claimed'[w][t] = 0
      BY <2>1, <2>3 DEF Succeeded1, EndJob, Jobs1
    <3>2. /\ claimed[w][t] = job1[t].input /\ job1[t].lastOk < job1[t].input
          /\ claimed[w][t] # 0 /\ claimed[w][t] <= read[w][t]
      BY <2>1, <2>3 DEF ClaimsSound, RowsSound, Owns1
    <3>3. /\ claimed[w][t] \in Nat /\ read[w][t] \in Nat /\ job1[t].input \in Nat
          /\ job1[t].lastOk \in Nat
      BY StampFacts DEF Jobs1
    <3> QED
      BY <3>1, <3>2, <3>3
  <2> QED
    BY <2>2, <2>3
<1>5. ASSUME NEW w \in Workers, Crash(w)
      PROVE  job1'[t].lastOk = job1[t].lastOk
  BY <1>5 DEF Crash, Jobs1
<1>6. ASSUME NEW u \in Threads, Stage1LeaseExpires(u) \/ Stage1BackoffEnds(u)
      PROVE  job1'[t].lastOk = job1[t].lastOk
  <2>1. CASE job1' = [job1 EXCEPT ![u].lease = FALSE]
    BY <1>job, <2>1 DEF Jobs1
  <2>2. CASE job1' = [job1 EXCEPT ![u].backoff = FALSE]
    BY <1>job, <2>2 DEF Jobs1
  <2> QED
    BY <1>6, <2>1, <2>2 DEF Stage1LeaseExpires, Stage1BackoffEnds
<1>7. ClearMemoryData => job1'[t] = NoJob1
  BY DEF ClearMemoryData
<1> HIDE DEF MInv, MTypeOK
<1>8. ASSUME ~UNCHANGED job1
      PROVE  \/ \E w \in Workers, u \in Threads :
                    TryClaimStage1(w, u) \/ Stage1Fails(w, u) \/ EndStage1(w, u)
             \/ \E w \in Workers : Crash(w)
             \/ \E u \in Threads : Stage1LeaseExpires(u) \/ Stage1BackoffEnds(u)
             \/ ClearMemoryData
  BY <1>8 DEF MNext, WorkerStep, mvars, rowVars, Scan, ReadRollout, ClaimPhase2,
     LoadSelection, SyncInputs, DiffWorkspace, AgentCompletes, ConfirmOwnership,
     RemoveBaseline, CommitBaseline, MarkSucceeded, AgentEdits, Heartbeat, Phase2Fails,
     TouchThread, Pollute, Phase2LeaseExpires, Phase2BackoffEnds, CooldownEnds,
     ClearMemoryRoots
<1> QED
  BY <1>1, <1>2, <1>3, <1>4, <1>5, <1>6, <1>7, <1>8

\* last_success_watermark is honest: a worker whose lease ran out can not report as
\* done a version that somebody else claimed or that it has not read.
THEOREM WatermarkIsHonest == MSpec => WatermarkHonest
<1>1. MInv /\ [MNext]_mvars =>
      [\A t \in Threads :
           \/ job1'[t].lastOk = job1[t].lastOk
           \/ job1'[t] = NoJob1
           \/ /\ job1'[t].lastOk > job1[t].lastOk
              /\ \E w \in Workers :
                     /\ claimed[w][t] # 0 /\ claimed'[w][t] = 0
                     /\ read[w][t] >= job1'[t].lastOk]_mvars
  BY WatermarkStep
<1> QED
  BY <1>1, RowsInvariant, PTL DEF MSpec, WatermarkHonest

-----------------------------------------------------------------------------
(* Phase 2: the workspace and its baseline *)

\* The empty workspace counts as consolidated, and nobody is at work.
LEMMA WorkspaceInit == MInit => WorkspaceInv
<1> SUFFICES ASSUME MInit PROVE WorkspaceInv
  OBVIOUS
<1>1. /\ \A w \in Workers : pc[w] = "idle"
      /\ ws \in digested /\ baseline = NoBaseline /\ job2.status = "none"
  BY DEF MInit, NoJob2
<1> QED
  BY <1>1 DEF WorkspaceInv, LockKept, BaselineReady, BaselineConsolidated, MarkedIsInBaseline

\* Steps outside of phase 2: the lock may be asked for but not given, and marks may
\* go but not come.
LEMMA OutsideKeeps ==
    ASSUME WorkspaceInv, UNCHANGED <<sel, ws, baseline, digested, reset>>,
           \A w \in Workers : \/ pc'[w] = pc[w] \/ pc'[w] \in {"idle", "phase1"},
           \/ /\ job2'.status = job2.status /\ job2'.owner = job2.owner
              /\ job2'.lease = job2.lease
           \/ job2.status # "running" /\ job2'.status \notin {"running", "done"},
           \A t \in Threads : output'[t].flag \in {0, output[t].flag}
    PROVE  WorkspaceInv'
<1>1. LockKept'
  BY DEF WorkspaceInv, LockKept, Owns2
<1>2. BaselineReady'
  BY DEF WorkspaceInv, BaselineReady
<1>3. BaselineConsolidated'
  BY DEF WorkspaceInv, BaselineConsolidated
<1>4. MarkedIsInBaseline'
  BY DEF WorkspaceInv, MarkedIsInBaseline
<1> QED
  BY <1>1, <1>2, <1>3, <1>4 DEF WorkspaceInv

\* A worker that leaves phase 2, with the row failed if it was still its own.
LEMMA FailKeeps ==
    ASSUME MInv, WorkspaceInv, NEW w \in Workers, Failed2(w), Leave(w),
           UNCHANGED <<ws, baseline, digested, reset, output>>
    PROVE  WorkspaceInv'
<1>1. /\ pc'[w] = "idle" /\ \A u \in Workers : u # w => pc'[u] = pc[u] /\ sel'[u] = sel[u]
      /\ IF Owns2(w) THEN job2'.status = "error" ELSE job2' = job2
      /\ job2'.owner = job2.owner
  BY DEF Failed2, Leave, Goto, MInv, MTypeOK, Jobs2
<1>2. LockKept'
  BY <1>1 DEF WorkspaceInv, LockKept, Owns2
<1>3. BaselineReady'
  BY <1>1 DEF WorkspaceInv, BaselineReady
<1>4. BaselineConsolidated'
  BY DEF WorkspaceInv, BaselineConsolidated
<1>5. MarkedIsInBaseline'
  BY <1>1 DEF WorkspaceInv, MarkedIsInBaseline
<1> QED
  BY <1>2, <1>3, <1>4, <1>5 DEF WorkspaceInv

\* The steps of phase 2 of a worker that is not reset away.
LEMMA Phase2Workspace ==
    ASSUME MInv, MInv', WorkspaceInv, NEW w \in Workers,
           \/ ClaimPhase2(w) \/ LoadSelection(w) \/ SyncInputs(w) \/ DiffWorkspace(w)
           \/ AgentCompletes(w) \/ ConfirmOwnership(w) \/ RemoveBaseline(w)
           \/ CommitBaseline(w) \/ MarkSucceeded(w) \/ AgentEdits(w) \/ Heartbeat(w)
           \/ Phase2Fails(w)
    PROVE  WorkspaceInv'
<1> USE DEF WorkspaceInv
<1>0. /\ \A S \in SUBSET Snapshots : S # NoBaseline
      /\ ws \in SUBSET Snapshots /\ pc \in [Workers -> Labels] /\ job2 \in Jobs2
      /\ sel \in [Workers -> SUBSET Snapshots]
  BY MemoryAssumption DEF MInv, MTypeOK, Snapshots, Versions
<1>1. CASE ClaimPhase2(w)
  <2>1. CASE ~Claimable2
    <3> QED
      BY <1>0, <1>1, <2>1, OutsideKeeps DEF ClaimPhase2, Goto, wsVars
  <2>2. CASE Claimable2
    <3>1. /\ pc'[w] = "load" /\ \A u \in Workers : u # w => pc'[u] = pc[u]
          /\ job2'.status = "running" /\ job2'.owner = w /\ job2'.lease
          /\ UNCHANGED <<ws, sel, baseline, digested, reset, output>>
      BY <1>0, <1>1, <2>2 DEF ClaimPhase2, Goto, wsVars
    <3>2. reset = "no" => \A u \in Workers :
              pc[u] \notin {"load", "sync", "diff", "reset", "commit", "mark"}
      BY <2>2 DEF LockKept, Owns2, Claimable2, Running
    <3>3. LockKept'
      BY <3>1, <3>2 DEF LockKept, Owns2
    <3>4. BaselineReady' /\ BaselineConsolidated'
      BY <3>1 DEF BaselineReady, BaselineConsolidated
    <3>5. MarkedIsInBaseline'
      BY <3>1 DEF MarkedIsInBaseline
    <3> QED
      BY <3>3, <3>4, <3>5
  <2> QED
    BY <2>1, <2>2
<1>2. CASE LoadSelection(w)
  <2>1. /\ pc[w] = "load" /\ pc'[w] = "sync" /\ \A u \in Workers : u # w => pc'[u] = pc[u]
        /\ \A u \in Workers : u # w => sel'[u] = sel[u]
        /\ baseline' = IF baseline = NoBaseline THEN ws ELSE baseline
        /\ UNCHANGED <<ws, job2, digested, reset, output>>
    BY <1>0, <1>2 DEF LoadSelection, Goto, rowVars
  <2>2. reset = "no" => Owns2(w) /\ \A u \in Workers : u # w => pc[u] # "mark"
    BY <2>1 DEF LockKept, Owns2
  <2>3. LockKept'
    BY <2>1, <2>2 DEF LockKept, Owns2
  <2>4. BaselineReady' /\ BaselineConsolidated'
    BY <1>0, <2>1, <2>2 DEF BaselineReady, BaselineConsolidated
  <2>5. MarkedIsInBaseline'
    BY <2>1, <2>2 DEF MarkedIsInBaseline, Owns2
  <2> QED
    BY <2>3, <2>4, <2>5
<1>3. CASE SyncInputs(w)
  <2>1. /\ pc[w] = "sync" /\ pc'[w] = "diff" /\ \A u \in Workers : u # w => pc'[u] = pc[u]
        /\ ws' = sel[w] /\ UNCHANGED <<sel, baseline, job2, digested, reset, output>>
    BY <1>0, <1>3 DEF SyncInputs, Goto, rowVars
  <2>2. reset = "no" => Owns2(w) /\ baseline # NoBaseline
    BY <2>1 DEF LockKept, BaselineReady
  <2>3. LockKept'
    BY <2>1, <2>2 DEF LockKept, Owns2
  <2>4. BaselineReady' /\ BaselineConsolidated'
    BY <2>1, <2>2 DEF BaselineReady, BaselineConsolidated
  <2>5. MarkedIsInBaseline'
    BY <2>1 DEF MarkedIsInBaseline
  <2> QED
    BY <2>3, <2>4, <2>5
<1>4. CASE DiffWorkspace(w)
  <2>1. CASE Failed2(w) /\ Leave(w) /\ UNCHANGED output
    BY <1>4, <2>1, FailKeeps DEF DiffWorkspace, wsVars
  <2>2. CASE baseline = ws /\ Succeeded2(w) /\ Leave(w)
    <3>1. /\ pc[w] = "diff" /\ pc'[w] = "idle"
          /\ \A u \in Workers : u # w => pc'[u] = pc[u] /\ sel'[u] = sel[u]
          /\ UNCHANGED <<ws, baseline, digested, reset>>
          /\ job2'.owner = job2.owner
      BY <1>0, <1>4, <2>2 DEF DiffWorkspace, Leave, Goto, Succeeded2, Jobs2, wsVars
    <3>2. reset = "no" => Owns2(w) /\ ws = sel[w]
      BY <3>1 DEF LockKept
    <3>3. LockKept'
      BY <3>1, <3>2 DEF LockKept, Owns2
    <3>4. BaselineReady' /\ BaselineConsolidated'
      BY <3>1 DEF BaselineReady, BaselineConsolidated
    <3>5. MarkedIsInBaseline'
      <4>1. reset = "no" => \A t \in Threads :
                output'[t].flag # 0 => output'[t].flag = output[t].src /\ <<t, output[t].src>> \in sel[w]
        BY <2>2, <3>2 DEF Succeeded2, MInv, MTypeOK, Outputs
      <4> QED
        BY <2>2, <3>1, <3>2, <4>1 DEF MarkedIsInBaseline
    <3> QED
      BY <3>3, <3>4, <3>5
  <2>3. CASE Goto(w, "agent") /\ UNCHANGED <<job2, output, sel>>
    <3>1. /\ pc[w] = "diff" /\ pc'[w] = "agent" /\ \A u \in Workers : u # w => pc'[u] = pc[u]
          /\ UNCHANGED <<ws, sel, baseline, job2, digested, reset, output>>
      BY <1>0, <1>4, <2>3 DEF DiffWorkspace, Goto, wsVars
    <3>2. LockKept' /\ BaselineReady' /\ BaselineConsolidated'
      BY <3>1 DEF LockKept, Owns2, BaselineReady, BaselineConsolidated
    <3>3. MarkedIsInBaseline'
      BY <3>1 DEF MarkedIsInBaseline
    <3> QED
      BY <3>2, <3>3
  <2> QED
    BY <1>4, <2>1, <2>2, <2>3 DEF DiffWorkspace
<1>5. CASE AgentCompletes(w)
  <2>1. /\ pc[w] = "agent" /\ pc'[w] = "confirm" /\ \A u \in Workers : u # w => pc'[u] = pc[u]
        /\ digested' = digested \cup {sel[w]}
        /\ UNCHANGED <<ws, sel, baseline, job2, reset, output>>
    BY <1>0, <1>5 DEF AgentCompletes, Goto, rowVars, wsVars
  <2>2. LockKept' /\ BaselineReady' /\ BaselineConsolidated'
    BY <2>1 DEF LockKept, Owns2, BaselineReady, BaselineConsolidated
  <2>3. MarkedIsInBaseline'
    BY <2>1 DEF MarkedIsInBaseline
  <2> QED
    BY <2>2, <2>3
<1>6. CASE ConfirmOwnership(w)
  <2>1. /\ pc[w] = "confirm" /\ pc'[w] \in {"reset", "idle"}
        /\ \A u \in Workers : u # w => pc'[u] = pc[u] /\ sel'[u] = sel[u]
        /\ pc'[w] = "reset" => Owns2(w) /\ job2'.lease /\ sel' = sel
        /\ job2'.status = job2.status /\ job2'.owner = job2.owner
        /\ job2' = job2 \/ job2'.lease
        /\ UNCHANGED <<ws, baseline, digested, reset, output>>
    BY <1>0, <1>6 DEF ConfirmOwnership, Leave, Goto, Jobs2, wsVars
  <2>2. LockKept'
    BY <2>1 DEF LockKept, Owns2
  <2>3. BaselineReady' /\ BaselineConsolidated'
    BY <2>1 DEF BaselineReady, BaselineConsolidated
  <2>4. MarkedIsInBaseline'
    BY <2>1 DEF MarkedIsInBaseline
  <2> QED
    BY <2>2, <2>3, <2>4
<1>7. CASE RemoveBaseline(w)
  <2>1. /\ pc[w] = "reset" /\ pc'[w] = "commit" /\ \A u \in Workers : u # w => pc'[u] = pc[u]
        /\ baseline' = NoBaseline
        /\ UNCHANGED <<ws, sel, job2, digested, reset, output>>
    BY <1>0, <1>7 DEF RemoveBaseline, Goto, rowVars
  <2>2. reset = "no" => /\ Owns2(w) /\ ws = sel[w] /\ sel[w] \in digested
                        /\ \A u \in Workers : u # w => pc[u] \notin {"sync", "mark"}
    BY <2>1 DEF LockKept, Owns2, BaselineReady
  <2>3. LockKept'
    BY <2>1 DEF LockKept, Owns2
  <2>4. BaselineReady' /\ BaselineConsolidated'
    BY <2>1, <2>2 DEF BaselineReady, BaselineConsolidated
  <2>5. MarkedIsInBaseline'
    BY <2>1, <2>2 DEF MarkedIsInBaseline, Owns2
  <2> QED
    BY <2>3, <2>4, <2>5
<1>8. CASE CommitBaseline(w)
  <2>1. /\ pc[w] = "commit" /\ pc'[w] = "mark" /\ \A u \in Workers : u # w => pc'[u] = pc[u]
        /\ baseline' = ws /\ UNCHANGED <<ws, sel, job2, digested, reset, output>>
    BY <1>0, <1>8 DEF CommitBaseline, Goto, rowVars
  <2>2. reset = "no" => /\ Owns2(w) /\ ws = sel[w] /\ sel[w] \in digested
                        /\ \A u \in Workers : u # w => pc[u] \notin {"sync", "mark"}
    BY <2>1 DEF LockKept, Owns2, BaselineReady
  <2>3. LockKept'
    BY <2>1 DEF LockKept, Owns2
  <2>4. BaselineReady' /\ BaselineConsolidated'
    BY <1>0, <2>1, <2>2 DEF BaselineReady, BaselineConsolidated
  <2>5. MarkedIsInBaseline'
    BY <2>1, <2>2 DEF MarkedIsInBaseline, Owns2
  <2> QED
    BY <2>3, <2>4, <2>5
<1>9. CASE MarkSucceeded(w)
  <2>1. /\ pc[w] = "mark" /\ pc'[w] = "idle"
        /\ \A u \in Workers : u # w => pc'[u] = pc[u] /\ sel'[u] = sel[u]
        /\ UNCHANGED <<ws, baseline, digested, reset>>
        /\ job2'.owner = job2.owner
    BY <1>0, <1>9 DEF MarkSucceeded, Leave, Goto, Succeeded2, Jobs2, wsVars
  <2>2. reset = "no" => Owns2(w) /\ baseline = sel[w]
    BY <2>1 DEF LockKept, BaselineReady
  <2>3. LockKept'
    BY <2>1, <2>2 DEF LockKept, Owns2
  <2>4. BaselineReady' /\ BaselineConsolidated'
    BY <2>1 DEF BaselineReady, BaselineConsolidated
  <2>5. MarkedIsInBaseline'
    <3>1. reset = "no" => \A t \in Threads :
              output'[t].flag # 0 => output'[t].flag = output[t].src /\ <<t, output[t].src>> \in sel[w]
      BY <1>9, <2>2 DEF MarkSucceeded, Succeeded2, MInv, MTypeOK, Outputs
    <3> QED
      BY <2>1, <2>2, <3>1 DEF MarkedIsInBaseline
  <2> QED
    BY <2>3, <2>4, <2>5
<1>10. CASE AgentEdits(w)
  BY <1>10, OutsideKeeps DEF AgentEdits, rowVars
<1>11. CASE Heartbeat(w)
  <2>1. CASE Failed2(w) /\ Leave(w)
    BY <1>11, <2>1, FailKeeps DEF Heartbeat, wsVars
  <2>2. CASE Owns2(w) /\ job2' = [job2 EXCEPT !.lease = TRUE] /\ UNCHANGED <<pc, sel>>
    <3>1. /\ job2'.status = job2.status /\ job2'.owner = job2.owner /\ job2'.lease
          /\ UNCHANGED <<pc, sel, ws, baseline, digested, reset, output>>
      BY <1>0, <1>11, <2>2 DEF Heartbeat, Jobs2, wsVars
    <3>2. LockKept'
      BY <3>1 DEF LockKept, Owns2
    <3>3. BaselineReady' /\ BaselineConsolidated'
      BY <3>1 DEF BaselineReady, BaselineConsolidated
    <3>4. MarkedIsInBaseline'
      BY <3>1 DEF MarkedIsInBaseline
    <3> QED
      BY <3>2, <3>3, <3>4
  <2> QED
    BY <1>11, <2>1, <2>2 DEF Heartbeat
<1>12. CASE Phase2Fails(w)
  BY <1>12, FailKeeps DEF Phase2Fails, wsVars
<1> QED
  BY <1>1, <1>2, <1>3, <1>4, <1>5, <1>6, <1>7, <1>8, <1>9, <1>10, <1>11, <1>12

\* A crash gives up the lock without a word; nobody else is told.
LEMMA CrashWorkspace ==
    ASSUME MInv, WorkspaceInv, NEW w \in Workers, Crash(w)
    PROVE  WorkspaceInv'
<1>1. /\ pc'[w] = "idle"
      /\ \A u \in Workers : u # w => pc'[u] = pc[u] /\ sel'[u] = sel[u]
      /\ job2'.status = job2.status /\ job2'.lease = job2.lease
      /\ job2'.owner = IF job2.owner = w THEN Nobody ELSE job2.owner
      /\ UNCHANGED <<ws, baseline, digested, reset, output>>
  BY DEF Crash, Leave, Goto, MInv, MTypeOK, Jobs2, wsVars
<1>2. LockKept'
  BY <1>1, MemoryAssumption DEF WorkspaceInv, LockKept, Owns2
<1>3. BaselineReady' /\ BaselineConsolidated'
  BY <1>1 DEF WorkspaceInv, BaselineReady, BaselineConsolidated
<1>4. MarkedIsInBaseline'
  BY <1>1 DEF WorkspaceInv, MarkedIsInBaseline
<1> QED
  BY <1>2, <1>3, <1>4 DEF WorkspaceInv

\* Asking for a consolidation never gives or takes the lock.
LEMMA EnqueueFacts ==
    ASSUME MInv
    PROVE  \/ Enqueued(job2) = job2
           \/ job2.status # "running" /\ Enqueued(job2).status = "pending"
  BY DEF Enqueued, MInv, MTypeOK, Jobs2

\* The steps of phase 1, of threads and of time.
LEMMA OtherWorkspace ==
    ASSUME Attentive, MInv, MInv', WorkspaceInv,
           \/ \E w \in Workers : Scan(w)
           \/ \E w \in Workers, t \in Threads :
                 \/ TryClaimStage1(w, t) \/ ReadRollout(w, t)
                 \/ EndStage1(w, t) \/ Stage1Fails(w, t)
           \/ \E t \in Threads : \/ TouchThread(t) \/ Pollute(t)
                                 \/ Stage1LeaseExpires(t) \/ Stage1BackoffEnds(t)
           \/ Phase2LeaseExpires \/ Phase2BackoffEnds \/ CooldownEnds
           \/ ClearMemoryData \/ ClearMemoryRoots
    PROVE  WorkspaceInv'
<1>0. pc \in [Workers -> Labels] /\ job2 \in Jobs2 /\ output \in [Threads -> Outputs]
  BY DEF MInv, MTypeOK
<1>1. CASE \E w \in Workers : Scan(w)
  BY <1>0, <1>1, OutsideKeeps DEF Scan, Goto, rowVars, wsVars
<1>2. CASE \E w \in Workers, t \in Threads :
              TryClaimStage1(w, t) \/ ReadRollout(w, t) \/ Stage1Fails(w, t)
  BY <1>2, OutsideKeeps DEF TryClaimStage1, ReadRollout, Stage1Fails, rowVars, wsVars
<1>3. CASE \E w \in Workers, t \in Threads : EndStage1(w, t)
  <2>1. PICK w \in Workers, t \in Threads : Stage1Succeeds(w, t) \/ Stage1NoOutput(w, t)
    BY <1>3 DEF EndStage1
  <2>2. UNCHANGED <<pc, sel, ws, baseline, digested, reset>>
    BY <2>1 DEF Stage1Succeeds, Stage1NoOutput, wsVars
  <2>3. job2' \in {job2, Enqueued(job2)}
    BY <2>1 DEF Stage1Succeeds, Stage1NoOutput, rowVars
  <2>4. \A u \in Threads : output'[u].flag \in {0, output[u].flag}
    BY <1>0, <2>1 DEF Stage1Succeeds, Stage1NoOutput, rowVars, Outputs, NoOutput
  <2> QED
    BY <2>2, <2>3, <2>4, EnqueueFacts, OutsideKeeps
<1>4. CASE \E t \in Threads : TouchThread(t) \/ Stage1LeaseExpires(t) \/ Stage1BackoffEnds(t)
  BY <1>4, OutsideKeeps
     DEF TouchThread, Stage1LeaseExpires, Stage1BackoffEnds, Untouched, rowVars, wsVars
<1>5. CASE \E t \in Threads : Pollute(t)
  <2>1. /\ UNCHANGED <<pc, sel, ws, baseline, digested, reset, output>>
        /\ job2' \in {job2, Enqueued(job2)}
    BY <1>5 DEF Pollute, wsVars
  <2> QED
    BY <2>1, EnqueueFacts, OutsideKeeps
<1>6. CASE Phase2LeaseExpires
  <2>1. /\ job2'.status = job2.status /\ job2'.owner = job2.owner
        /\ UNCHANGED <<pc, sel, ws, baseline, digested, reset, output>>
        /\ job2.owner \in Workers => pc[job2.owner] = "agent"
    BY <1>0, <1>6, MemoryAssumption
       DEF Phase2LeaseExpires, Untouched, wsVars, Jobs2, Attentive
  <2>2. LockKept'
    BY <2>1 DEF WorkspaceInv, LockKept, Owns2
  <2>3. BaselineReady' /\ BaselineConsolidated'
    BY <2>1 DEF WorkspaceInv, BaselineReady, BaselineConsolidated
  <2>4. MarkedIsInBaseline'
    BY <2>1 DEF WorkspaceInv, MarkedIsInBaseline
  <2> QED
    BY <2>2, <2>3, <2>4 DEF WorkspaceInv
<1>7. CASE Phase2BackoffEnds \/ CooldownEnds
  <2>1. /\ job2'.status = job2.status /\ job2'.owner = job2.owner /\ job2'.lease = job2.lease
        /\ UNCHANGED <<pc, sel, ws, baseline, digested, reset, output>>
    BY <1>0, <1>7 DEF Phase2BackoffEnds, CooldownEnds, Untouched, wsVars, Jobs2
  <2> QED
    BY <2>1, OutsideKeeps
<1>8. CASE ClearMemoryData \/ ClearMemoryRoots
  <2>1. reset' # "no" /\ UNCHANGED <<pc, sel, digested>>
    BY <1>8 DEF ClearMemoryData, ClearMemoryRoots
  <2> QED
    BY <2>1 DEF WorkspaceInv, LockKept, BaselineReady, BaselineConsolidated, MarkedIsInBaseline
<1> QED
  BY <1>1, <1>2, <1>3, <1>4, <1>5, <1>6, <1>7, <1>8

\* Every step keeps the invariant of phase 2.
LEMMA WorkspaceNext ==
    ASSUME Attentive
    PROVE  MInv /\ MInv' /\ WorkspaceInv /\ [MNext]_mvars => WorkspaceInv'
<1> SUFFICES ASSUME MInv, MInv', WorkspaceInv, [MNext]_mvars PROVE WorkspaceInv'
  OBVIOUS
<1>1. CASE UNCHANGED mvars
  BY <1>1, OutsideKeeps DEF mvars
<1>2. CASE \E w \in Workers :
              \/ ClaimPhase2(w) \/ LoadSelection(w) \/ SyncInputs(w) \/ DiffWorkspace(w)
              \/ AgentCompletes(w) \/ ConfirmOwnership(w) \/ RemoveBaseline(w)
              \/ CommitBaseline(w) \/ MarkSucceeded(w) \/ AgentEdits(w) \/ Heartbeat(w)
              \/ Phase2Fails(w)
  BY <1>2, Phase2Workspace
<1>3. CASE \E w \in Workers : Crash(w)
  BY <1>3, CrashWorkspace
<1>4. CASE \/ \E w \in Workers : Scan(w)
           \/ \E w \in Workers, t \in Threads :
                 \/ TryClaimStage1(w, t) \/ ReadRollout(w, t)
                 \/ EndStage1(w, t) \/ Stage1Fails(w, t)
           \/ \E t \in Threads : \/ TouchThread(t) \/ Pollute(t)
                                 \/ Stage1LeaseExpires(t) \/ Stage1BackoffEnds(t)
           \/ Phase2LeaseExpires \/ Phase2BackoffEnds \/ CooldownEnds
           \/ ClearMemoryData \/ ClearMemoryRoots
  BY <1>4, OtherWorkspace
<1> QED
  BY <1>1, <1>2, <1>3, <1>4 DEF MNext, WorkerStep

\* If a live worker loses the global lease only while its agent runs, then until the
\* memory is reset the git baseline holds only inputs that an agent has consolidated,
\* and a finished consolidation marks only rows the baseline holds, whatever workers
\* crash and wherever.
THEOREM BaselineIsHonest ==
    ASSUME Attentive
    PROVE  MSpec => []BaselineConsolidated /\ []MarkedIsInBaseline
<1>1. MSpec => []WorkspaceInv
  BY RowsInvariant, WorkspaceInit, WorkspaceNext, PTL DEF MSpec
<1>2. WorkspaceInv => BaselineConsolidated /\ MarkedIsInBaseline
  BY DEF WorkspaceInv
<1> QED
  BY <1>1, <1>2, PTL

=============================================================================
