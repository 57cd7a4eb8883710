--------------------------- MODULE JournalLawProofs ---------------------------
(***************************************************************************)
(* Proofs about every journal that replay accepts, for every task and any  *)
(* number of candidates, requests, actors and processes.                   *)
(***************************************************************************)
EXTENDS JournalLaw, PromotionProofs

(* K records the same facts as J about evaluations, about custody, and     *)
(* about the progress of the run.                                          *)
SameEvaluations(J, K) ==
  K.results = J.results /\ K.scoring = J.scoring /\ K.jobs = J.jobs /\ K.open = J.open

SameCustody(J, K) ==
  /\ K.leases = J.leases /\ K.tools = J.tools
  /\ K.dispatch = J.dispatch /\ K.provider = J.provider

SameProgress(J, K) ==
  /\ K.ended = J.ended /\ K.winner = J.winner
  /\ K.lifecycle = J.lifecycle /\ K.generation = J.generation

(* The event counter stays in its range and never returns to zero.         *)
LEMMA GrowType == ASSUME NEW J \in RunStates PROVE Grow(J) \in 0..2 /\ Grow(J) # 0
BY DEF Grow, RunStates

(* What StartRun changes, and what it leaves alone. *)
LEMMA StartRunFacts ==
  ASSUME NEW J \in RunStates,
         NEW K, K = StartRun(J)
  PROVE  /\ K.sequence = 1
         /\ SameEvaluations(J, K)
         /\ SameCustody(J, K)
         /\ SameProgress(J, K)
BY DEF RunStates, StartRun, SameEvaluations, SameCustody, SameProgress

(* StartRun keeps the type of the journal. *)
LEMMA StartRunType ==
  ASSUME NEW J \in RunStates
  PROVE  StartRun(J) \in RunStates
<1> DEFINE n == 1
<1>1. n \in 0..2
  OBVIOUS
<1>3. StartRun(J) = [J EXCEPT !.sequence = n]
  BY DEF StartRun, RunStates
<1> HIDE DEF n
<1>4. [J EXCEPT !.sequence = n] \in RunStates
  BY Zenon, <1>1 DEF RunStates
<1> QED
  BY <1>3, <1>4

(* What StartIncarnation changes, and what it leaves alone. *)
LEMMA StartIncarnationFacts ==
  ASSUME NEW J \in RunStates, NEW p \in Processes,
         NEW K, K = StartIncarnation(J, p)
  PROVE  /\ K.sequence = 2
         /\ K.lifecycle = "active"
         /\ SameEvaluations(J, K)
         /\ SameCustody(J, K)
         /\ K.ended = J.ended /\ K.winner = J.winner /\ K.generation = J.generation
BY DEF RunStates, StartIncarnation, SameEvaluations, SameCustody

(* StartIncarnation keeps the type of the journal. *)
LEMMA StartIncarnationType ==
  ASSUME NEW J \in RunStates, NEW p \in Processes
  PROVE  StartIncarnation(J, p) \in RunStates
<1> DEFINE n == 2
           x == "active"
           y == p
<1>1. n \in 0..2
  OBVIOUS
<1>2. x \in {"none", "active", "terminated"} /\ y \in Processes \cup {NoProcess}
  BY DEF RunStates
<1>3. StartIncarnation(J, p) = [J EXCEPT !.sequence = n, !.lifecycle = x, !.owner = y]
  BY DEF StartIncarnation, RunStates
<1> HIDE DEF n, x, y
<1>4. [J EXCEPT !.sequence = n, !.lifecycle = x, !.owner = y] \in RunStates
  BY Zenon, <1>1, <1>2 DEF RunStates
<1> QED
  BY <1>3, <1>4

(* What Terminate changes, and what it leaves alone. *)
LEMMA TerminateFacts ==
  ASSUME NEW J \in RunStates, NEW k \in Checkpoints,
         NEW K, K = Terminate(J, k)
  PROVE  /\ K.sequence = Grow(J)
         /\ K.lifecycle = "terminated"
         /\ SameEvaluations(J, K)
         /\ SameCustody(J, K)
         /\ K.ended = J.ended /\ K.winner = J.winner /\ K.generation = J.generation
BY DEF RunStates, Terminate, SameEvaluations, SameCustody

(* Terminate keeps the type of the journal. *)
LEMMA TerminateType ==
  ASSUME NEW J \in RunStates, NEW k \in Checkpoints
  PROVE  Terminate(J, k) \in RunStates
<1> DEFINE n == Grow(J)
           x == "terminated"
           y == k
<1>1. n \in 0..2
  BY GrowType
<1>2. x \in {"none", "active", "terminated"} /\ y \in Checkpoints \cup {NoCheckpoint}
  BY DEF RunStates
<1>3. Terminate(J, k) = [J EXCEPT !.sequence = n, !.lifecycle = x, !.pending = y]
  BY DEF Terminate, RunStates
<1> HIDE DEF n, x, y
<1>4. [J EXCEPT !.sequence = n, !.lifecycle = x, !.pending = y] \in RunStates
  BY Zenon, <1>1, <1>2 DEF RunStates
<1> QED
  BY <1>3, <1>4

(* What Restore changes, and what it leaves alone. *)
LEMMA RestoreFacts ==
  ASSUME NEW J \in RunStates, NEW p \in Processes,
         NEW K, K = Restore(J, p)
  PROVE  /\ K.sequence = Grow(J)
         /\ K.lifecycle = "active"
         /\ K.generation = J.generation + 1
         /\ SameEvaluations(J, K)
         /\ SameCustody(J, K)
         /\ K.ended = J.ended /\ K.winner = J.winner
BY DEF RunStates, Restore, SameEvaluations, SameCustody

(* Restore keeps the type of the journal. *)
LEMMA RestoreType ==
  ASSUME NEW J \in RunStates, NEW p \in Processes
  PROVE  Restore(J, p) \in RunStates
<1> DEFINE n == Grow(J)
           x == "active"
           y == NoCheckpoint
           z == J.generation + 1
           w == p
<1>1. n \in 0..2
  BY GrowType
<1>2. /\ x \in {"none", "active", "terminated"} /\ y \in Checkpoints \cup {NoCheckpoint}
      /\ z \in Nat /\ w \in Processes \cup {NoProcess}
  BY DEF RunStates
<1>3. Restore(J, p) = [J EXCEPT !.sequence = n, !.lifecycle = x, !.pending = y,
                                !.generation = z, !.owner = w]
  BY DEF Restore, RunStates
<1> HIDE DEF n, x, y, z, w
<1>4. [J EXCEPT !.sequence = n, !.lifecycle = x, !.pending = y,
                                !.generation = z, !.owner = w] \in RunStates
  BY Zenon, <1>1, <1>2 DEF RunStates
<1> QED
  BY <1>3, <1>4

(* What StartProviderRequest changes, and what it leaves alone. *)
LEMMA StartProviderRequestFacts ==
  ASSUME NEW J \in RunStates, NEW r \in ProviderRequests,
         NEW K, K = StartProviderRequest(J, r)
  PROVE  /\ K.sequence = Grow(J)
         /\ K.provider = [J.provider EXCEPT ![r] = "started"]
         /\ SameEvaluations(J, K)
         /\ K.leases = J.leases /\ K.tools = J.tools /\ K.dispatch = J.dispatch
         /\ SameProgress(J, K)
BY DEF RunStates, StartProviderRequest, SameEvaluations, SameProgress

(* StartProviderRequest keeps the type of the journal. *)
LEMMA StartProviderRequestType ==
  ASSUME NEW J \in RunStates, NEW r \in ProviderRequests
  PROVE  StartProviderRequest(J, r) \in RunStates
<1> DEFINE n == Grow(J)
           x == [J.provider EXCEPT ![r] = "started"]
<1>1. n \in 0..2
  BY GrowType
<1>2. x \in [ProviderRequests -> {"absent", "started", "answered"}]
  BY DEF RunStates
<1>3. StartProviderRequest(J, r) = [J EXCEPT !.sequence = n, !.provider = x]
  BY DEF StartProviderRequest, RunStates
<1> HIDE DEF n, x
<1>4. [J EXCEPT !.sequence = n, !.provider = x] \in RunStates
  BY Zenon, <1>1, <1>2 DEF RunStates
<1> QED
  BY <1>3, <1>4

(* What RecordResponse changes, and what it leaves alone. *)
LEMMA RecordResponseFacts ==
  ASSUME NEW J \in RunStates, NEW r \in ProviderRequests,
         NEW K, K = RecordResponse(J, r)
  PROVE  /\ K.sequence = Grow(J)
         /\ K.provider = [J.provider EXCEPT ![r] = "answered"]
         /\ SameEvaluations(J, K)
         /\ K.leases = J.leases /\ K.tools = J.tools /\ K.dispatch = J.dispatch
         /\ SameProgress(J, K)
BY DEF RunStates, RecordResponse, SameEvaluations, SameProgress

(* RecordResponse keeps the type of the journal. *)
LEMMA RecordResponseType ==
  ASSUME NEW J \in RunStates, NEW r \in ProviderRequests
  PROVE  RecordResponse(J, r) \in RunStates
<1> DEFINE n == Grow(J)
           x == [J.provider EXCEPT ![r] = "answered"]
<1>1. n \in 0..2
  BY GrowType
<1>2. x \in [ProviderRequests -> {"absent", "started", "answered"}]
  BY DEF RunStates
<1>3. RecordResponse(J, r) = [J EXCEPT !.sequence = n, !.provider = x]
  BY DEF RecordResponse, RunStates
<1> HIDE DEF n, x
<1>4. [J EXCEPT !.sequence = n, !.provider = x] \in RunStates
  BY Zenon, <1>1, <1>2 DEF RunStates
<1> QED
  BY <1>3, <1>4

(* What RequestTool changes, and what it leaves alone. *)
LEMMA RequestToolFacts ==
  ASSUME NEW J \in RunStates, NEW q \in Requests,
         NEW K, K = RequestTool(J, q)
  PROVE  /\ K.sequence = Grow(J)
         /\ K.tools = [J.tools EXCEPT ![q] = "open"]
         /\ SameEvaluations(J, K)
         /\ K.leases = J.leases /\ K.dispatch = J.dispatch /\ K.provider = J.provider
         /\ SameProgress(J, K)
BY DEF RunStates, RequestTool, SameEvaluations, SameProgress

(* RequestTool keeps the type of the journal. *)
LEMMA RequestToolType ==
  ASSUME NEW J \in RunStates, NEW q \in Requests
  PROVE  RequestTool(J, q) \in RunStates
<1> DEFINE n == Grow(J)
           x == [J.tools EXCEPT ![q] = "open"]
           y == [J.requester EXCEPT ![q] = J.writer]
<1>1. n \in 0..2
  BY GrowType
<1>2. x \in [Requests -> {"absent", "open", "resolved"}] /\ y \in [Requests -> Actors]
  BY DEF RunStates
<1>3. RequestTool(J, q) = [J EXCEPT !.sequence = n, !.tools = x, !.requester = y]
  BY DEF RequestTool, RunStates
<1> HIDE DEF n, x, y
<1>4. [J EXCEPT !.sequence = n, !.tools = x, !.requester = y] \in RunStates
  BY Zenon, <1>1, <1>2 DEF RunStates
<1> QED
  BY <1>3, <1>4

(* What ResolveTool changes, and what it leaves alone. *)
LEMMA ResolveToolFacts ==
  ASSUME NEW J \in RunStates, NEW q \in Requests,
         NEW K, K = ResolveTool(J, q)
  PROVE  /\ K.sequence = Grow(J)
         /\ K.tools = [J.tools EXCEPT ![q] = "resolved"]
         /\ SameEvaluations(J, K)
         /\ K.leases = J.leases /\ K.dispatch = J.dispatch /\ K.provider = J.provider
         /\ SameProgress(J, K)
BY DEF RunStates, ResolveTool, SameEvaluations, SameProgress

(* ResolveTool keeps the type of the journal. *)
LEMMA ResolveToolType ==
  ASSUME NEW J \in RunStates, NEW q \in Requests
  PROVE  ResolveTool(J, q) \in RunStates
<1> DEFINE n == Grow(J)
           x == [J.tools EXCEPT ![q] = "resolved"]
<1>1. n \in 0..2
  BY GrowType
<1>2. x \in [Requests -> {"absent", "open", "resolved"}]
  BY DEF RunStates
<1>3. ResolveTool(J, q) = [J EXCEPT !.sequence = n, !.tools = x]
  BY DEF ResolveTool, RunStates
<1> HIDE DEF n, x
<1>4. [J EXCEPT !.sequence = n, !.tools = x] \in RunStates
  BY Zenon, <1>1, <1>2 DEF RunStates
<1> QED
  BY <1>3, <1>4

(* What ReserveTool changes, and what it leaves alone. *)
LEMMA ReserveToolFacts ==
  ASSUME NEW J \in RunStates, NEW q \in Requests,
         NEW K, K = ReserveTool(J, q)
  PROVE  /\ K.sequence = Grow(J)
         /\ K.dispatch = [J.dispatch EXCEPT ![q] = "reserved"]
         /\ SameEvaluations(J, K)
         /\ K.leases = J.leases /\ K.tools = J.tools /\ K.provider = J.provider
         /\ SameProgress(J, K)
BY DEF RunStates, ReserveTool, SameEvaluations, SameProgress

(* ReserveTool keeps the type of the journal. *)
LEMMA ReserveToolType ==
  ASSUME NEW J \in RunStates, NEW q \in Requests
  PROVE  ReserveTool(J, q) \in RunStates
<1> DEFINE n == Grow(J)
           x == [J.dispatch EXCEPT ![q] = "reserved"]
<1>1. n \in 0..2
  BY GrowType
<1>2. x \in [Requests -> {"none", "reserved", "settled", "lost"}]
  BY DEF RunStates
<1>3. ReserveTool(J, q) = [J EXCEPT !.sequence = n, !.dispatch = x]
  BY DEF ReserveTool, RunStates
<1> HIDE DEF n, x
<1>4. [J EXCEPT !.sequence = n, !.dispatch = x] \in RunStates
  BY Zenon, <1>1, <1>2 DEF RunStates
<1> QED
  BY <1>3, <1>4

(* What CloseTool changes, and what it leaves alone. *)
LEMMA CloseToolFacts ==
  ASSUME NEW J \in RunStates, NEW q \in Requests, NEW how,
         NEW K, K = CloseTool(J, q, how)
  PROVE  /\ K.sequence = Grow(J)
         /\ K.dispatch = [J.dispatch EXCEPT ![q] = how]
         /\ SameEvaluations(J, K)
         /\ K.leases = J.leases /\ K.tools = J.tools /\ K.provider = J.provider
         /\ SameProgress(J, K)
BY DEF RunStates, CloseTool, SameEvaluations, SameProgress

(* CloseTool keeps the type of the journal. *)
LEMMA CloseToolType ==
  ASSUME NEW J \in RunStates, NEW q \in Requests, NEW how \in {"settled", "lost"}
  PROVE  CloseTool(J, q, how) \in RunStates
<1> DEFINE n == Grow(J)
           x == [J.dispatch EXCEPT ![q] = how]
<1>1. n \in 0..2
  BY GrowType
<1>2. x \in [Requests -> {"none", "reserved", "settled", "lost"}]
  BY DEF RunStates
<1>3. CloseTool(J, q, how) = [J EXCEPT !.sequence = n, !.dispatch = x]
  BY DEF CloseTool, RunStates
<1> HIDE DEF n, x
<1>4. [J EXCEPT !.sequence = n, !.dispatch = x] \in RunStates
  BY Zenon, <1>1, <1>2 DEF RunStates
<1> QED
  BY <1>3, <1>4

(* What Transfer changes, and what it leaves alone. *)
LEMMA TransferFacts ==
  ASSUME NEW J \in RunStates, NEW a \in Actors,
         NEW K, K = Transfer(J, a)
  PROVE  /\ K.sequence = Grow(J)
         /\ SameEvaluations(J, K)
         /\ SameCustody(J, K)
         /\ SameProgress(J, K)
BY DEF RunStates, Transfer, SameEvaluations, SameCustody, SameProgress

(* Transfer keeps the type of the journal. *)
LEMMA TransferType ==
  ASSUME NEW J \in RunStates, NEW a \in Actors
  PROVE  Transfer(J, a) \in RunStates
<1> DEFINE n == Grow(J)
           x == a
<1>1. n \in 0..2
  BY GrowType
<1>2. x \in Actors
  BY DEF RunStates
<1>3. Transfer(J, a) = [J EXCEPT !.sequence = n, !.writer = x]
  BY DEF Transfer, RunStates
<1> HIDE DEF n, x
<1>4. [J EXCEPT !.sequence = n, !.writer = x] \in RunStates
  BY Zenon, <1>1, <1>2 DEF RunStates
<1> QED
  BY <1>3, <1>4

(* What Submit changes, and what it leaves alone. *)
LEMMA SubmitFacts ==
  ASSUME NEW J \in RunStates, NEW c \in Candidates,
         NEW K, K = Submit(J, c)
  PROVE  /\ K.sequence = Grow(J)
         /\ SameEvaluations(J, K)
         /\ SameCustody(J, K)
         /\ SameProgress(J, K)
BY DEF RunStates, Submit, SameEvaluations, SameCustody, SameProgress

(* Submit keeps the type of the journal. *)
LEMMA SubmitType ==
  ASSUME NEW J \in RunStates, NEW c \in Candidates
  PROVE  Submit(J, c) \in RunStates
<1> DEFINE n == Grow(J)
           x == Append(J.candidates, c)
<1>1. n \in 0..2
  BY GrowType
<1>2. x \in Seq(Candidates)
  BY DEF RunStates
<1>3. Submit(J, c) = [J EXCEPT !.sequence = n, !.candidates = x]
  BY DEF Submit, RunStates
<1> HIDE DEF n, x
<1>4. [J EXCEPT !.sequence = n, !.candidates = x] \in RunStates
  BY Zenon, <1>1, <1>2 DEF RunStates
<1> QED
  BY <1>3, <1>4

(* What StartEvaluation changes, and what it leaves alone. *)
LEMMA StartEvaluationFacts ==
  ASSUME NEW J \in RunStates, NEW c \in Candidates, NEW s \in Stages,
         NEW K, K = StartEvaluation(J, c, s)
  PROVE  /\ K.sequence = Grow(J)
         /\ K.jobs = [J.jobs EXCEPT ![<<c, s>>] = "queued"]
         /\ K.open = J.open \cup {<<c, s>>}
         /\ K.results = J.results /\ K.scoring = J.scoring
         /\ SameCustody(J, K)
         /\ SameProgress(J, K)
BY DEF RunStates, StartEvaluation, SameCustody, SameProgress

(* StartEvaluation keeps the type of the journal. *)
LEMMA StartEvaluationType ==
  ASSUME NEW J \in RunStates, NEW c \in Candidates, NEW s \in Stages
  PROVE  StartEvaluation(J, c, s) \in RunStates
<1> DEFINE n == Grow(J)
           x == [J.jobs EXCEPT ![<<c, s>>] = "queued"]
           y == J.open \cup {<<c, s>>}
<1>1. n \in 0..2
  BY GrowType
<1>2. x \in [Jobs -> JobStates] /\ y \in SUBSET Jobs
  BY DEF RunStates, Jobs, JobStates
<1>3. StartEvaluation(J, c, s) = [J EXCEPT !.sequence = n, !.jobs = x, !.open = y]
  BY DEF StartEvaluation, RunStates
<1> HIDE DEF n, x, y
<1>4. [J EXCEPT !.sequence = n, !.jobs = x, !.open = y] \in RunStates
  BY Zenon, <1>1, <1>2 DEF RunStates
<1> QED
  BY <1>3, <1>4

(* What ChangeJob changes, and what it leaves alone. *)
LEMMA ChangeJobFacts ==
  ASSUME NEW J \in RunStates, NEW j \in Jobs, NEW state \in JobStates,
         NEW K, K = ChangeJob(J, j, state)
  PROVE  /\ K.sequence = Grow(J)
         /\ K.jobs = [J.jobs EXCEPT ![j] = state]
         /\ K.results = J.results /\ K.scoring = J.scoring /\ K.open = J.open
         /\ SameCustody(J, K)
         /\ SameProgress(J, K)
BY DEF RunStates, ChangeJob, SameCustody, SameProgress

(* ChangeJob keeps the type of the journal. *)
LEMMA ChangeJobType ==
  ASSUME NEW J \in RunStates, NEW j \in Jobs, NEW state \in JobStates
  PROVE  ChangeJob(J, j, state) \in RunStates
<1> DEFINE n == Grow(J)
           x == [J.jobs EXCEPT ![j] = state]
<1>1. n \in 0..2
  BY GrowType
<1>2. x \in [Jobs -> JobStates]
  BY DEF RunStates
<1>3. ChangeJob(J, j, state) = [J EXCEPT !.sequence = n, !.jobs = x]
  BY DEF ChangeJob, RunStates
<1> HIDE DEF n, x
<1>4. [J EXCEPT !.sequence = n, !.jobs = x] \in RunStates
  BY Zenon, <1>1, <1>2 DEF RunStates
<1> QED
  BY <1>3, <1>4

(* What CompleteEvaluation changes, and what it leaves alone. *)
LEMMA CompleteEvaluationFacts ==
  ASSUME NEW J \in RunStates, NEW c \in Candidates, NEW s \in Stages, NEW outcome \in Outcomes,
         NEW K, K = CompleteEvaluation(J, c, s, outcome)
  PROVE  /\ K.sequence = Grow(J)
         /\ K.results = [J.results EXCEPT ![c] = [J.results[c] EXCEPT ![s] = outcome]]
         /\ K.open = J.open \ {<<c, s>>}
         /\ K.scoring = J.scoring /\ K.jobs = J.jobs
         /\ SameCustody(J, K)
         /\ SameProgress(J, K)
BY DEF RunStates, CompleteEvaluation, SameCustody, SameProgress

(* CompleteEvaluation keeps the type of the journal. *)
LEMMA CompleteEvaluationType ==
  ASSUME NEW J \in RunStates, NEW c \in Candidates, NEW s \in Stages, NEW outcome \in Outcomes
  PROVE  CompleteEvaluation(J, c, s, outcome) \in RunStates
<1> DEFINE n == Grow(J)
           x == [J.results EXCEPT ![c] = [J.results[c] EXCEPT ![s] = outcome]]
           y == J.open \ {<<c, s>>}
<1>1. n \in 0..2
  BY GrowType
<1>2. x \in [Candidates -> Snapshots] /\ y \in SUBSET Jobs
  BY DEF RunStates, Snapshots
<1>3. CompleteEvaluation(J, c, s, outcome) = [J EXCEPT !.sequence = n, !.results = x, !.open = y]
  BY DEF CompleteEvaluation, RunStates
<1> HIDE DEF n, x, y
<1>4. [J EXCEPT !.sequence = n, !.results = x, !.open = y] \in RunStates
  BY Zenon, <1>1, <1>2 DEF RunStates
<1> QED
  BY <1>3, <1>4

(* What RecordScoring changes, and what it leaves alone. *)
LEMMA RecordScoringFacts ==
  ASSUME NEW J \in RunStates, NEW c \in Candidates, NEW decision \in Decisions,
         NEW K, K = RecordScoring(J, c, decision)
  PROVE  /\ K.sequence = Grow(J)
         /\ K.scoring = [J.scoring EXCEPT ![c] = decision]
         /\ K.results = J.results /\ K.jobs = J.jobs /\ K.open = J.open
         /\ SameCustody(J, K)
         /\ SameProgress(J, K)
BY DEF RunStates, RecordScoring, SameCustody, SameProgress

(* RecordScoring keeps the type of the journal. *)
LEMMA RecordScoringType ==
  ASSUME NEW J \in RunStates, NEW c \in Candidates, NEW decision \in Decisions
  PROVE  RecordScoring(J, c, decision) \in RunStates
<1> DEFINE n == Grow(J)
           x == [J.scoring EXCEPT ![c] = decision]
<1>1. n \in 0..2
  BY GrowType
<1>2. x \in [Candidates -> Decisions]
  BY DEF RunStates
<1>3. RecordScoring(J, c, decision) = [J EXCEPT !.sequence = n, !.scoring = x]
  BY DEF RecordScoring, RunStates
<1> HIDE DEF n, x
<1>4. [J EXCEPT !.sequence = n, !.scoring = x] \in RunStates
  BY Zenon, <1>1, <1>2 DEF RunStates
<1> QED
  BY <1>3, <1>4

(* What AcquireLicense changes, and what it leaves alone. *)
LEMMA AcquireLicenseFacts ==
  ASSUME NEW J \in RunStates, NEW h \in LeaseHolders,
         NEW K, K = AcquireLicense(J, h)
  PROVE  /\ K.sequence = Grow(J)
         /\ K.leases = J.leases \cup {h}
         /\ SameEvaluations(J, K)
         /\ K.tools = J.tools /\ K.dispatch = J.dispatch /\ K.provider = J.provider
         /\ SameProgress(J, K)
BY DEF RunStates, AcquireLicense, SameEvaluations, SameProgress

(* AcquireLicense keeps the type of the journal. *)
LEMMA AcquireLicenseType ==
  ASSUME NEW J \in RunStates, NEW h \in LeaseHolders
  PROVE  AcquireLicense(J, h) \in RunStates
<1> DEFINE n == Grow(J)
           x == J.decided \cup {h}
           y == J.leases \cup {h}
<1>1. n \in 0..2
  BY GrowType
<1>2. x \in SUBSET LeaseHolders /\ y \in SUBSET LeaseHolders
  BY DEF RunStates
<1>3. AcquireLicense(J, h) = [J EXCEPT !.sequence = n, !.decided = x, !.leases = y]
  BY DEF AcquireLicense, RunStates
<1> HIDE DEF n, x, y
<1>4. [J EXCEPT !.sequence = n, !.decided = x, !.leases = y] \in RunStates
  BY Zenon, <1>1, <1>2 DEF RunStates
<1> QED
  BY <1>3, <1>4

(* What DenyLicense changes, and what it leaves alone. *)
LEMMA DenyLicenseFacts ==
  ASSUME NEW J \in RunStates, NEW h \in LeaseHolders,
         NEW K, K = DenyLicense(J, h)
  PROVE  /\ K.sequence = Grow(J)
         /\ SameEvaluations(J, K)
         /\ SameCustody(J, K)
         /\ SameProgress(J, K)
BY DEF RunStates, DenyLicense, SameEvaluations, SameCustody, SameProgress

(* DenyLicense keeps the type of the journal. *)
LEMMA DenyLicenseType ==
  ASSUME NEW J \in RunStates, NEW h \in LeaseHolders
  PROVE  DenyLicense(J, h) \in RunStates
<1> DEFINE n == Grow(J)
           x == J.decided \cup {h}
<1>1. n \in 0..2
  BY GrowType
<1>2. x \in SUBSET LeaseHolders
  BY DEF RunStates
<1>3. DenyLicense(J, h) = [J EXCEPT !.sequence = n, !.decided = x]
  BY DEF DenyLicense, RunStates
<1> HIDE DEF n, x
<1>4. [J EXCEPT !.sequence = n, !.decided = x] \in RunStates
  BY Zenon, <1>1, <1>2 DEF RunStates
<1> QED
  BY <1>3, <1>4

(* What CloseLicense changes, and what it leaves alone. *)
LEMMA CloseLicenseFacts ==
  ASSUME NEW J \in RunStates, NEW h \in LeaseHolders,
         NEW K, K = CloseLicense(J, h)
  PROVE  /\ K.sequence = Grow(J)
         /\ K.leases = J.leases \ {h}
         /\ SameEvaluations(J, K)
         /\ K.tools = J.tools /\ K.dispatch = J.dispatch /\ K.provider = J.provider
         /\ SameProgress(J, K)
BY DEF RunStates, CloseLicense, SameEvaluations, SameProgress

(* CloseLicense keeps the type of the journal. *)
LEMMA CloseLicenseType ==
  ASSUME NEW J \in RunStates, NEW h \in LeaseHolders
  PROVE  CloseLicense(J, h) \in RunStates
<1> DEFINE n == Grow(J)
           x == J.leases \ {h}
<1>1. n \in 0..2
  BY GrowType
<1>2. x \in SUBSET LeaseHolders
  BY DEF RunStates
<1>3. CloseLicense(J, h) = [J EXCEPT !.sequence = n, !.leases = x]
  BY DEF CloseLicense, RunStates
<1> HIDE DEF n, x
<1>4. [J EXCEPT !.sequence = n, !.leases = x] \in RunStates
  BY Zenon, <1>1, <1>2 DEF RunStates
<1> QED
  BY <1>3, <1>4

(* What CommitCheckpoint changes, and what it leaves alone. *)
LEMMA CommitCheckpointFacts ==
  ASSUME NEW J \in RunStates, NEW k \in Checkpoints,
         NEW K, K = CommitCheckpoint(J, k)
  PROVE  /\ K.sequence = Grow(J)
         /\ SameEvaluations(J, K)
         /\ SameCustody(J, K)
         /\ SameProgress(J, K)
BY DEF RunStates, CommitCheckpoint, SameEvaluations, SameCustody, SameProgress

(* CommitCheckpoint keeps the type of the journal. *)
LEMMA CommitCheckpointType ==
  ASSUME NEW J \in RunStates, NEW k \in Checkpoints
  PROVE  CommitCheckpoint(J, k) \in RunStates
<1> DEFINE n == Grow(J)
           x == Append(J.checkpoints, k)
<1>1. n \in 0..2
  BY GrowType
<1>2. x \in Seq(Checkpoints)
  BY DEF RunStates
<1>3. CommitCheckpoint(J, k) = [J EXCEPT !.sequence = n, !.checkpoints = x]
  BY DEF CommitCheckpoint, RunStates
<1> HIDE DEF n, x
<1>4. [J EXCEPT !.sequence = n, !.checkpoints = x] \in RunStates
  BY Zenon, <1>1, <1>2 DEF RunStates
<1> QED
  BY <1>3, <1>4

(* What End changes, and what it leaves alone. *)
LEMMA EndFacts ==
  ASSUME NEW J \in RunStates, NEW reason \in Reasons, NEW c \in Candidates \cup {NoCandidate},
         NEW K, K = End(J, reason, c)
  PROVE  /\ K.sequence = Grow(J)
         /\ K.ended = reason
         /\ K.winner = IF reason = "verifier_success" THEN c ELSE NoCandidate
         /\ SameEvaluations(J, K)
         /\ SameCustody(J, K)
         /\ K.lifecycle = J.lifecycle /\ K.generation = J.generation
BY DEF RunStates, End, SameEvaluations, SameCustody

(* End keeps the type of the journal. *)
LEMMA EndType ==
  ASSUME NEW J \in RunStates, NEW reason \in Reasons, NEW c \in Candidates \cup {NoCandidate}
  PROVE  End(J, reason, c) \in RunStates
<1> DEFINE n == Grow(J)
           x == reason
           y == IF reason = "verifier_success" THEN c ELSE NoCandidate
<1>1. n \in 0..2
  BY GrowType
<1>2. x \in Reasons \cup {"none"} /\ y \in Candidates \cup {NoCandidate}
  BY DEF RunStates
<1>3. End(J, reason, c) = [J EXCEPT !.sequence = n, !.ended = x, !.winner = y]
  BY DEF End, RunStates
<1> HIDE DEF n, x, y
<1>4. [J EXCEPT !.sequence = n, !.ended = x, !.winner = y] \in RunStates
  BY Zenon, <1>1, <1>2 DEF RunStates
<1> QED
  BY <1>3, <1>4

(* An empty journal is well formed. *)
LEMMA TypeInit == Init => TypeOK
BY RunAssumption DEF Init, TypeOK, RunStates, EmptyJournal, NoResults, Snapshots, NoResult,
   Decisions, JobStates

(* Every admitted event leaves a well-formed journal. *)
LEMMA TypeNext == TypeOK /\ [Next]_journal => TypeOK'
<1> SUFFICES ASSUME journal \in RunStates, [Next]_journal
             PROVE  journal' \in RunStates
  BY DEF TypeOK
<1>1. CASE Start
  BY <1>1, StartRunType, StartIncarnationType DEF Start
<1>2. CASE TerminateIncarnation
  BY <1>2, TerminateType DEF TerminateIncarnation
<1>3. CASE RestoreIncarnation
  BY <1>3, RestoreType DEF RestoreIncarnation
<1>4. CASE ControlTransferred
  BY <1>4, TransferType DEF ControlTransferred
<1>5. CASE CandidateSubmitted
  BY <1>5, SubmitType DEF CandidateSubmitted
<1>6. CASE CheckpointCommitted
  BY <1>6, CommitCheckpointType DEF CheckpointCommitted
<1>7. CASE LicenseDenied
  BY <1>7, DenyLicenseType DEF LicenseDenied
<1>8. CASE ProviderRequestStarted
  BY <1>8, StartProviderRequestType DEF ProviderRequestStarted
<1>9. CASE ProviderResponseRecorded
  BY <1>9, RecordResponseType DEF ProviderResponseRecorded
<1>10. CASE ToolRequested
  BY <1>10, RequestToolType DEF ToolRequested
<1>11. CASE ToolResolved
  BY <1>11, ResolveToolType DEF ToolResolved
<1>12. CASE ToolReserved
  BY <1>12, ReserveToolType DEF ToolReserved
<1>13. CASE ToolClosed
  BY <1>13, CloseToolType DEF ToolClosed
<1>14. CASE LicenseAcquired
  BY <1>14, AcquireLicenseType DEF LicenseAcquired
<1>15. CASE LicenseClosed
  BY <1>15, CloseLicenseType DEF LicenseClosed
<1>16. CASE JobStateChanged
  BY <1>16, ChangeJobType DEF JobStateChanged
<1>17. CASE EvaluationStarted
  BY <1>17, StartEvaluationType DEF EvaluationStarted
<1>18. CASE EvaluationCompleted
  BY <1>18, CompleteEvaluationType DEF EvaluationCompleted
<1>19. CASE ScoringRecorded
  BY <1>19, RecordScoringType DEF ScoringRecorded
<1>20. CASE RunEnded
  BY <1>20, EndType DEF RunEnded
<1>21. CASE UNCHANGED journal
  BY <1>21
<1> QED
  BY <1>1, <1>2, <1>3, <1>4, <1>5, <1>6, <1>7, <1>8, <1>9, <1>10, <1>11, <1>12, <1>13,
     <1>14, <1>15, <1>16, <1>17, <1>18, <1>19, <1>20, <1>21 DEF Next

(* Every journal replay accepts is well typed.                             *)
THEOREM TypeCorrect == Spec => []TypeOK
BY TypeInit, TypeNext, PTL DEF Spec

EvaluationInv ==
  ResultsAreValid /\ OpenMeansUnfinished /\ ScoringStaysCurrent /\ SuccessIsEarned

(* Before run_started nothing has stopped.                                 *)
Unstarted == journal.sequence = 0 => journal.ended = "none" /\ journal.lifecycle # "terminated"

(* Only requests for the executor tool are dispatched.                     *)
OnlyExecutorsDispatch ==
  \A q \in Requests : journal.dispatch[q] # "none" => q \in ExecutorRequests

CustodyInv == CustodyFollowsDispatch /\ OnlyExecutorsDispatch

(* The inductive invariant of the journal.                                 *)
LawInv == TypeOK /\ Unstarted /\ EvaluationInv /\ CustodyInv /\ StoppedIsQuiescent

(* An event that leaves the evaluation facts and the outcome alone keeps   *)
(* what is known of them.                                                  *)
LEMMA EvaluationFrame ==
  ASSUME EvaluationInv, SameEvaluations(journal, journal'),
         journal'.ended = journal.ended, journal'.winner = journal.winner
  PROVE  EvaluationInv'
BY DEF EvaluationInv, SameEvaluations, ResultsAreValid, OpenMeansUnfinished,
       ScoringStaysCurrent, SuccessIsEarned

(* An event that touches no tool request keeps custody. *)
LEMMA CustodyFrame ==
  ASSUME CustodyInv, SameCustody(journal, journal')
  PROVE  CustodyInv'
BY DEF CustodyInv, CustodyFollowsDispatch, OnlyExecutorsDispatch, SameCustody

(* An event that opens nothing keeps an ended run quiescent. *)
LEMMA QuiescentFrame ==
  ASSUME Quiescent(journal), SameCustody(journal, journal'), journal'.open = journal.open
  PROVE  Quiescent(journal')
BY DEF Quiescent, SameCustody, NoOpenEvaluation, NoOpenLease, NoOpenProviderRequest,
       NoOpenTool, NoOpenDispatch

(* An event that is followed by a running journal.                         *)
LEMMA StillRunning ==
  ASSUME journal \in RunStates, journal'.sequence # 0,
         journal'.ended = "none", journal'.lifecycle # "terminated"
  PROVE  Unstarted' /\ StoppedIsQuiescent'
BY DEF Unstarted, StoppedIsQuiescent
(* What every guard but those of Start and RestoreIncarnation implies.     *)
LEMMA GuardsExtend ==
  ASSUME Next, ~Start, ~RestoreIncarnation
  PROVE  Extendable(journal)
BY Zenon DEF Next, TerminateIncarnation, CanTerminate, ProviderRequestStarted,
   CanStartProviderRequest, ProviderResponseRecorded, CanRecordResponse, ToolRequested,
   CanRequestTool, ToolResolved, CanResolveTool, ToolReserved, CanReserveTool, ToolClosed,
   CanCloseTool, ControlTransferred, CanTransfer, CandidateSubmitted, CanSubmit,
   EvaluationStarted, CanStartEvaluation, JobStateChanged, CanChangeJob,
   EvaluationCompleted, CanCompleteEvaluation, ScoringRecorded, CanRecordScoring,
   LicenseAcquired, LicenseDenied, CanDecideLicense, LicenseClosed, CanCloseLicense,
   CheckpointCommitted, CanCommitCheckpoint, RunEnded, CanEnd

(* Events that touch neither evaluations nor custody.                      *)
LEMMA ParticipantEvents ==
  ASSUME LawInv,
         \/ Start \/ RestoreIncarnation \/ ControlTransferred \/ CandidateSubmitted
         \/ CheckpointCommitted \/ LicenseDenied
  PROVE  Unstarted' /\ EvaluationInv' /\ CustodyInv' /\ StoppedIsQuiescent'
<1>0. /\ journal \in RunStates /\ Grow(journal) # 0
      /\ Unstarted /\ EvaluationInv /\ CustodyInv
  BY GrowType DEF LawInv, TypeOK
<1> SUFFICES /\ SameEvaluations(journal, journal') /\ SameCustody(journal, journal')
             /\ journal'.winner = journal.winner /\ journal'.sequence # 0
             /\ journal.ended = "none" /\ journal'.ended = "none"
             /\ journal'.lifecycle # "terminated"
  BY <1>0, EvaluationFrame, CustodyFrame, StillRunning
<1>1. CASE Start
  <2>1. CASE journal' = StartRun(journal)
    BY <1>0, <1>1, <2>1, StartRunFacts DEF Start, CanStartRun, Unstarted, SameProgress
  <2>2. ASSUME NEW p \in Processes, journal' = StartIncarnation(StartRun(journal), p)
        PROVE  /\ SameEvaluations(journal, journal') /\ SameCustody(journal, journal')
               /\ journal'.winner = journal.winner /\ journal'.sequence # 0
               /\ journal.ended = "none" /\ journal'.ended = "none"
               /\ journal'.lifecycle # "terminated"
    <3> DEFINE K == StartRun(journal)
    <3>1. /\ K \in RunStates /\ SameEvaluations(journal, K)
          /\ SameCustody(journal, K) /\ SameProgress(journal, K)
      BY <1>0, StartRunFacts, StartRunType
    <3> HIDE DEF K
    <3>2. /\ SameEvaluations(K, journal') /\ SameCustody(K, journal')
          /\ journal'.sequence = 2 /\ journal'.lifecycle = "active"
          /\ journal'.ended = K.ended /\ journal'.winner = K.winner
      BY <2>2, <3>1, StartIncarnationFacts DEF K
    <3>3. journal.ended = "none"
      BY <1>0, <1>1 DEF Start, CanStartRun, Unstarted
    <3> QED
      BY <3>1, <3>2, <3>3 DEF SameEvaluations, SameCustody, SameProgress
  <2> QED
    BY <1>1, <2>1, <2>2 DEF Start
<1>2. CASE RestoreIncarnation
  BY <1>0, <1>2, RestoreFacts DEF RestoreIncarnation, CanRestore
<1>3. CASE ControlTransferred
  BY <1>0, <1>3, TransferFacts DEF ControlTransferred, CanTransfer, Extendable, SameProgress
<1>4. CASE CandidateSubmitted
  BY <1>0, <1>4, SubmitFacts DEF CandidateSubmitted, CanSubmit, Extendable, SameProgress
<1>5. CASE CheckpointCommitted
  BY <1>0, <1>5, CommitCheckpointFacts
     DEF CheckpointCommitted, CanCommitCheckpoint, Extendable, SameProgress
<1>6. CASE LicenseDenied
  BY <1>0, <1>6, DenyLicenseFacts
     DEF LicenseDenied, CanDecideLicense, Extendable, SameProgress
<1> QED
  BY <1>1, <1>2, <1>3, <1>4, <1>5, <1>6

(* Events that take or give back custody of participant work.              *)
LEMMA CustodyEvents ==
  ASSUME LawInv,
         \/ ProviderRequestStarted \/ ProviderResponseRecorded
         \/ ToolRequested \/ ToolResolved \/ ToolReserved \/ ToolClosed
         \/ LicenseAcquired \/ LicenseClosed
  PROVE  Unstarted' /\ EvaluationInv' /\ CustodyInv' /\ StoppedIsQuiescent'
<1>0. /\ journal \in RunStates /\ Grow(journal) # 0
      /\ Unstarted /\ EvaluationInv /\ CustodyInv
  BY GrowType DEF LawInv, TypeOK
<1> SUFFICES /\ SameEvaluations(journal, journal') /\ SameProgress(journal, journal')
             /\ CustodyInv' /\ journal'.sequence # 0
             /\ journal.ended = "none" /\ journal.lifecycle # "terminated"
  BY <1>0, EvaluationFrame, StillRunning DEF SameProgress
<1>1. CASE ProviderRequestStarted
  <2>1. PICK r \in ProviderRequests :
          CanStartProviderRequest(journal, r) /\ journal' = StartProviderRequest(journal, r)
    BY <1>1 DEF ProviderRequestStarted
  <2>2. /\ journal'.tools = journal.tools /\ journal'.leases = journal.leases
        /\ journal'.dispatch = journal.dispatch /\ journal'.sequence # 0
        /\ SameEvaluations(journal, journal') /\ SameProgress(journal, journal')
    BY ZenonT(30), <1>0, <2>1, StartProviderRequestFacts
  <2>3. journal.ended = "none" /\ journal.lifecycle # "terminated"
    BY <2>1 DEF CanStartProviderRequest, Extendable
  <2>4. CustodyInv'
    BY <1>0, <2>2 DEF CustodyInv, CustodyFollowsDispatch, OnlyExecutorsDispatch
  <2> QED
    BY <2>2, <2>3, <2>4
<1>2. CASE ProviderResponseRecorded
  <2>1. PICK r \in ProviderRequests :
          CanRecordResponse(journal, r) /\ journal' = RecordResponse(journal, r)
    BY <1>2 DEF ProviderResponseRecorded
  <2>2. /\ journal'.tools = journal.tools /\ journal'.leases = journal.leases
        /\ journal'.dispatch = journal.dispatch /\ journal'.sequence # 0
        /\ SameEvaluations(journal, journal') /\ SameProgress(journal, journal')
    BY ZenonT(30), <1>0, <2>1, RecordResponseFacts
  <2>3. journal.ended = "none" /\ journal.lifecycle # "terminated"
    BY <2>1 DEF CanRecordResponse, Extendable
  <2>4. CustodyInv'
    BY <1>0, <2>2 DEF CustodyInv, CustodyFollowsDispatch, OnlyExecutorsDispatch
  <2> QED
    BY <2>2, <2>3, <2>4
<1>3. CASE ToolRequested
  <2>1. PICK q \in Requests : CanRequestTool(journal, q) /\ journal' = RequestTool(journal, q)
    BY <1>3 DEF ToolRequested
  <2>2. /\ journal'.tools = [journal.tools EXCEPT ![q] = "open"]
        /\ journal'.dispatch = journal.dispatch /\ journal'.leases = journal.leases
    BY <1>0, <2>1, RequestToolFacts
  <2>3. CustodyInv'
    BY <1>0, <2>2 DEF CustodyInv, CustodyFollowsDispatch, OnlyExecutorsDispatch, RunStates
  <2> QED
    BY Zenon, <1>0, <2>1, <2>3, RequestToolFacts DEF CanRequestTool, Extendable
<1>4. CASE ToolResolved
  <2>1. PICK q \in Requests : CanResolveTool(journal, q) /\ journal' = ResolveTool(journal, q)
    BY <1>4 DEF ToolResolved
  <2>2. /\ journal'.tools = [journal.tools EXCEPT ![q] = "resolved"]
        /\ journal'.dispatch = journal.dispatch /\ journal'.leases = journal.leases
    BY <1>0, <2>1, ResolveToolFacts
  <2>3. journal.dispatch[q] # "reserved"
    BY <1>0, <2>1 DEF CanResolveTool, CustodyInv, OnlyExecutorsDispatch
  <2>4. CustodyInv'
    BY <1>0, <2>2, <2>3 DEF CustodyInv, CustodyFollowsDispatch, OnlyExecutorsDispatch, RunStates
  <2> QED
    BY Zenon, <1>0, <2>1, <2>4, ResolveToolFacts DEF CanResolveTool, Extendable
<1>5. CASE ToolReserved
  <2>1. PICK q \in Requests : CanReserveTool(journal, q) /\ journal' = ReserveTool(journal, q)
    BY <1>5 DEF ToolReserved
  <2>2. /\ journal'.dispatch = [journal.dispatch EXCEPT ![q] = "reserved"]
        /\ journal'.tools = journal.tools /\ journal'.leases = journal.leases
        /\ journal.tools[q] = "open" /\ q \in ExecutorRequests
    BY <1>0, <2>1, ReserveToolFacts DEF CanReserveTool
  <2>3. CustodyInv'
    BY <1>0, <2>2 DEF CustodyInv, CustodyFollowsDispatch, OnlyExecutorsDispatch, RunStates
  <2> QED
    BY Zenon, <1>0, <2>1, <2>3, ReserveToolFacts DEF CanReserveTool, Extendable
<1>6. CASE ToolClosed
  <2>1. PICK q \in Requests, how \in {"settled", "lost"} :
          CanCloseTool(journal, q) /\ journal' = CloseTool(journal, q, how)
    BY <1>6 DEF ToolClosed
  <2>2. /\ journal'.dispatch = [journal.dispatch EXCEPT ![q] = how]
        /\ journal'.tools = journal.tools /\ journal'.leases = journal.leases
        /\ SameEvaluations(journal, journal') /\ SameProgress(journal, journal')
        /\ journal'.sequence # 0
    <3>0. journal' = CloseTool(journal, q, how)
      BY <2>1
    <3>1. SameEvaluations(journal, journal') /\ SameProgress(journal, journal')
      BY <1>0, <3>0 DEF CloseTool, RunStates, SameEvaluations, SameProgress
    <3>2. journal'.tools = journal.tools /\ journal'.leases = journal.leases
      BY <1>0, <3>0 DEF CloseTool, RunStates
    <3>3. journal'.dispatch = [journal.dispatch EXCEPT ![q] = how]
      BY <1>0, <3>0 DEF CloseTool, RunStates
    <3>4. journal'.sequence # 0
      BY <1>0, <3>0 DEF CloseTool, RunStates
    <3> QED
      BY <3>1, <3>2, <3>3, <3>4
  <2>3. /\ q \notin journal.leases /\ journal.dispatch[q] = "reserved"
        /\ journal.ended = "none" /\ journal.lifecycle # "terminated"
    BY <2>1 DEF CanCloseTool, Extendable
  <2>4. /\ journal.dispatch \in [Requests -> {"none", "reserved", "settled", "lost"}]
        /\ how # "reserved"
    BY <1>0 DEF RunStates
  <2>5. CustodyInv'
    <3> SUFFICES ASSUME NEW r \in Requests
                 PROVE  /\ r \in journal'.leases => journal'.dispatch[r] = "reserved"
                        /\ journal'.dispatch[r] = "reserved" => journal'.tools[r] = "open"
                        /\ journal'.dispatch[r] # "none" => r \in ExecutorRequests
      BY DEF CustodyInv, CustodyFollowsDispatch, OnlyExecutorsDispatch
    <3>1. CASE r = q
      BY <1>0, <2>2, <2>3, <2>4, <3>1 DEF CustodyInv, OnlyExecutorsDispatch
    <3>2. CASE r # q
      BY <1>0, <2>2, <2>4, <3>2 DEF CustodyInv, CustodyFollowsDispatch, OnlyExecutorsDispatch
    <3> QED
      BY <3>1, <3>2
  <2> QED
    BY <2>2, <2>3, <2>5
<1>7. CASE LicenseAcquired
  <2>1. PICK h \in LeaseHolders :
          CanDecideLicense(journal, h) /\ journal' = AcquireLicense(journal, h)
    BY <1>7 DEF LicenseAcquired
  <2>2. /\ journal'.leases = journal.leases \cup {h}
        /\ journal'.tools = journal.tools /\ journal'.dispatch = journal.dispatch
    BY <1>0, <2>1, AcquireLicenseFacts
  <2>3. h \in Requests => journal.dispatch[h] = "reserved"
    BY <2>1, RunAssumption DEF CanDecideLicense, Jobs
  <2>4. CustodyInv'
    BY <1>0, <2>2, <2>3 DEF CustodyInv, CustodyFollowsDispatch, OnlyExecutorsDispatch
  <2> QED
    BY <1>0, <2>1, <2>4, AcquireLicenseFacts DEF CanDecideLicense, Extendable
<1>8. CASE LicenseClosed
  <2>1. PICK h \in LeaseHolders :
          CanCloseLicense(journal, h) /\ journal' = CloseLicense(journal, h)
    BY <1>8 DEF LicenseClosed
  <2>2. /\ journal'.leases = journal.leases \ {h}
        /\ journal'.tools = journal.tools /\ journal'.dispatch = journal.dispatch
    BY <1>0, <2>1, CloseLicenseFacts
  <2>3. CustodyInv'
    BY <1>0, <2>2 DEF CustodyInv, CustodyFollowsDispatch, OnlyExecutorsDispatch
  <2> QED
    BY <1>0, <2>1, <2>3, CloseLicenseFacts DEF CanCloseLicense, Extendable
<1> QED
  BY <1>1, <1>2, <1>3, <1>4, <1>5, <1>6, <1>7, <1>8

(* Events about evaluations.                                               *)
LEMMA EvaluationEvents ==
  ASSUME LawInv,
         JobStateChanged \/ EvaluationStarted \/ EvaluationCompleted \/ ScoringRecorded
  PROVE  Unstarted' /\ EvaluationInv' /\ CustodyInv' /\ StoppedIsQuiescent'
<1>0. /\ journal \in RunStates /\ Grow(journal) # 0 /\ Unstarted /\ CustodyInv
      /\ ResultsAreValid /\ OpenMeansUnfinished /\ ScoringStaysCurrent /\ SuccessIsEarned
  BY GrowType DEF LawInv, TypeOK, EvaluationInv
<1> SUFFICES /\ EvaluationInv' /\ SameCustody(journal, journal')
             /\ SameProgress(journal, journal') /\ journal'.sequence # 0
             /\ journal.ended = "none" /\ journal.lifecycle # "terminated"
  BY <1>0, CustodyFrame, StillRunning DEF SameProgress
<1>1. CASE JobStateChanged
  <2>1. PICK j \in Jobs, state \in JobStates :
          CanChangeJob(journal, j, state) /\ journal' = ChangeJob(journal, j, state)
    BY <1>1 DEF JobStateChanged
  <2>2. /\ journal'.jobs = [journal.jobs EXCEPT ![j] = state] /\ journal'.sequence # 0
        /\ journal'.results = journal.results /\ journal'.open = journal.open
        /\ journal'.scoring = journal.scoring /\ SameProgress(journal, journal')
        /\ SameCustody(journal, journal')
    BY <1>0, <2>1, ChangeJobFacts
  <2>3. /\ journal.jobs[j] # "absent" /\ state # "absent"
        /\ journal.ended = "none" /\ journal.lifecycle # "terminated"
    BY <2>1 DEF CanChangeJob, Extendable, JobTransitions
  <2>4. OpenMeansUnfinished'
    <3>1. journal.jobs \in [Jobs -> JobStates]
      BY <1>0 DEF RunStates
    <3> SUFFICES ASSUME NEW d \in Candidates, NEW t \in Stages
                 PROVE  journal'.jobs[<<d, t>>] # "absent" <=>
                          journal.jobs[<<d, t>>] # "absent"
      BY Zenon, <1>0, <2>2 DEF OpenMeansUnfinished
    <3> DEFINE i == <<d, t>>
    <3>2. i \in Jobs
      BY DEF Jobs
    <3> HIDE DEF i
    <3>3. journal'.jobs[i] # "absent" <=> journal.jobs[i] # "absent"
      BY <2>2, <2>3, <3>1, <3>2
    <3> QED
      BY <3>3 DEF i
  <2>5. EvaluationInv'
    BY <1>0, <2>2, <2>4 DEF EvaluationInv, ResultsAreValid, ScoringStaysCurrent,
                            SuccessIsEarned, SameProgress
  <2> QED
    BY <2>2, <2>3, <2>5
<1>2. CASE EvaluationStarted
  <2>1. PICK c \in Candidates, s \in Stages :
          CanStartEvaluation(journal, c, s) /\ journal' = StartEvaluation(journal, c, s)
    BY <1>2 DEF EvaluationStarted
  <2>2. /\ journal'.jobs = [journal.jobs EXCEPT ![<<c, s>>] = "queued"]
        /\ journal'.open = journal.open \cup {<<c, s>>}
        /\ journal'.results = journal.results /\ journal'.scoring = journal.scoring
        /\ SameProgress(journal, journal') /\ SameCustody(journal, journal')
        /\ journal'.sequence # 0
    BY <1>0, <2>1, StartEvaluationFacts
  <2>3. /\ journal.results[c][s] = NoResult /\ journal.scoring[c] = "none"
        /\ journal.ended = "none" /\ journal.lifecycle # "terminated"
    BY <2>1 DEF CanStartEvaluation, Extendable, StageEligibility, IsTerminal
  <2>4. OpenMeansUnfinished'
    <3> SUFFICES ASSUME NEW d \in Candidates, NEW t \in Stages
                 PROVE  <<d, t>> \in journal'.open <=>
                          journal'.jobs[<<d, t>>] # "absent"
                            /\ journal'.results[d][t] = NoResult
      BY Zenon DEF OpenMeansUnfinished
    <3>1. journal.jobs \in [Jobs -> JobStates] /\ <<c, s>> \in Jobs /\ <<d, t>> \in Jobs
      BY <1>0 DEF RunStates, Jobs
    <3> QED
      BY <1>0, <2>2, <2>3, <3>1 DEF OpenMeansUnfinished
  <2>5. ScoringStaysCurrent'
    BY <1>0, <2>2, <2>3 DEF ScoringStaysCurrent
  <2>6. EvaluationInv'
    BY <1>0, <2>2, <2>4, <2>5 DEF EvaluationInv, ResultsAreValid, SuccessIsEarned, SameProgress
  <2> QED
    BY <2>2, <2>3, <2>6
<1>3. CASE EvaluationCompleted
  <2>1. PICK c \in Candidates, s \in Stages, outcome \in Outcomes :
          /\ CanCompleteEvaluation(journal, c, s, outcome)
          /\ journal' = CompleteEvaluation(journal, c, s, outcome)
    BY <1>3 DEF EvaluationCompleted
  <2> DEFINE new == [journal.results[c] EXCEPT ![s] = outcome]
  <2>2. /\ journal'.results = [journal.results EXCEPT ![c] = new]
        /\ journal'.open = journal.open \ {<<c, s>>}
        /\ journal'.jobs = journal.jobs /\ journal'.scoring = journal.scoring
        /\ SameProgress(journal, journal') /\ SameCustody(journal, journal')
        /\ journal'.sequence # 0
    BY <1>0, <2>1, CompleteEvaluationFacts
  <2>3. /\ <<c, s>> \in journal.open /\ ValidResults(Task, new) /\ outcome # NoResult
        /\ journal.ended = "none" /\ journal.lifecycle # "terminated"
    BY <2>1 DEF CanCompleteEvaluation, Extendable, Outcomes, PromotingOutcomes, NoResult
  <2>4. journal.results \in [Candidates -> Snapshots]
    BY <1>0 DEF RunStates
  <2>5. ResultsAreValid'
    BY <1>0, <2>2, <2>3, <2>4 DEF ResultsAreValid
  <2>6. OpenMeansUnfinished'
    <3> SUFFICES ASSUME NEW d \in Candidates, NEW t \in Stages
                 PROVE  <<d, t>> \in journal'.open <=>
                          journal.jobs[<<d, t>>] # "absent"
                            /\ journal'.results[d][t] = NoResult
      BY Zenon, <2>2 DEF OpenMeansUnfinished
    <3>1. CASE d = c /\ t = s
      BY <2>2, <2>3, <2>4, <3>1 DEF Snapshots
    <3>2. CASE ~(d = c /\ t = s)
      <4>1. journal'.results[d][t] = journal.results[d][t]
        BY <2>2, <2>4, <3>2 DEF Snapshots
      <4>2. <<d, t>> # <<c, s>>
        BY <3>2
      <4> QED
        BY <1>0, <2>2, <4>1, <4>2 DEF OpenMeansUnfinished
    <3> QED
      BY <3>1, <3>2
  <2>7. ScoringStaysCurrent'
    BY <1>0, <2>2, <2>3, <2>4 DEF ScoringStaysCurrent
  <2>8. EvaluationInv'
    BY <2>2, <2>3, <2>5, <2>6, <2>7 DEF EvaluationInv, SuccessIsEarned, SameProgress
  <2> QED
    BY <2>2, <2>3, <2>8
<1>4. CASE ScoringRecorded
  <2>1. PICK c \in Candidates, decision \in Decisions :
          /\ CanRecordScoring(journal, c, decision)
          /\ journal' = RecordScoring(journal, c, decision)
    BY <1>4 DEF ScoringRecorded
  <2>2. /\ journal'.scoring = [journal.scoring EXCEPT ![c] = decision]
        /\ journal'.results = journal.results /\ journal'.jobs = journal.jobs
        /\ journal'.open = journal.open /\ SameProgress(journal, journal')
        /\ SameCustody(journal, journal') /\ journal'.sequence # 0
    BY <1>0, <2>1, RecordScoringFacts
  <2>0. journal.scoring \in [Candidates -> Decisions]
    BY <1>0 DEF RunStates
  <2>3. /\ decision = ScorerEligibility(Task, journal.results[c])
        /\ \A s \in Stages : <<c, s>> \notin journal.open
        /\ journal.ended = "none" /\ journal.lifecycle # "terminated"
    BY <2>1 DEF CanRecordScoring, Extendable
  <2>4. ScoringStaysCurrent'
    BY <1>0, <2>0, <2>2, <2>3 DEF ScoringStaysCurrent
  <2>5. EvaluationInv'
    BY <1>0, <2>2, <2>3, <2>4 DEF EvaluationInv, ResultsAreValid, OpenMeansUnfinished,
                                  SuccessIsEarned, SameProgress
  <2> QED
    BY <2>2, <2>3, <2>5
<1> QED
  BY <1>1, <1>2, <1>3, <1>4

(* The two events that stop: the end of an incarnation and of the run.     *)
LEMMA StoppingEvents ==
  ASSUME LawInv, TerminateIncarnation \/ RunEnded
  PROVE  Unstarted' /\ EvaluationInv' /\ CustodyInv' /\ StoppedIsQuiescent'
<1>0. /\ journal \in RunStates /\ Grow(journal) # 0 /\ CustodyInv /\ EvaluationInv
  BY GrowType DEF LawInv, TypeOK
<1>1. CASE TerminateIncarnation
  <2>1. /\ SameEvaluations(journal, journal') /\ SameCustody(journal, journal')
        /\ journal'.sequence # 0 /\ journal'.ended = journal.ended
        /\ journal'.winner = journal.winner /\ Quiescent(journal)
    BY <1>0, <1>1, TerminateFacts DEF TerminateIncarnation, CanTerminate
  <2>2. Quiescent(journal')
    BY <2>1, QuiescentFrame DEF SameEvaluations
  <2> QED
    BY <1>0, <2>1, <2>2, EvaluationFrame, CustodyFrame DEF Unstarted, StoppedIsQuiescent
<1>2. CASE RunEnded
  <2>1. PICK reason \in Reasons, c \in Candidates \cup {NoCandidate} :
          CanEnd(journal, reason, c) /\ journal' = End(journal, reason, c)
    BY <1>2 DEF RunEnded
  <2>2. /\ SameEvaluations(journal, journal') /\ SameCustody(journal, journal')
        /\ journal'.sequence # 0 /\ journal'.ended = reason
        /\ journal'.winner = (IF reason = "verifier_success" THEN c ELSE NoCandidate)
    BY <1>0, <2>1, EndFacts
  <2>3. Quiescent(journal')
    BY <2>1, <2>2, QuiescentFrame DEF SameEvaluations, CanEnd
  <2>4. SuccessIsEarned'
    <3> SUFFICES ASSUME reason = "verifier_success",
                        NEW s \in Task.hard_gates \cup Task.producers,
                        NEW a \in Ancestors(Task, s) \cup {s}
                 PROVE  Promotes(journal.results[c][a])
      BY <2>2 DEF SuccessIsEarned, SameEvaluations
    <3>1. /\ c \in CandidateSet(journal)
          /\ HardGateStatus(Task, journal.results[c]) = "succeeded"
          /\ journal.scoring[c] \in {"ready", "not_configured"}
      BY <2>1 DEF CanEnd
    <3>2. c \in Candidates
      BY <1>0, <3>1 DEF CandidateSet, RunStates
    <3>3. /\ Task \in Tasks /\ s \in Stages
          /\ journal.results[c] \in Snapshots
      BY <1>0, <3>2, RunAssumption, TaskTypes DEF RunStates
    <3>4. /\ ScorerEligibility(Task, journal.results[c]) \in {"ready", "not_configured"}
          /\ ValidResults(Task, journal.results[c])
      BY <1>0, <3>1, <3>2 DEF EvaluationInv, ScoringStaysCurrent, ResultsAreValid
    <3>5. IsTerminal(journal.results[c], s) /\ Promotes(journal.results[c][s])
      BY <3>1, <3>3, <3>4, SucceededGatesPromote, ScoredProducersPromote
    <3> QED
      BY <3>3, <3>4, <3>5, TerminalAbovePromoting
  <2>5. EvaluationInv'
    BY <1>0, <2>2, <2>4 DEF EvaluationInv, SameEvaluations, ResultsAreValid,
                            OpenMeansUnfinished, ScoringStaysCurrent
  <2> QED
    BY <1>0, <2>2, <2>3, <2>5, CustodyFrame DEF Unstarted, StoppedIsQuiescent
<1> QED
  BY <1>1, <1>2

(* An empty journal satisfies the invariant. *)
LEMMA LawInvInit == Init => LawInv
<1> SUFFICES ASSUME Init
             PROVE  LawInv
  OBVIOUS
<1>1. TypeOK
  BY TypeInit
<1>2. EvaluationInv
  BY DEF Init, EmptyJournal, EvaluationInv, ResultsAreValid, ValidResults, IsTerminal,
         NoResults, OpenMeansUnfinished, ScoringStaysCurrent, SuccessIsEarned, Jobs
<1> QED
  BY <1>1, <1>2 DEF Init, EmptyJournal, LawInv, Unstarted, CustodyInv,
     CustodyFollowsDispatch, OnlyExecutorsDispatch, StoppedIsQuiescent

(* Every admitted event keeps the invariant. *)
LEMMA LawInvNext == LawInv /\ [Next]_journal => LawInv'
<1> SUFFICES ASSUME LawInv, [Next]_journal
             PROVE  LawInv'
  OBVIOUS
<1>1. TypeOK'
  BY TypeNext DEF LawInv
<1>2. CASE Next
  BY <1>1, <1>2, ParticipantEvents, CustodyEvents, EvaluationEvents, StoppingEvents
     DEF Next, LawInv
<1>3. CASE UNCHANGED journal
  BY <1>1, <1>3 DEF LawInv, Unstarted, EvaluationInv, ResultsAreValid, OpenMeansUnfinished,
     ScoringStaysCurrent, SuccessIsEarned, CustodyInv, CustodyFollowsDispatch,
     OnlyExecutorsDispatch, StoppedIsQuiescent
<1> QED
  BY <1>2, <1>3

(* An open evaluation belongs to a journal that can be extended, and the   *)
(* dependencies of its stage have promoted.                                *)
OpenIsSupported ==
  \A c \in Candidates, s \in Stages : <<c, s>> \in journal.open =>
    /\ Extendable(journal)
    /\ \A d \in Task.depends_on[s] : Promotes(journal.results[c][d])

(* The dependencies of a stage that is ready have promoted. *)
LEMMA ReadyAbovePromoting ==
  ASSUME NEW t \in Tasks, NEW r \in Snapshots, NEW s \in Stages,
         StageEligibility(t, r, s) = "ready", NEW d \in t.depends_on[s]
  PROVE  Promotes(r[d])
<1>1. Blockers(t, r, s) = {} /\ WaitingOn(t, r, s) = {}
  BY DEF StageEligibility
<1>2. d \in Ancestors(t, s)
  BY AncestorsClosed
<1>3. IsTerminal(r, d)
  BY <1>1 DEF WaitingOn
<1>4. ~FailedToPromote(r, d)
  BY <1>1, <1>2 DEF Blockers
<1> QED
  BY <1>3, <1>4 DEF FailedToPromote

(* An event that neither stops nor starts anything leaves the journal open *)
(* to the next one.                                                        *)
LEMMA StillExtendable ==
  ASSUME journal' \in RunStates, Extendable(journal),
         SameProgress(journal, journal'), journal'.sequence # 0
  PROVE  Extendable(journal')
<1>1. journal'.sequence > 0
  BY DEF RunStates
<1> QED
  BY <1>1 DEF Extendable, SameProgress

(* An event that only moves jobs, or nothing of the evaluations, keeps the *)
(* support of what is open.                                                *)
LEMMA SupportFrame ==
  ASSUME journal' \in RunStates, Extendable(journal), OpenIsSupported,
         journal'.open = journal.open, journal'.results = journal.results,
         SameProgress(journal, journal'), journal'.sequence # 0
  PROVE  OpenIsSupported'
<1>1. Extendable(journal')
  BY StillExtendable
<1> QED
  BY <1>1 DEF OpenIsSupported

(* No event undermines an open evaluation. *)
LEMMA SupportNext ==
  ASSUME LawInv, OpenIsSupported, Next
  PROVE  OpenIsSupported'
<1>0. journal \in RunStates /\ Grow(journal) # 0
  BY GrowType DEF LawInv, TypeOK
<1>t. journal' \in RunStates
  BY TypeNext DEF LawInv, TypeOK
<1>1. CASE Start
  <2>1. journal'.open = journal.open
    <3>1. CASE journal' = StartRun(journal)
      BY <1>0, <3>1, StartRunFacts DEF SameEvaluations
    <3>2. ASSUME NEW p \in Processes, journal' = StartIncarnation(StartRun(journal), p)
          PROVE  journal'.open = journal.open
      BY <1>0, <3>2, StartRunFacts, StartRunType, StartIncarnationFacts DEF SameEvaluations
    <3> QED
      BY <1>1, <3>1, <3>2 DEF Start
  <2>2. ~Extendable(journal)
    BY <1>0, <1>1 DEF Start, CanStartRun, Extendable
  <2> QED
    BY <2>1, <2>2 DEF OpenIsSupported
<1>2. CASE RestoreIncarnation
  <2>1. journal'.open = journal.open /\ ~Extendable(journal)
    BY <1>0, <1>2, RestoreFacts DEF RestoreIncarnation, CanRestore, SameEvaluations, Extendable
  <2> QED
    BY <2>1 DEF OpenIsSupported
<1>3. CASE TerminateIncarnation \/ RunEnded
  <2>1. journal'.open = journal.open /\ Quiescent(journal)
    BY <1>0, <1>3, TerminateFacts, EndFacts
       DEF TerminateIncarnation, CanTerminate, RunEnded, CanEnd, SameEvaluations
  <2> QED
    BY <2>1 DEF OpenIsSupported, Quiescent, NoOpenEvaluation
<1>4. ASSUME ~Start, ~RestoreIncarnation
      PROVE  Extendable(journal)
  BY <1>4, GuardsExtend
<1>5. CASE \/ ControlTransferred \/ CandidateSubmitted \/ CheckpointCommitted \/ LicenseDenied
           \/ ProviderRequestStarted \/ ProviderResponseRecorded
           \/ ToolRequested \/ ToolResolved \/ ToolReserved \/ ToolClosed
           \/ LicenseAcquired \/ LicenseClosed
  <2> SUFFICES ASSUME Extendable(journal)
               PROVE  /\ SameEvaluations(journal, journal')
                      /\ SameProgress(journal, journal') /\ journal'.sequence # 0
    BY <1>t, <1>1, <1>2, <1>4, SupportFrame DEF SameEvaluations
  <2>1. CASE ControlTransferred \/ CandidateSubmitted \/ CheckpointCommitted \/ LicenseDenied
    BY <1>0, <2>1, TransferFacts, SubmitFacts, CommitCheckpointFacts, DenyLicenseFacts
       DEF ControlTransferred, CandidateSubmitted, CheckpointCommitted, LicenseDenied
  <2>2. CASE ProviderRequestStarted
    BY Zenon, <1>0, <2>2, StartProviderRequestFacts DEF ProviderRequestStarted
  <2>3. CASE ProviderResponseRecorded
    BY Zenon, <1>0, <2>3, RecordResponseFacts DEF ProviderResponseRecorded
  <2>4. CASE ToolRequested
    BY Zenon, <1>0, <2>4, RequestToolFacts DEF ToolRequested
  <2>5. CASE ToolResolved
    BY Zenon, <1>0, <2>5, ResolveToolFacts DEF ToolResolved
  <2>6. CASE ToolReserved
    BY Zenon, <1>0, <2>6, ReserveToolFacts DEF ToolReserved
  <2>7. CASE ToolClosed
    <3>1. PICK q \in Requests, how \in {"settled", "lost"} :
            journal' = CloseTool(journal, q, how)
      BY <2>7 DEF ToolClosed
    <3>2. SameEvaluations(journal, journal') /\ SameProgress(journal, journal')
      BY <1>0, <3>1 DEF CloseTool, RunStates, SameEvaluations, SameProgress
    <3>3. journal'.sequence # 0
      BY <1>0, <3>1 DEF CloseTool, RunStates
    <3> QED
      BY <3>2, <3>3
  <2>8. CASE LicenseAcquired \/ LicenseClosed
    BY <1>0, <2>8, AcquireLicenseFacts, CloseLicenseFacts DEF LicenseAcquired, LicenseClosed
  <2> QED
    BY <1>5, <2>1, <2>2, <2>3, <2>4, <2>5, <2>6, <2>7, <2>8
<1>6. CASE JobStateChanged
  <2>1. PICK j \in Jobs, state \in JobStates :
          CanChangeJob(journal, j, state) /\ journal' = ChangeJob(journal, j, state)
    BY <1>6 DEF JobStateChanged
  <2>2. /\ journal'.jobs = [journal.jobs EXCEPT ![j] = state] /\ journal'.sequence # 0
        /\ journal'.results = journal.results /\ journal'.open = journal.open
        /\ journal'.scoring = journal.scoring /\ SameProgress(journal, journal')
        /\ SameCustody(journal, journal')
    BY <1>0, <2>1, ChangeJobFacts
  <2>3. Extendable(journal)
    BY <2>1 DEF CanChangeJob
  <2> QED
    BY <1>t, <2>2, <2>3, SupportFrame
<1>7. CASE EvaluationStarted
  <2>1. PICK c \in Candidates, s \in Stages :
          CanStartEvaluation(journal, c, s) /\ journal' = StartEvaluation(journal, c, s)
    BY <1>7 DEF EvaluationStarted
  <2>2. /\ journal'.jobs = [journal.jobs EXCEPT ![<<c, s>>] = "queued"]
        /\ journal'.open = journal.open \cup {<<c, s>>}
        /\ journal'.results = journal.results /\ journal'.scoring = journal.scoring
        /\ SameProgress(journal, journal') /\ SameCustody(journal, journal')
        /\ journal'.sequence # 0
    BY <1>0, <2>1, StartEvaluationFacts
  <2>0. Extendable(journal)
    BY <2>1 DEF CanStartEvaluation
  <2>3. Extendable(journal')
    BY <1>t, <2>0, <2>2, StillExtendable
  <2>4. \A d \in Task.depends_on[s] : Promotes(journal.results[c][d])
    <3>1. Task \in Tasks /\ journal.results[c] \in Snapshots
      BY <1>0, RunAssumption DEF RunStates
    <3>2. StageEligibility(Task, journal.results[c], s) = "ready"
      BY <2>1 DEF CanStartEvaluation
    <3> QED
      BY <3>1, <3>2, ReadyAbovePromoting
  <2> QED
    BY <2>2, <2>3, <2>4 DEF OpenIsSupported
<1>8. CASE EvaluationCompleted
  <2>1. PICK c \in Candidates, s \in Stages, outcome \in Outcomes :
          /\ CanCompleteEvaluation(journal, c, s, outcome)
          /\ journal' = CompleteEvaluation(journal, c, s, outcome)
    BY <1>8 DEF EvaluationCompleted
  <2> DEFINE new == [journal.results[c] EXCEPT ![s] = outcome]
  <2>2. /\ journal'.open = journal.open \ {<<c, s>>}
        /\ journal'.results = [journal.results EXCEPT ![c] = new]
        /\ SameProgress(journal, journal') /\ journal'.sequence # 0
    BY <1>0, <2>1, CompleteEvaluationFacts
  <2>0. Extendable(journal) /\ journal.results[c][s] = NoResult
    BY <2>1 DEF CanCompleteEvaluation
  <2>3. Extendable(journal')
    BY <1>t, <2>0, <2>2, StillExtendable
  <2>4. journal.results \in [Candidates -> Snapshots]
    BY <1>0 DEF RunStates
  <2> SUFFICES ASSUME NEW e \in Candidates, NEW t \in Stages, <<e, t>> \in journal.open,
                      NEW d \in Task.depends_on[t]
               PROVE  Promotes(journal'.results[e][d])
    BY <2>2, <2>3 DEF OpenIsSupported
  <2>5. Promotes(journal.results[e][d])
    BY DEF OpenIsSupported
  <2>6. d \in Stages
    BY RunAssumption, TaskTypes
  <2>7. ~(e = c /\ d = s)
    BY <2>0, <2>5 DEF Promotes, PromotingOutcomes, NoResult
  <2>8. journal'.results[e][d] = journal.results[e][d]
    BY <2>2, <2>4, <2>6, <2>7 DEF Snapshots
  <2> QED
    BY <2>5, <2>8
<1>9. CASE ScoringRecorded
  <2>1. PICK c \in Candidates, decision \in Decisions :
          /\ CanRecordScoring(journal, c, decision)
          /\ journal' = RecordScoring(journal, c, decision)
    BY <1>9 DEF ScoringRecorded
  <2>2. /\ journal'.scoring = [journal.scoring EXCEPT ![c] = decision]
        /\ journal'.results = journal.results /\ journal'.jobs = journal.jobs
        /\ journal'.open = journal.open /\ SameProgress(journal, journal')
        /\ SameCustody(journal, journal') /\ journal'.sequence # 0
    BY <1>0, <2>1, RecordScoringFacts
  <2>3. Extendable(journal)
    BY <2>1 DEF CanRecordScoring
  <2> QED
    BY <1>t, <2>2, <2>3, SupportFrame
<1> QED
  BY <1>1, <1>2, <1>3, <1>5, <1>6, <1>7, <1>8, <1>9 DEF Next

(* For every task and however its stages overlap: an evaluation that was   *)
(* started can be completed once its job has ended, with any outcome.      *)
THEOREM StartedEvaluationsComplete == Spec => []StartedCanComplete
<1>1. Init => OpenIsSupported
  BY DEF Init, EmptyJournal, OpenIsSupported
<1>2. LawInv /\ OpenIsSupported /\ [Next]_journal => OpenIsSupported'
  <2>1. CASE UNCHANGED journal
    BY <2>1 DEF OpenIsSupported
  <2> QED
    BY <2>1, SupportNext
<1>3. LawInv /\ OpenIsSupported => StartedCanComplete
  <2> SUFFICES ASSUME LawInv, OpenIsSupported,
                      NEW c \in Candidates, NEW s \in Stages, NEW outcome \in Outcomes,
                      <<c, s>> \in journal.open,
                      journal.jobs[<<c, s>>] \in TerminalJobStates
               PROVE  CanCompleteEvaluation(journal, c, s, outcome)
    BY Zenon DEF StartedCanComplete
  <2> DEFINE old == journal.results[c]
             new == [old EXCEPT ![s] = outcome]
  <2>1. /\ Extendable(journal)
        /\ \A d \in Task.depends_on[s] : Promotes(old[d])
    BY DEF OpenIsSupported
  <2>2. old[s] = NoResult /\ ValidResults(Task, old)
    BY DEF LawInv, EvaluationInv, OpenMeansUnfinished, ResultsAreValid
  <2>3. old \in Snapshots /\ Task.depends_on \in [Stages -> SUBSET Stages]
    BY RunAssumption, TaskTypes DEF LawInv, TypeOK, RunStates
  <2>4. ~Promotes(NoResult)
    BY DEF Promotes, PromotingOutcomes, NoResult
  <2>5. ASSUME NEW t \in Stages, IsTerminal(new, t), NEW d \in Task.depends_on[t]
        PROVE  Promotes(new[d])
    <3>1. Promotes(old[d])
      <4>1. CASE t = s
        BY <2>1, <4>1
      <4>2. CASE t # s
        <5>1. IsTerminal(old, t)
          BY <2>3, <2>5, <4>2 DEF IsTerminal, Snapshots
        <5> QED
          BY <2>2, <2>5, <5>1 DEF ValidResults
      <4> QED
        BY <4>1, <4>2
    <3>2. d \in Stages /\ d # s
      BY <2>2, <2>3, <2>4, <3>1
    <3> QED
      BY <2>3, <3>1, <3>2 DEF Snapshots
  <2>6. ValidResults(Task, new)
    BY <2>5 DEF ValidResults
  <2> QED
    BY <2>1, <2>2, <2>6 DEF CanCompleteEvaluation
<1> QED
  BY <1>1, <1>2, <1>3, LawInvInit, LawInvNext, PTL DEF Spec

(* A recorded scoring decision never goes stale: replay refuses every      *)
(* event that could change what it was derived from.                       *)
THEOREM ScoringNeverStale == Spec => []ScoringStaysCurrent
<1>1. LawInv => ScoringStaysCurrent
  BY DEF LawInv, EvaluationInv
<1> QED
  BY <1>1, LawInvInit, LawInvNext, PTL DEF Spec

(* A run that ended in verifier success names a candidate whose gates,     *)
(* producers and all of their ancestors promoted, although run_ended       *)
(* checks the gates and trusts the recorded decision for the producers.    *)
THEOREM JournaledSuccessIsEarned == Spec => []SuccessIsEarned
<1>1. LawInv => SuccessIsEarned
  BY DEF LawInv, EvaluationInv
<1> QED
  BY <1>1, LawInvInit, LawInvNext, PTL DEF Spec

(* License custody and tool dispatch stay nested for any number of         *)
(* concurrent requests.                                                    *)
THEOREM CustodyStaysNested == Spec => []CustodyFollowsDispatch
<1>1. LawInv => CustodyFollowsDispatch
  BY DEF LawInv, CustodyInv
<1> QED
  BY <1>1, LawInvInit, LawInvNext, PTL DEF Spec

(* No incarnation is terminated and no run ended with work in flight.      *)
THEOREM StopsAreQuiescent == Spec => []StoppedIsQuiescent
<1>1. LawInv => StoppedIsQuiescent
  BY DEF LawInv
<1> QED
  BY <1>1, LawInvInit, LawInvNext, PTL DEF Spec

(* The facts of the journal are never revised: an ended run takes no event *)
(* at all, and results, decisions, terminal jobs and closed dispatches     *)
(* survive every event.                                                    *)
THEOREM JournalOnlyGrows == Spec => FactsAreNeverRevised
<1> DEFINE Kept ==
      /\ journal.ended # "none" => journal' = journal
      /\ \A c \in Candidates, s \in Stages :
           journal.results[c][s] # NoResult => journal'.results[c][s] = journal.results[c][s]
      /\ \A c \in Candidates :
           journal.scoring[c] # "none" => journal'.scoring[c] = journal.scoring[c]
      /\ \A j \in Jobs :
           journal.jobs[j] \in TerminalJobStates => journal'.jobs[j] = journal.jobs[j]
      /\ \A q \in Requests :
           journal.dispatch[q] \in {"settled", "lost"} =>
             journal'.dispatch[q] = journal.dispatch[q]
      /\ journal'.generation >= journal.generation
<1>1. LawInv /\ [Next]_journal => [Kept]_journal
  <2> SUFFICES ASSUME LawInv, Next
               PROVE  Kept
    OBVIOUS
  <2>0. /\ journal \in RunStates /\ Unstarted /\ OpenMeansUnfinished
        /\ journal.generation \in Nat
        /\ journal.results \in [Candidates -> Snapshots]
        /\ journal.scoring \in [Candidates -> Decisions]
        /\ journal.jobs \in [Jobs -> JobStates]
        /\ journal.dispatch \in [Requests -> {"none", "reserved", "settled", "lost"}]
    BY DEF LawInv, TypeOK, RunStates, EvaluationInv
  <2>1. journal.ended = "none"
    <3>1. CASE Start
      BY <2>0, <3>1 DEF Start, CanStartRun, Unstarted
    <3>2. CASE RestoreIncarnation
      BY <3>2 DEF RestoreIncarnation, CanRestore
    <3>3. CASE ~Start /\ ~RestoreIncarnation
      BY <3>3, GuardsExtend DEF Extendable
    <3> QED
      BY <3>1, <3>2, <3>3
  <2>2. ASSUME SameEvaluations(journal, journal'), journal'.dispatch = journal.dispatch,
               journal'.generation \in Nat, journal'.generation >= journal.generation
        PROVE  Kept
    BY <2>1, <2>2 DEF SameEvaluations
  <2> HIDE DEF Kept
  <2>3. CASE Start
    <3>1. CASE journal' = StartRun(journal)
      BY <2>0, <2>2, <3>1, StartRunFacts DEF SameProgress, SameCustody
    <3>2. ASSUME NEW p \in Processes, journal' = StartIncarnation(StartRun(journal), p)
          PROVE  Kept
      <4> DEFINE K == StartRun(journal)
      <4>1. /\ K \in RunStates /\ SameEvaluations(journal, K)
            /\ SameCustody(journal, K) /\ SameProgress(journal, K)
        BY <2>0, StartRunFacts, StartRunType
      <4> HIDE DEF K
      <4>2. /\ SameEvaluations(K, journal') /\ SameCustody(K, journal')
            /\ journal'.generation = K.generation
        BY <3>2, <4>1, StartIncarnationFacts DEF K
      <4> QED
        BY <2>0, <2>2, <4>1, <4>2 DEF SameEvaluations, SameCustody, SameProgress
    <3> QED
      BY <2>3, <3>1, <3>2 DEF Start
  <2>4. CASE TerminateIncarnation
    BY <2>0, <2>2, <2>4, TerminateFacts DEF TerminateIncarnation, SameCustody
  <2>5. CASE RestoreIncarnation
    <3>1. /\ SameEvaluations(journal, journal') /\ SameCustody(journal, journal')
          /\ journal'.generation = journal.generation + 1
      BY <2>0, <2>5, RestoreFacts DEF RestoreIncarnation
    <3> QED
      BY <2>0, <2>2, <3>1 DEF SameCustody
  <2>6. CASE ProviderRequestStarted
    <3>1. PICK r \in ProviderRequests : journal' = StartProviderRequest(journal, r)
      BY <2>6 DEF ProviderRequestStarted
    <3>2. /\ SameEvaluations(journal, journal') /\ journal'.dispatch = journal.dispatch
          /\ SameProgress(journal, journal')
      BY Zenon, <2>0, <3>1, StartProviderRequestFacts
    <3> QED
      BY <2>0, <2>2, <3>2 DEF SameProgress
  <2>7. CASE ProviderResponseRecorded
    <3>1. PICK r \in ProviderRequests : journal' = RecordResponse(journal, r)
      BY <2>7 DEF ProviderResponseRecorded
    <3>2. /\ SameEvaluations(journal, journal') /\ journal'.dispatch = journal.dispatch
          /\ SameProgress(journal, journal')
      BY Zenon, <2>0, <3>1, RecordResponseFacts
    <3> QED
      BY <2>0, <2>2, <3>2 DEF SameProgress
  <2>8. CASE ToolRequested
    <3>1. PICK q \in Requests : journal' = RequestTool(journal, q)
      BY <2>8 DEF ToolRequested
    <3>2. SameEvaluations(journal, journal') /\ SameProgress(journal, journal')
      BY Zenon, <2>0, <3>1, RequestToolFacts
    <3>3. journal'.dispatch = journal.dispatch
      BY Zenon, <2>0, <3>1, RequestToolFacts
    <3> QED
      BY <2>0, <2>2, <3>2, <3>3 DEF SameProgress
  <2>9. CASE ToolResolved
    <3>1. PICK q \in Requests : journal' = ResolveTool(journal, q)
      BY <2>9 DEF ToolResolved
    <3>2. SameEvaluations(journal, journal') /\ SameProgress(journal, journal')
      BY Zenon, <2>0, <3>1, ResolveToolFacts
    <3>3. journal'.dispatch = journal.dispatch
      BY ZenonT(30), <2>0, <3>1, ResolveToolFacts
    <3> QED
      BY <2>0, <2>2, <3>2, <3>3 DEF SameProgress
  <2>10. CASE ControlTransferred
    BY <2>0, <2>2, <2>10, TransferFacts DEF ControlTransferred, SameProgress, SameCustody
  <2>11. CASE CandidateSubmitted
    BY <2>0, <2>2, <2>11, SubmitFacts DEF CandidateSubmitted, SameProgress, SameCustody
  <2>12. CASE CheckpointCommitted
    BY <2>0, <2>2, <2>12, CommitCheckpointFacts DEF CheckpointCommitted, SameProgress, SameCustody
  <2>13. CASE LicenseAcquired
    <3>1. /\ SameEvaluations(journal, journal') /\ journal'.dispatch = journal.dispatch
          /\ journal'.generation = journal.generation
      BY <2>0, <2>13, AcquireLicenseFacts DEF LicenseAcquired, SameProgress
    <3> QED
      BY <2>0, <2>2, <3>1
  <2>14. CASE LicenseDenied
    <3>1. /\ SameEvaluations(journal, journal') /\ journal'.dispatch = journal.dispatch
          /\ journal'.generation = journal.generation
      BY <2>0, <2>14, DenyLicenseFacts DEF LicenseDenied, SameProgress, SameCustody
    <3> QED
      BY <2>0, <2>2, <3>1
  <2>15. CASE LicenseClosed
    <3>1. /\ SameEvaluations(journal, journal') /\ journal'.dispatch = journal.dispatch
          /\ journal'.generation = journal.generation
      BY <2>0, <2>15, CloseLicenseFacts DEF LicenseClosed, SameProgress
    <3> QED
      BY <2>0, <2>2, <3>1
  <2>16. CASE RunEnded
    <3>1. /\ SameEvaluations(journal, journal') /\ journal'.dispatch = journal.dispatch
          /\ journal'.generation = journal.generation
      BY <2>0, <2>16, EndFacts DEF RunEnded, SameCustody
    <3> QED
      BY <2>0, <2>2, <3>1
  <2>17. CASE ToolReserved \/ ToolClosed
    <3>1. PICK q \in Requests, to \in {"reserved", "settled", "lost"} :
            /\ journal'.dispatch = [journal.dispatch EXCEPT ![q] = to]
            /\ journal.dispatch[q] \in {"none", "reserved"}
            /\ SameEvaluations(journal, journal') /\ SameProgress(journal, journal')
      <4>1. CASE ToolReserved
        <5>1. PICK q \in Requests :
                /\ CanReserveTool(journal, q)
                /\ journal' = ReserveTool(journal, q)
          BY <4>1 DEF ToolReserved
        <5>2. journal.dispatch[q] = "none"
          BY <5>1 DEF CanReserveTool
        <5>3. journal'.dispatch = [journal.dispatch EXCEPT ![q] = "reserved"]
          BY <2>0, <5>1, ReserveToolFacts
        <5>4. SameEvaluations(journal, journal') /\ SameProgress(journal, journal')
          BY Zenon, <2>0, <5>1, ReserveToolFacts
        <5> QED
          BY Zenon, <5>2, <5>3, <5>4
      <4>2. CASE ToolClosed
        <5>1. PICK q \in Requests, how \in {"settled", "lost"} :
                /\ CanCloseTool(journal, q)
                /\ journal' = CloseTool(journal, q, how)
          BY <4>2 DEF ToolClosed
        <5>2. journal.dispatch[q] = "reserved"
          BY <5>1 DEF CanCloseTool
        <5>3. journal'.dispatch = [journal.dispatch EXCEPT ![q] = how]
          BY <2>0, <5>1, CloseToolFacts
        <5>4. SameEvaluations(journal, journal') /\ SameProgress(journal, journal')
          BY Zenon, <2>0, <5>1, CloseToolFacts
        <5> QED
          BY Zenon, <5>2, <5>3, <5>4
      <4> QED
        BY Zenon, <2>17, <4>1, <4>2
    <3> QED
      BY <2>0, <2>1, <3>1 DEF SameEvaluations, SameProgress, Kept
  <2>18. CASE JobStateChanged \/ EvaluationStarted
    <3>1. PICK j \in Jobs, to \in JobStates :
            /\ journal'.jobs = [journal.jobs EXCEPT ![j] = to]
            /\ journal.jobs[j] \notin TerminalJobStates
            /\ journal'.results = journal.results /\ journal'.scoring = journal.scoring
            /\ SameCustody(journal, journal') /\ SameProgress(journal, journal')
      <4>1. CASE JobStateChanged
        <5>1. PICK j \in Jobs, to \in JobStates :
                CanChangeJob(journal, j, to) /\ journal' = ChangeJob(journal, j, to)
          BY <4>1 DEF JobStateChanged
        <5>2. journal.jobs[j] \notin TerminalJobStates
          BY <5>1 DEF CanChangeJob, JobTransitions, TerminalJobStates
        <5>3. /\ journal'.jobs = [journal.jobs EXCEPT ![j] = to]
              /\ journal'.results = journal.results /\ journal'.scoring = journal.scoring
              /\ SameCustody(journal, journal') /\ SameProgress(journal, journal')
          <6>1. journal \in RunStates /\ journal' = ChangeJob(journal, j, to)
            BY <2>0, <5>1
          <6>2. journal'.jobs = [journal.jobs EXCEPT ![j] = to]
            BY <6>1 DEF ChangeJob, RunStates
          <6>3. journal'.results = journal.results /\ journal'.scoring = journal.scoring
            BY <6>1 DEF ChangeJob, RunStates
          <6>4. SameCustody(journal, journal') /\ SameProgress(journal, journal')
            BY <6>1 DEF ChangeJob, RunStates, SameCustody, SameProgress
          <6> QED
            BY <6>2, <6>3, <6>4
        <5> QED
          BY <5>2, <5>3
      <4>2. CASE EvaluationStarted
        <5>1. PICK c \in Candidates, s \in Stages :
                CanStartEvaluation(journal, c, s) /\ journal' = StartEvaluation(journal, c, s)
          BY <4>2 DEF EvaluationStarted
        <5>2. /\ journal.jobs[<<c, s>>] \notin TerminalJobStates
              /\ <<c, s>> \in Jobs /\ "queued" \in JobStates
          BY <5>1 DEF CanStartEvaluation, TerminalJobStates, Jobs, JobStates
        <5>3. /\ journal'.jobs = [journal.jobs EXCEPT ![<<c, s>>] = "queued"]
              /\ journal'.results = journal.results /\ journal'.scoring = journal.scoring
              /\ SameCustody(journal, journal') /\ SameProgress(journal, journal')
          BY <2>0, <5>1, StartEvaluationFacts
        <5> QED
          BY <5>2, <5>3
      <4> QED
        BY Zenon, <2>18, <4>1, <4>2
    <3> QED
      BY <2>0, <2>1, <3>1 DEF SameCustody, SameProgress, Kept
  <2>19. CASE EvaluationCompleted
    <3>1. PICK c \in Candidates, s \in Stages, outcome \in Outcomes :
            /\ CanCompleteEvaluation(journal, c, s, outcome)
            /\ journal' = CompleteEvaluation(journal, c, s, outcome)
      BY <2>19 DEF EvaluationCompleted
    <3>2. /\ journal'.results =
               [journal.results EXCEPT ![c] = [journal.results[c] EXCEPT ![s] = outcome]]
          /\ journal'.jobs = journal.jobs /\ journal'.scoring = journal.scoring
          /\ SameCustody(journal, journal') /\ SameProgress(journal, journal')
      BY <2>0, <3>1, CompleteEvaluationFacts
    <3>3. journal.results[c][s] = NoResult
      BY <3>1 DEF CanCompleteEvaluation
    <3>4. \A d \in Candidates, t \in Stages :
            journal.results[d][t] # NoResult => journal'.results[d][t] = journal.results[d][t]
      BY <2>0, <3>2, <3>3 DEF Snapshots
    <3> QED
      BY <2>0, <2>1, <3>2, <3>4 DEF SameCustody, SameProgress, Kept
  <2>20. CASE ScoringRecorded
    <3>1. PICK c \in Candidates, decision \in Decisions :
            /\ CanRecordScoring(journal, c, decision)
            /\ journal' = RecordScoring(journal, c, decision)
      BY <2>20 DEF ScoringRecorded
    <3>2. /\ journal'.scoring = [journal.scoring EXCEPT ![c] = decision]
          /\ journal'.jobs = journal.jobs /\ journal'.results = journal.results
          /\ SameCustody(journal, journal') /\ SameProgress(journal, journal')
      BY <2>0, <3>1, RecordScoringFacts
    <3>3. journal.scoring[c] = "none"
      BY <3>1 DEF CanRecordScoring
    <3> QED
      BY <2>0, <2>1, <3>2, <3>3 DEF SameCustody, SameProgress, Kept
  <2> QED
    BY Zenon, <2>3, <2>4, <2>5, <2>6, <2>7, <2>8, <2>9, <2>10, <2>11, <2>12, <2>13, <2>14,
       <2>15, <2>16, <2>17, <2>18, <2>19, <2>20 DEF Next
<1> QED
  BY <1>1, LawInvInit, LawInvNext, PTL DEF Spec, FactsAreNeverRevised
=============================================================================
