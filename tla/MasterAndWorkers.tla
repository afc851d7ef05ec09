-------------------------- MODULE MasterAndWorkers --------------------------
(***************************************************************************)
(* The threads of a Master, and the Workers.  The first state decides      *)
(* which of the two a behaviour is about; the other one does nothing.      *)
(***************************************************************************)
EXTENDS MasterThreads

CONSTANTS  \* those of Worker
  Request, Op, At, Block, Bytes, DataBin, BlockSize, Page, Jobs,
  MaxSeconds, MaxDraws, MaxKills, None

VARIABLES
  part,    \* "threads" or "workers"
  job, child, seed, draw, script, pre, peer, fetched, tmp, output, removed, stored, resp,
  running, clock, kills \* those of Worker
workerVars == <<job, child, seed, draw, script, pre, peer, fetched, tmp, output, removed,
                stored, resp, running, clock, kills>>

W == INSTANCE Worker WITH pc <- child, got <- fetched, up <- running

ASSUME WorkerAssumption == W!JobsAreSound

NoWorkers ==
  /\ job = None /\ child = None /\ seed = None /\ draw = None /\ script = None
  /\ pre = None /\ peer = None /\ fetched = None /\ tmp = None /\ output = None
  /\ removed = None /\ stored = None /\ resp = None /\ running = None /\ clock = None
  /\ kills = None

BothInit ==
  \/ part = "threads" /\ Init /\ NoWorkers
  \/ part = "workers" /\ Init /\ data = (CHOOSE n \in Node : TRUE) /\ W!Init
BothNext ==
  /\ \/ part = "threads" /\ Next /\ UNCHANGED workerVars
     \/ part = "workers" /\ W!Next /\ UNCHANGED vars
  /\ UNCHANGED part
BothSpec == BothInit /\ [][BothNext]_<<vars, workerVars, part>>

\* The fairness of either part.
BothFairness ==
  /\ WF_vars(part = "threads" /\ ~crashed /\ (Create \/ PutInList))
  /\ WF_vars(part = "threads" /\ ~crashed /\ Drop)
  /\ \A h \in Hilo : WF_vars(part = "threads" /\ ~crashed /\ Step(h))
  /\ \A r \in Request : WF_workerVars(part = "workers" /\ (W!Fork(r) \/ W!Child(r)))
FairBoth == BothSpec /\ BothFairness
-----------------------------------------------------------------------------
\* The threads of a Master answer for their blocks (AllAnswered of
\* MasterThreads).
BlocksAnswered == part = "threads" => AllAnswered

\* What a request to a Worker was answered OK for is right (ResultsRight of
\* Worker: block_transform, reducir_path, path_merge).
ResultsRight == part = "workers" => W!ResultsRight

\* A Worker's child leaves no temporary file (NothingLeft of Worker:
\* path_remove, listen_to_master).
NothingLeft == part = "workers" => W!NothingLeft

\* Requests are answered (Answered of Worker).
Answered == <>[](part = "workers" => W!NothingPending)
=============================================================================
