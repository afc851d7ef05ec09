------------------------------- MODULE Worker -------------------------------
(***************************************************************************)
(* The Workers: a process that accepts connections, a child for each of    *)
(* them, the temporary files the children share a directory with, and the  *)
(* fetching of files from one Worker by another (funcionesWorker.c,        *)
(* path_merge and path_temp of path.c).                                    *)
(*                                                                         *)
(* A file is the sequence of its lines, a line is its place in the order   *)
(* of strcmp, a byte of data.bin stands for a line, and a program lets     *)
(* some lines through.  The parent never closes the connections it         *)
(* accepted, so that a child that exits without an answer leaves the other *)
(* end waiting.                                                            *)
(***************************************************************************)
EXTENDS Integers, Sequences, SequencesExt, FiniteSets

CONSTANTS
  Node,      \* the nodes, with a Worker each
  Request,   \* what Masters send, and the name of the file it produces
  Op,        \* Op[r]: "transform", "local", "global" or "store"
  At,        \* At[r]: the Worker it is sent to
  Block, Bytes, \* the block a transformation reads, and its bytes in use
  DataBin,   \* DataBin[n]: data.bin
  BlockSize, \* BLOCK_SIZE
  Page,      \* the page size, of a mapped file
  Jobs,      \* what Masters may want: the requests they send, the requests whose
             \* files each of them takes, and the lines its program lets through
  MaxSeconds, MaxDraws, MaxKills, \* bounds
  None

VARIABLES
  job,       \* what the Masters want
  pc,        \* control point of the child that serves each request
  seed, draw,\* its random numbers: the second they begin from, how many were used
  script, pre, \* the names of its program and of the file it reduces
  peer, got, \* the input a leader is fetching, and what it has
  tmp,       \* the temporary files of each node
  output,    \* the file each request produced
  removed,   \* the inputs that were removed
  stored,    \* what the FileSystem stored for a request
  resp,      \* the answer to each request
  up,        \* the Worker of each node accepts connections
  clock,     \* the second the last child began its names from
  kills      \* Workers killed (bound)

nameVars == <<seed, draw, script, pre>>
fileVars == <<output, removed, stored>>
vars == <<job, pc, nameVars, peer, got, tmp, fileVars, resp, up, clock, kills>>
-----------------------------------------------------------------------------
Ins(r) == job.ins[r]

\* sort: the place of a line is the number of those that are not after it.
Before(lines, i, k) == lines[i] < lines[k] \/ (lines[i] = lines[k] /\ i <= k)
Place(lines, k) == Cardinality({i \in DOMAIN lines : Before(lines, i, k)})
Sorted(lines) ==
  [j \in DOMAIN lines |-> lines[CHOOSE k \in DOMAIN lines : Place(lines, k) = j]]

\* A program goes through its input line by line.
Keep(program, lines) ==
  FoldLeft(LAMBDA kept, x : IF x \in program THEN Append(kept, x) ELSE kept, <<>>, lines)
Filter(r, lines) == Keep(job.program[r], lines)

Slice_M(r) ==
  LET end == Block[r] * BlockSize + BlockSize
  IN  SubSeq(DataBin[At[r]], end - Bytes[r] + 1, end)
\* block_transform: head -c (block * BLOCK_SIZE + bytes) | tail -c bytes.
Slice(r) ==
  LET end == Block[r] * BlockSize + Bytes[r]
  IN  SubSeq(DataBin[At[r]], end - Bytes[r] + 1, end)

\* The source path_merge takes the next line from: one whose line is least.
Least(heads) ==
  CHOOSE i \in DOMAIN heads :
    /\ heads[i] # <<>>
    /\ \A j \in DOMAIN heads : heads[j] # <<>> => Head(heads[i]) <= Head(heads[j])
\* path_merge: a line at a time, until no source has one left.
Merge[files \in Seq(Seq(Nat))] ==
  IF \A i \in DOMAIN files : files[i] = <<>> THEN <<>>
  ELSE LET i == Least(files)
       IN  <<Head(files[i])>> \o Merge[[files EXCEPT ![i] = Tail(@)]]

\* Temporary files: programs and the files children merge.
Name == (1 .. MaxSeconds) \X (1 .. MaxDraws)
Program(r) == [is |-> "program", of |-> r]
Data(lines) == [is |-> "data", lines |-> lines]
Put(n, name, content) == tmp' = [tmp EXCEPT ![n][name] = content]

\* path_temp: the first name of the child's sequence that no file has.  The
\* child seeds the sequence with the time when it needs its first name, which
\* may be that of the last name another child took, or later.
Temp(r, name) ==
  /\ IF seed[r] = 0 THEN name[1] >= clock ELSE name[1] = seed[r]
  /\ name[2] > draw[r] /\ tmp[At[r]][name] = None
  /\ \A j \in draw[r] + 1 .. name[2] - 1 : tmp[At[r]][<<name[1], j>>] # None
Draw(r, name) ==
  /\ Temp(r, name)
  /\ seed' = [seed EXCEPT ![r] = name[1]] /\ draw' = [draw EXCEPT ![r] = name[2]]
  /\ clock' = IF seed[r] = 0 THEN name[1] ELSE clock

\* What YAMA lets a Master ask for: blocks that are in data.bin, and files that
\* transformations and reductions produce, one at least for the last stages.
JobsAreSound ==
  /\ At \in [Request -> Node] /\ Op \in [Request -> {"transform", "local", "global", "store"}]
  /\ BlockSize \in Nat /\ MaxSeconds \in Nat /\ MaxDraws \in Nat
  /\ DataBin \in [Node -> Seq(Nat)]
  /\ \A r \in Request : Op[r] = "transform" =>
       /\ Block[r] \in Nat /\ Bytes[r] \in Nat
       /\ Block[r] * BlockSize + Bytes[r] <= Len(DataBin[At[r]])
  /\ \A wanted \in Jobs, r \in Request :
       /\ wanted.ins[r] \in Seq({q \in Request : Op[q] # "store"})
       /\ r \in wanted.sent /\ Op[r] \in {"global", "store"} => wanted.ins[r] # <<>>
  /\ None \notin Name \cup {Program(r) : r \in Request} \cup [is : {"data"}, lines : Seq(Nat)]
  /\ None \notin [by : Request \cup {None}, lines : Seq(Nat)]

Goto(r, label) == pc' = [pc EXCEPT ![r] = label]

Init ==
  /\ job \in Jobs
  /\ pc = [r \in Request |-> IF r \in job.sent THEN "unsent" ELSE "never"]
  /\ seed = [r \in Request |-> 0] /\ draw = [r \in Request |-> 0]
  /\ script = [r \in Request |-> None] /\ pre = [r \in Request |-> None]
  /\ peer = [r \in Request |-> 1] /\ got = [r \in Request |-> <<>>]
  /\ tmp = [n \in Node |-> [name \in Name |-> None]]
  /\ output = [r \in Request |-> None] /\ removed = {}
  /\ stored = [r \in Request |-> None]
  /\ resp = [r \in Request |-> "none"]
  /\ up = [n \in Node |-> TRUE] /\ clock = 1 /\ kills = 0
-----------------------------------------------------------------------------
\* A Master sends a request once those it depends on have succeeded (YAMA).
Send(r) ==
  /\ pc[r] = "unsent" /\ \A k \in DOMAIN Ins(r) : resp[Ins(r)[k]] = "ok"
  /\ Goto(r, "queued")
  /\ UNCHANGED <<job, nameVars, peer, got, tmp, fileVars, resp, up, clock, kills>>

\* listen_to_master forks a child, which gets the request.
Fork(r) ==
  /\ pc[r] = "queued" /\ up[At[r]]
  /\ Goto(r, CASE Op[r] = "local" -> "pre" [] Op[r] = "store" -> "map" [] OTHER -> "script")
  /\ UNCHANGED <<job, nameVars, peer, got, tmp, fileVars, resp, up, clock, kills>>

\* The name of the file to reduce; it is created later, by path_merge.
NamePre(r) ==
  /\ pc[r] = "pre"
  /\ \E name \in Name : Draw(r, name) /\ pre' = [pre EXCEPT ![r] = name]
  /\ Goto(r, IF Op[r] = "local" THEN "script" ELSE "fetch")
  /\ UNCHANGED <<job, script, peer, got, tmp, fileVars, resp, up, kills>>

\* crearScript: a name that is free, and then a file of that name.
NameScript(r) ==
  /\ pc[r] = "script"
  /\ \E name \in Name : Draw(r, name) /\ script' = [script EXCEPT ![r] = name]
  /\ Goto(r, "create")
  /\ UNCHANGED <<job, pre, peer, got, tmp, fileVars, resp, up, kills>>
CreateScript(r) ==
  /\ pc[r] = "create"
  /\ Put(At[r], script[r], Program(r))
  /\ Goto(r, CASE Op[r] = "transform" -> "check"
               [] Op[r] = "local" -> "merge"
               [] OTHER -> IF Len(Ins(r)) > 1 THEN "pre" ELSE "check")
  /\ UNCHANGED <<job, nameVars, peer, got, fileVars, resp, up, clock, kills>>
-----------------------------------------------------------------------------
(* crearListaParaReducir: the leader of a global reduction collects files. *)

Here(r) == peer[r] <= Len(Ins(r)) /\ At[Ins(r)[peer[r]]] = At[r]
Fetched(r) ==
  /\ got' = [got EXCEPT ![r] = Append(@, output[Ins(r)[peer[r]]].lines)]
  /\ peer' = [peer EXCEPT ![r] = @ + 1]
  /\ Goto(r, IF peer[r] = Len(Ins(r)) THEN "merge" ELSE "fetch")

\* Its own file.
OwnFile(r) ==
  /\ pc[r] = "fetch" /\ Here(r) /\ Fetched(r)
  /\ UNCHANGED <<job, nameVars, tmp, fileVars, resp, up, clock, kills>>

\* connect_to_worker; when there is no Worker the child exits.
Connect(r) ==
  /\ pc[r] = "fetch" /\ ~Here(r)
  /\ Goto(r, IF up[At[Ins(r)[peer[r]]]] THEN "receive" ELSE "exit")
  /\ UNCHANGED <<job, nameVars, peer, got, tmp, fileVars, resp, up, clock, kills>>

\* A file is sent as a string that a mapping holds.  An empty file cannot be
\* mapped; at the end of a full page the string may not end.
Mappable(lines) == lines # <<>>
Ends(lines) == Len(lines) % Page # 0

\* The child of the other Worker sends the file, which the leader saves, or
\* exits.
Serve(r) ==
  LET lines == output[Ins(r)[peer[r]]].lines IN
  /\ pc[r] = "receive" /\ Mappable(lines) /\ Fetched(r)
  /\ UNCHANGED <<job, nameVars, tmp, fileVars, resp, up, clock, kills>>
ServeFails(r) ==
  /\ pc[r] = "receive" /\ ~Ends(output[Ins(r)[peer[r]]].lines)
  /\ Goto(r, "stuck")
  /\ UNCHANGED <<job, nameVars, peer, got, tmp, fileVars, resp, up, clock, kills>>
-----------------------------------------------------------------------------
\* path_merge, into the file named before.
MergeFiles(r) ==
  LET files == IF Op[r] = "local" THEN [k \in DOMAIN Ins(r) |-> output[Ins(r)[k]].lines]
               ELSE got[r]
  IN
  /\ pc[r] = "merge"
  /\ Put(At[r], pre[r], Data(Merge[files])) /\ Goto(r, "check")
  /\ UNCHANGED <<job, nameVars, peer, got, fileVars, resp, up, clock, kills>>

\* block_transform and reducir_path fail when the program is not there.
Check(r) ==
  /\ pc[r] = "check"
  /\ Goto(r, IF tmp[At[r]][script[r]] = None THEN "failed" ELSE "run")
  /\ UNCHANGED <<job, nameVars, peer, got, tmp, fileVars, resp, up, clock, kills>>

\* The file a reduction reads: a missing one is empty for cat.
Input(r) ==
  IF pre[r] = None THEN output[Ins(r)[1]].lines
  ELSE LET file == tmp[At[r]][pre[r]] IN IF file = None \/ file.is = "program" THEN <<>> ELSE file.lines

\* The pipelines.  That of a transformation succeeds when sort does, whatever
\* became of the program; that of a reduction when the program does.
Run(r) ==
  LET file == tmp[At[r]][script[r]]
      runs == file # None /\ file.is = "program"
      by == IF runs THEN file.of ELSE None
      lines == IF ~runs THEN <<>>
               ELSE IF Op[r] = "transform" THEN Sorted(Filter(by, Slice(r)))
               ELSE Filter(by, Input(r))
  IN
  /\ pc[r] = "run"
  /\ output' = [output EXCEPT ![r] = [by |-> by, lines |-> lines]]
  /\ Goto(r, IF runs \/ Op[r] = "transform" THEN "ran" ELSE "failed")
  /\ UNCHANGED <<job, nameVars, peer, got, tmp, removed, stored, resp, up, clock, kills>>

AnswersError_M(r) == pc[r] = "ran"
AnswersError(r) == pc[r] \in {"ran", "failed"}
\* protocol_send_response.
Answer(r) ==
  /\ AnswersError(r)
  /\ resp' = [resp EXCEPT ![r] = IF pc[r] = "ran" THEN "ok" ELSE "error"]
  /\ Goto(r, "clean")
  /\ UNCHANGED <<job, nameVars, peer, got, tmp, fileVars, up, clock, kills>>

CleanScript_M(r) == {pre[r]} \ {None}
\* What a child removes of the temporary files.
CleanScript(r) == {script[r], pre[r]} \ {None}
\* path_remove of the program and of the file that was reduced, which for a
\* single node is the result of its local reduction; and exit.
Clean(r) ==
  /\ pc[r] = "clean"
  /\ tmp' = [tmp EXCEPT ![At[r]] =
               [name \in Name |-> IF name \in CleanScript(r) THEN None ELSE @[name]]]
  /\ removed' = IF Op[r] = "global" /\ pre[r] = None THEN removed \cup {Ins(r)[1]} ELSE removed
  /\ Goto(r, "done")
  /\ UNCHANGED <<job, nameVars, peer, got, output, stored, resp, up, clock, kills>>
-----------------------------------------------------------------------------
(* OP_INICIAR_ALMACENAMIENTO.                                              *)

MapResult(r) ==
  LET lines == output[Ins(r)[1]].lines IN
  /\ pc[r] = "map"
  /\ \/ Mappable(lines) /\ Goto(r, "offer")
     \/ ~Ends(lines) /\ Goto(r, "exit")
  /\ UNCHANGED <<job, nameVars, peer, got, tmp, fileVars, resp, up, clock, kills>>

\* The FileSystem is not there or refuses the Worker; it stores the file; or it
\* refuses it or is lost.
Offer(r) ==
  /\ pc[r] = "offer"
  /\ \/ resp' = [resp EXCEPT ![r] = "no FileSystem"] /\ UNCHANGED stored
     \/ /\ resp' = [resp EXCEPT ![r] = "ok"]
        /\ stored' = [stored EXCEPT ![r] = output[Ins(r)[1]].lines]
     \/ resp' = [resp EXCEPT ![r] = "not stored"] /\ UNCHANGED stored
  /\ Goto(r, "done")
  /\ UNCHANGED <<job, nameVars, peer, got, tmp, output, removed, up, clock, kills>>
-----------------------------------------------------------------------------
\* A Worker is killed; its children are not.
Kill(n) ==
  /\ up[n] /\ kills < MaxKills /\ kills' = kills + 1
  /\ up' = [up EXCEPT ![n] = FALSE]
  /\ UNCHANGED <<job, pc, nameVars, peer, got, tmp, fileVars, resp, clock>>

Child(r) ==
  \/ NamePre(r) \/ NameScript(r) \/ CreateScript(r)
  \/ OwnFile(r) \/ Connect(r) \/ Serve(r) \/ ServeFails(r) \/ MergeFiles(r)
  \/ Check(r) \/ Run(r) \/ Answer(r) \/ Clean(r) \/ MapResult(r) \/ Offer(r)

Next ==
  \/ \E r \in Request : Send(r) \/ Fork(r) \/ Child(r)
  \/ \E n \in Node : Kill(n)

Spec == Init /\ [][Next]_vars

\* The processes keep running; Masters need not send, nor Workers be killed.
Fairness == \A r \in Request : WF_vars(Fork(r) \/ Child(r))
FairSpec == Spec /\ Fairness
-----------------------------------------------------------------------------
(* Properties.                                                             *)

Inputs(r) == {Ins(r)[k] : k \in DOMAIN Ins(r)}

\* Did another child of the same Worker take its names from the same second?
Alone(r) ==
  \A q \in Request \ {r} : At[q] = At[r] /\ seed[q] # 0 => seed[q] # seed[r]

\* The lines a request is for: those of the block, or of all of its inputs, in
\* order.
Wanted(r) ==
  Sorted(Filter(r, IF Op[r] = "transform"
                   THEN SubSeq(DataBin[At[r]], Block[r] * BlockSize + 1,
                               Block[r] * BlockSize + Bytes[r])
                   ELSE FlattenSeq([k \in DOMAIN Ins(r) |-> output[Ins(r)[k]].lines])))

\* A request that is answered OK has produced the file it was to produce, by
\* its own program, whatever the other children of its Worker did; only a child
\* that took its temporary names from the same second may spoil it
\* (block_transform, reducir_path, path_merge, path_temp).
ResultsRight ==
  \A r \in Request :
    /\ pc[r] = "clean" /\ resp[r] = "ok" /\ Alone(r) =>
         output[r] = [by |-> r, lines |-> Wanted(r)]
    /\ Op[r] = "store" /\ resp[r] = "ok" => stored[r] = output[Ins(r)[1]].lines

\* A child that has finished has left none of its temporary files, unless
\* another one had the same names.
NothingLeft ==
  \A r \in Request : pc[r] = "done" /\ Alone(r) =>
    \A name \in Name : name[1] = seed[r] => tmp[At[r]][name] = None

Excused(r) ==
  \/ ~up[At[r]]
  \/ \E q \in Inputs(r) : ~up[At[q]] \/ (output[q] # None /\ ~Ends(output[q].lines))
NothingPending ==
  \A r \in Request : pc[r] \in {"never", "unsent"} \/ resp[r] # "none" \/ Excused(r)
\* In the end every request that was sent is answered, unless a Worker it needs
\* is killed, or a file it needs cannot be mapped or fills its last page: then
\* the Master waits for ever.
Answered == <>[]NothingPending
=============================================================================
