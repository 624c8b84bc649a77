------------------------------ MODULE MeshQueue ------------------------------
(***************************************************************************)
(* The meshes of a client's blocks: asked for by the draw list, by blocks  *)
(* that arrive and by nodes that change, made by worker threads from two   *)
(* queues, and put into the blocks by Client::step().  A block counts its  *)
(* changes by a revision, and a mesh has the newest one of all the blocks  *)
(* it was made from.                                                       *)
(*                                                                         *)
(* A mesh covers one block (client_mesh_chunk = 1) and none is empty; all  *)
(* blocks are loaded and in range.  The loop that raises the revisions of  *)
(* a block and its neighbours is one step, and so is the copying of the    *)
(* blocks a mesh is made from: the maximum it reads is one that a single   *)
(* reading could have read.                                                *)
(***************************************************************************)
EXTENDS Integers, Sequences, FiniteSets, SequencesExt

CONSTANTS
  Meshes,         \* positions of blocks
  Faces,          \* the pairs of blocks with a common side
  Touching,       \* the pairs of which one's mesh is made with the other
  Workers,        \* the threads for m_queue_in
  UrgentWorker,   \* the thread for m_queue_in_urgent
  Lods,           \* levels of detail
  MaxRevision, MaxTurns, MaxResults,  \* bounds
  NoMesh

ASSUME MeshAssumption ==
  /\ Faces \subseteq Touching /\ Touching \subseteq Meshes \X Meshes
  /\ \A p, q \in Meshes : <<p, q>> \in Touching <=> <<q, p>> \in Touching
  /\ UrgentWorker \notin Workers /\ Lods \subseteq Nat /\ 0 \in Lods
  /\ MaxRevision \in Nat /\ MaxTurns \in Nat /\ MaxResults \in Nat
  /\ NoMesh \notin Meshes /\ IsFiniteSet(Meshes)

VARIABLES
  revision,   \* m_mesh_revision of each block
  newest,     \* m_next_mesh_revision
  requested,  \* m_mesh_requested
  lodMesh,    \* m_lod_mesh: the revision of each mesh, or 0
  wanted,     \* the level of detail the camera asks for
  queue,      \* m_queue of each MeshUpdateQueue
  urgents,    \* m_urgents of each
  inflight,   \* m_inflight_blocks of each
  work,       \* what each worker makes
  results,    \* m_queue_out and m_queue_out_urgent
  turns       \* turns of the camera and edits so far

meshVars == <<revision, newest, requested, lodMesh, wanted, queue, urgents,
              inflight, work, results, turns>>

blockVars == <<revision, newest, lodMesh>>
queueVars == <<queue, urgents>>

Queues    == {"normal", "urgent"}
Makers    == Workers \cup {UrgentWorker}
QueueOf(w) == IF w = UrgentWorker THEN "urgent" ELSE "normal"
OutOf(r)   == IF r.urgent THEN "urgent" ELSE "normal"

Around(p) == {p} \cup {q \in Meshes : <<p, q>> \in Touching}
Beside(p) == {p} \cup {q \in Meshes : <<p, q>> \in Faces}

LargestOf(p) == CHOOSE r \in {revision[q] : q \in Around(p)} :
                  \A q \in Around(p) : revision[q] <= r

Idle == [at |-> "idle", p |-> NoMesh]
Unspecified == -1

MeshesInit ==
  /\ revision = [p \in Meshes |-> 1] /\ newest = 1
  /\ requested = [p \in Meshes |-> [revision |-> 0, lod |-> 0]]
  /\ lodMesh = [p \in Meshes |-> [l \in Lods |-> 0]]
  /\ wanted = [p \in Meshes |-> 0]
  /\ queue = [k \in Queues |-> <<>>]
  /\ urgents = [k \in Queues |-> {}] /\ inflight = [k \in Queues |-> {}]
  /\ work = [w \in Makers |-> Idle]
  /\ results = [k \in Queues |-> <<>>]
  /\ turns = 0

-----------------------------------------------------------------------------
(* MeshUpdateQueue::addBlock() on the content of one queue, block by block. *)

Queued(entries) == {entries[i].p : i \in DOMAIN entries}

Merged(entry, lod, urgent) ==
  [entry EXCEPT !.lod = IF lod = Unspecified THEN @ ELSE lod, !.urgent = @ \/ urgent]

AddBlocks(entries, ps, lod, urgent) ==
  LET new == SetToSeq(ps \ Queued(entries)) IN
  [i \in DOMAIN entries |-> IF entries[i].p \in ps THEN Merged(entries[i], lod, urgent)
                                                    ELSE entries[i]]
    \o [i \in DOMAIN new |-> [p |-> new[i], lod |-> lod, urgent |-> urgent]]

(* For a mutant: a block of air stays among the urgent ones. *)
UrgentAnyway(marked, added, skipped) == marked \cup added

UrgentAfter(marked, added, skipped) == (marked \cup added) \ skipped

(* updateBlock(), with the neighbours in edge.  Those that are air and not
   queued already are skipped. *)
UpdateBlock(p, lod, urgent, edge) ==
  LET k     == IF urgent THEN "urgent" ELSE "normal"
      own   == [queue EXCEPT ![k] = AddBlocks(@, {p}, lod, urgent)]
      fresh == edge \ Queued(own["normal"])
  IN \E air \in SUBSET fresh :
       /\ queue' = [own EXCEPT !["normal"] = AddBlocks(@, edge \ air, Unspecified, urgent)]
       /\ urgents' = [k2 \in Queues |->
                        UrgentAfter(urgents[k2],
                                    {q \in {p} \cup edge : urgent /\ k2 = IF q = p THEN k ELSE "normal"},
                                    IF k2 = "normal" THEN air ELSE {})]

-----------------------------------------------------------------------------
(* Who asks. *)

(* A block arrives; one that is near is asked for at once, a solid one with its
   neighbours, of the others the draw list sees the revision. *)
ReceiveMeshBlock(p) ==
  /\ newest < MaxRevision /\ newest' = newest + 1
  /\ revision' = [q \in Meshes |-> IF q \in Beside(p) THEN newest + 1 ELSE revision[q]]
  /\ \/ \E edge \in {{}, Around(p) \ {p}} : UpdateBlock(p, Unspecified, FALSE, edge)
     \/ UNCHANGED queueVars
  /\ UNCHANGED <<requested, lodMesh, wanted, inflight, work, results, turns>>

(* A node is added, or removed, near the player: no revision is raised.  The
   blocks it changes are asked for one by one. *)
EditMeshNode(p) ==
  /\ turns < MaxTurns /\ turns' = turns + 1
  /\ \E edge \in {{}, Around(p) \ {p}} : UpdateBlock(p, Unspecified, TRUE, edge)
  /\ UNCHANGED <<blockVars, requested, wanted, inflight, work, results>>

TurnCamera(p, lod) ==
  /\ turns < MaxTurns /\ turns' = turns + 1
  /\ wanted' = [wanted EXCEPT ![p] = lod]
  /\ UNCHANGED <<blockVars, requested, queueVars, inflight, work, results>>

(* tryMarkMeshRequested() *)
MayMark(p) ==
  /\ requested[p].revision <= revision[p]
  /\ requested[p] # [revision |-> revision[p], lod |-> wanted[p]]

IsOld(p) == lodMesh[p][wanted[p]] < revision[p]

(* request_mesh of ClientMap::updateDrawList *)
RequestMesh(p) ==
  /\ IsOld(p) /\ MayMark(p)
  /\ requested' = [requested EXCEPT ![p] = [revision |-> revision[p], lod |-> wanted[p]]]
  /\ UpdateBlock(p, wanted[p], FALSE,
                 IF lodMesh[p][wanted[p]] # 0 /\ wanted[p] <= 1 THEN Around(p) \ {p} ELSE {})
  /\ UNCHANGED <<blockVars, wanted, inflight, work, results, turns>>

-----------------------------------------------------------------------------
(* The workers. *)

NotInFlight(k, p) == p \notin inflight[k]

MayPop(k, i) ==
  /\ urgents[k] # {} => queue[k][i].p \in urgents[k]
  /\ NotInFlight(k, queue[k][i].p)

Pop(w) ==
  LET k == QueueOf(w) IN
  /\ work[w] = Idle
  /\ \E i \in DOMAIN queue[k] :
       /\ MayPop(k, i) /\ \A j \in 1..(i - 1) : ~ MayPop(k, j)
       /\ queue' = [queue EXCEPT ![k] = RemoveAt(@, i)]
       /\ urgents' = [urgents EXCEPT ![k] = @ \ {queue[k][i].p}]
       /\ inflight' = [inflight EXCEPT ![k] = @ \cup {queue[k][i].p}]
       /\ work' = [work EXCEPT ![w] = [at |-> "fill", p |-> queue[k][i].p, lod |-> queue[k][i].lod,
                                       urgent |-> queue[k][i].urgent, revision |-> 0]]
  /\ UNCHANGED <<blockVars, requested, wanted, results, turns>>

FillDataFromMapBlocks(w) ==
  /\ work[w].at = "fill"
  /\ work' = [work EXCEPT ![w].at = "make", ![w].revision = LargestOf(work[w].p),
                         ![w].lod = IF @ = Unspecified THEN wanted[work[w].p] ELSE @]
  /\ UNCHANGED <<blockVars, requested, wanted, queueVars, inflight, results, turns>>

(* updateBlock, putResult() and done(). *)
PutResult(w) ==
  /\ work[w].at = "make"
  /\ LET r == [p |-> work[w].p, lod |-> work[w].lod, revision |-> work[w].revision,
               urgent |-> work[w].urgent] IN
       /\ Len(results[OutOf(r)]) < MaxResults
       /\ results' = [results EXCEPT ![OutOf(r)] = Append(@, r)]
  /\ inflight' = [inflight EXCEPT ![QueueOf(w)] = @ \ {work[w].p}]
  /\ work' = [work EXCEPT ![w] = Idle]
  /\ UNCHANGED <<blockVars, requested, wanted, queueVars, turns>>

-----------------------------------------------------------------------------
(* Client::step() *)

(* For a mutant: a result is let go although nothing is newer. *)
IsUpToDateStrictly(r) == r.revision > LargestOf(r.p)

IsUpToDate(r) == r.revision >= LargestOf(r.p)

ReplaceMesh ==
  LET k == IF results["urgent"] # <<>> THEN "urgent" ELSE "normal" IN
  /\ results[k] # <<>>
  /\ results' = [results EXCEPT ![k] = Tail(@)]
  /\ LET r == Head(results[k]) IN
       IF IsUpToDate(r)
       THEN /\ revision' = [revision EXCEPT ![r.p] = r.revision]
            /\ lodMesh' = [lodMesh EXCEPT ![r.p][r.lod] = r.revision]
       ELSE UNCHANGED <<revision, lodMesh>>
  /\ UNCHANGED <<newest, requested, wanted, queueVars, inflight, work, turns>>

MeshesNext ==
  \/ \E p \in Meshes :
       \/ ReceiveMeshBlock(p) \/ EditMeshNode(p) \/ RequestMesh(p)
       \/ \E lod \in Lods \ {wanted[p]} : TurnCamera(p, lod)
  \/ \E w \in Makers : Pop(w) \/ FillDataFromMapBlocks(w) \/ PutResult(w)
  \/ ReplaceMesh

MeshesSpec == MeshesInit /\ [][MeshesNext]_meshVars

-----------------------------------------------------------------------------
(* pop() takes nothing but urgent blocks while there are any: one that is not
   in the queue would stop its workers for ever. *)
UrgentsQueued == \A k \in Queues : urgents[k] \subseteq Queued(queue[k])

IsUnderWay(p, lod) ==
  \/ \E k \in Queues : \E i \in DOMAIN queue[k] :
       queue[k][i].p = p /\ queue[k][i].lod \in {lod, Unspecified}
  \/ \E w \in Makers :
       work[w].at \in {"fill", "make"} /\ work[w].p = p /\ work[w].lod \in {lod, Unspecified}
  \/ \E k \in Queues : \E i \in DOMAIN results[k] :
       results[k][i].p = p /\ results[k][i].lod = lod

(* A block has a mesh of its revision, or the draw list may ask for one, or
   one is on its way; else a result was let go, and then for the sake of a
   block around it that is newer. *)
GivenUpForNewer ==
  \A p \in Meshes :
    IsOld(p) /\ ~ MayMark(p) /\ ~ IsUnderWay(p, wanted[p])
      => \E q \in Around(p) : revision[q] > revision[p]
=============================================================================
