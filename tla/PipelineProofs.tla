--------------------------- MODULE PipelineProofs ---------------------------
(***************************************************************************)
(* Proofs about the composition.  The lemmas about the tracer are those of  *)
(* PathTracerProofs: a step of the tracer is a step of PathTracer, and what *)
(* is left is what the server's steps do to the shared directory.          *)
(***************************************************************************)
EXTENDS Pipeline, PathTracerProofs

all == <<vars, server>>

LEMMA MsInStem == \A n \in Stamp : Ms(n) \in Stem /\ Ms(n).num = n /\ Ms(n).unit = "ms"
  BY PipelineAssumption DEF Ms

LEMMA MsNotPlain == \A n \in Stamp : \A r : Ms(n) # Plain(r)
  <1> SUFFICES ASSUME NEW n \in Stamp, NEW r, Ms(n) = Plain(r) PROVE FALSE
    OBVIOUS
  <1>1. Ms(n).unit = "ms" /\ Plain(r).unit = ""
    BY DEF Ms, Plain
  <1>2. QED
    BY <1>1

LEMMA MsInjective == \A m, n : Ms(m) = Ms(n) => m = n
  <1> SUFFICES ASSUME NEW m, NEW n, Ms(m) = Ms(n) PROVE m = n
    OBVIOUS
  <1>1. Ms(m).num = m /\ Ms(n).num = n
    BY DEF Ms
  <1>2. QED
    BY <1>1

LEMMA ShownKind ==
  \A f : Shown(f) \in {"torn", "alien", Absent} /\ (Shown(f) = Absent <=> f = Absent)
  BY DEF Shown, Absent, Http!Torn

-----------------------------------------------------------------------------
(* The server's side: a file that is there is never taken away. *)

WrittenOK == written = [n \in Stamp |-> written[n]]

LEMMA WrittenStays ==
  ASSUME WrittenOK, Http!ServerNext
  PROVE  WrittenOK' /\ \A n \in Stamp : written[n] # Absent => written'[n] # Absent
  <1> USE DEF WrittenOK, Http!store, Http!local
  <1>1. ASSUME NEW c \in Client, Http!Receive(c)
        PROVE  written' = written
    BY <1>1 DEF Http!Receive
  <1>2. ASSUME NEW c \in Client,
               \/ Http!CheckJson(c) \/ Http!SkipHandler(c) \/ Http!RunOutgoing(c)
               \/ Http!Health(c)
               \/ Http!RejectSubmit(c) \/ Http!ThrowSubmit(c) \/ Http!FailSubmit(c)
               \/ Http!AcceptSubmit(c)
               \/ Http!ReadClock(c) \/ Http!Accept(c)
               \/ Http!RejectUpload(c) \/ Http!ChooseId(c) \/ Http!FailUpload(c)
               \/ Http!OpenMesh(c) \/ Http!WriteMesh(c)
        PROVE  written' = written
    BY <1>2 DEF Http!CheckJson, Http!SkipHandler, Http!RunOutgoing, Http!Health,
       Http!RejectSubmit, Http!ThrowSubmit, Http!FailSubmit, Http!AcceptSubmit, Http!ReadClock,
       Http!Accept, Http!RejectUpload, Http!ChooseId, Http!FailUpload, Http!OpenMesh, Http!WriteMesh
  <1>3. ASSUME NEW c \in Client, Http!Touch(c) \/ Http!Open(c) \/ Http!Write(c)
        PROVE  WrittenOK' /\ \A n \in Stamp : written[n] # Absent => written'[n] # Absent
    <2>1. c # Absent /\ Http!Torn # Absent
      BY PipelineAssumption DEF Absent, Http!Absent, Http!Torn
    <2>2. \/ written' = written
          \/ \E k, v : v # Absent /\ written' = [written EXCEPT ![k] = v]
          \/ \E k : written' = [written EXCEPT ![k] = IF @ = Absent THEN Http!Torn ELSE @]
      BY <1>3, <2>1 DEF Http!Touch, Http!Open, Http!Write, Http!Absent, Absent
    <2>3. QED
      BY <2>1, <2>2
  <1>4. CASE Http!Tick \/ Http!Crash
    BY <1>4 DEF Http!Tick, Http!Crash
  <1>5. QED
    BY <1>1, <1>2, <1>3, <1>4 DEF Http!ServerNext, Http!Serve

-----------------------------------------------------------------------------
(* Typing, of the tracer's variables and of the server's files. *)

PipeBase == BaseInv /\ WrittenOK

LEMMA HttpBase == ASSUME PipeBase, HttpStep PROVE PipeBase'
  <1>1. WrittenOK'
    BY WrittenStays DEF PipeBase, HttpStep
  <1>2. requests' \in [Stem -> Content \cup {Absent}]
    BY ShownKind DEF PipeBase, BaseInv, TypeOK, HttpStep, Content
  <1>3. arrived' \subseteq Stem
    BY MsInStem DEF PipeBase, BaseInv, TypeOK, HttpStep
  <1>4. QED
    BY <1>1, <1>2, <1>3
    DEF PipeBase, BaseInv, TypeOK, RenderInv, Chosen, Live, HttpStep, poller, workers

LEMMA DropBase == ASSUME PipeBase, NEW s \in ByHand, Drop(s) PROVE PipeBase'
  <1>1. s \in Stem
    BY PipelineAssumption
  <1>2. QED
    BY <1>1 DEF PipeBase, BaseInv, TypeOK, RenderInv, Chosen, Live, Drop, poller, workers, Content,
       WrittenOK, server

LEMMA PipeBaseStep == PipeBase /\ [PipelineNext]_all => PipeBase'
  <1> SUFFICES ASSUME PipeBase, [PipelineNext]_all PROVE PipeBase'
    OBVIOUS
  <1>1. CASE HttpStep
    BY <1>1, HttpBase
  <1>2. CASE TracerStep
    BY <1>2, BaseStep DEF TracerStep, PipeBase, WrittenOK, server, Next
  <1>3. ASSUME NEW s \in ByHand, Drop(s) PROVE PipeBase'
    BY <1>3, DropBase
  <1>4. CASE UNCHANGED all
    BY <1>4, BaseStep DEF all, PipeBase, WrittenOK, server
  <1>5. QED
    BY <1>1, <1>2, <1>3, <1>4 DEF PipelineNext

LEMMA PipeBaseInit == PipelineInit => PipeBase
  BY InitBase DEF PipelineInit, PipeBase, WrittenOK, Http!Init

LEMMA PipeBaseInvariant == PipelineSpec => []PipeBase
  BY PipeBaseInit, PipeBaseStep, PTL DEF PipelineSpec, all

-----------------------------------------------------------------------------
(* The tracer's side: what it does to a file without unit, and to no other. *)

\* A step of the tracer leaves a file of the server where it is.
LEMMA TracerKeeps ==
  ASSUME PipeBase, TracerNext, NEW n \in Stamp, in_progress[Ms(n)] = Absent
  PROVE  /\ requests'[Ms(n)] = requests[Ms(n)]
         /\ in_progress'[Ms(n)] = Absent
         /\ Ms(n) \in done' => Ms(n) \in done
  <1> DEFINE Kept == /\ requests'[Ms(n)] = requests[Ms(n)]
                     /\ in_progress'[Ms(n)] = Absent
                     /\ Ms(n) \in done' => Ms(n) \in done
  <1>0. Ms(n) \in Stem /\ \A r : Ms(n) # Plain(r)
    BY MsInStem, MsNotPlain
  <1>1. CASE UNCHANGED folders
    BY <1>1 DEF folders
  <1>2. CASE Restore
    BY <1>0, <1>2 DEF Restore
  <1>3. ASSUME NEW r \in Request, Move(r) PROVE Kept
    BY <1>0, <1>3 DEF Move, folders, PipeBase, BaseInv, TypeOK
  <1>4. ASSUME NEW r \in Request, Remove(r) PROVE Kept
    BY <1>0, <1>4 DEF Remove, folders, PipeBase, BaseInv, TypeOK
  <1>5. CASE Poll
    <2>1. main = "move" => current_request \in Request
      BY DEF PipeBase, BaseInv, Chosen
    <2>2. QED
      BY <1>1, <1>2, <1>3, <1>5, <2>1 DEF Poll, RestoreInProgress, OpenDirectory, FindEarliest,
         FindOutOfRange, Die, ProbeTaken, ProbeFree, ProbeNone, MoveRequest, Launch
  <1>6. ASSUME NEW t \in Thread, Handle(t) \/ Publish(t) PROVE Kept
    <2>1. pc[t] = "remove" => req[t] \in Request
      BY DEF PipeBase, BaseInv, Chosen, Live
    <2>2. QED
      BY <1>1, <1>4, <1>6, <2>1 DEF Handle, ReadRequest, RejectRequest, Die, StartRender, Publish,
         SeePublished, RemoveRequest, Release, Step
  <1>7. CASE Kill \/ Respawn
    BY <1>1, <1>7 DEF Kill, Die, Respawn
  <1>8. ASSUME NEW c \in Commands, FinishOrphan(c) PROVE Kept
    BY <1>2, <1>3, <1>4, <1>8, CommandReq DEF FinishOrphan
  <1>9. QED
    BY <1>5, <1>6, <1>7, <1>8 DEF TracerNext

LEMMA HttpFrame ==
  ASSUME HttpStep
  PROVE  UNCHANGED <<in_progress, done, main, current_request, listing, pc, req, rendering,
                     curr_gpu_write_count, regiven, rendered>>
  BY DEF HttpStep, poller, workers

\* What a step of the server leaves in the directory.
LEMMA HttpFiles ==
  ASSUME PipeBase, OneDirectory, HttpStep
  PROVE  /\ \A n \in Stamp : requests'[Ms(n)] = Shown(written'[n])
         /\ \A s \in Stem : (\A n \in Stamp : s # Ms(n)) => requests'[s] = requests[s]
  <1>1. \A n \in Stamp : requests'[Ms(n)] = Shown(written'[n])
    BY MsInStem DEF HttpStep, OneDirectory
  <1>2. ASSUME NEW s \in Stem, \A n \in Stamp : s # Ms(n) PROVE requests'[s] = requests[s]
    <2>1. ~(s.unit = "ms" /\ s.num \in Stamp)
      <3> SUFFICES ASSUME s.unit = "ms", s.num \in Stamp PROVE FALSE
        OBVIOUS
      <3>1. s = Ms(s.num)
        BY StemAssumption DEF Ms
      <3>2. QED
        BY <1>2, <3>1
    <2>2. QED
      BY <2>1 DEF HttpStep
  <1>3. QED
    BY <1>1, <1>2

LEMMA DropFiles ==
  ASSUME PipeBase, NEW s \in ByHand, Drop(s)
  PROVE  /\ \A n \in Stamp : requests'[Ms(n)] = requests[Ms(n)]
         /\ UNCHANGED <<in_progress, done, main, current_request, listing, pc, req, rendering,
                        curr_gpu_write_count, rendered, written>>
  <1>1. s \in Stem /\ \A n \in Stamp : s # Ms(n)
    BY PipelineAssumption, MsInStem
  <1>2. QED
    BY <1>1, MsInStem DEF Drop, PipeBase, BaseInv, TypeOK, poller, workers, server

LEMMA OneDirectoryStep == PipeBase /\ OneDirectory /\ [PipelineNext]_all => OneDirectory'
  <1> SUFFICES ASSUME PipeBase, OneDirectory, [PipelineNext]_all PROVE OneDirectory'
    OBVIOUS
  <1>1. CASE HttpStep
    BY <1>1, HttpFiles, HttpFrame DEF OneDirectory
  <1>2. CASE TracerStep
    BY <1>2, TracerKeeps DEF OneDirectory, TracerStep, server
  <1>3. ASSUME NEW s \in ByHand, Drop(s) PROVE OneDirectory'
    BY <1>3, DropFiles DEF OneDirectory
  <1>4. CASE UNCHANGED all
    BY <1>4 DEF OneDirectory, all, vars, folders, server
  <1>5. QED
    BY <1>1, <1>2, <1>3, <1>4 DEF PipelineNext

\* The two programs agree on what is in the directory: whatever the tracer moves,
\* restores or removes, and whenever it dies, no file of the server is touched.
THEOREM SharedDirectory == PipelineSpec => []OneDirectory
  <1>1. PipelineInit => OneDirectory
    BY MsInStem DEF PipelineInit, Init, Http!Init, OneDirectory, Shown, Absent, Http!Absent
  <1>2. QED
    BY <1>1, OneDirectoryStep, PipeBaseInvariant, PTL DEF PipelineSpec, all

-----------------------------------------------------------------------------
(* Where requests are. *)

NotRemoved == \A n \in Stamp : Ms(n) \notin done

LEMMA NotRemovedStep ==
  PipeBase /\ OneDirectory /\ NotRemoved /\ [PipelineNext]_all => NotRemoved'
  <1> SUFFICES ASSUME PipeBase, OneDirectory, NotRemoved, [PipelineNext]_all PROVE NotRemoved'
    OBVIOUS
  <1> USE DEF NotRemoved
  <1>1. CASE HttpStep
    BY <1>1, HttpFrame
  <1>2. CASE TracerStep
    BY <1>2, TracerKeeps DEF TracerStep, OneDirectory
  <1>3. ASSUME NEW s \in ByHand, Drop(s) PROVE NotRemoved'
    BY <1>3, DropFiles
  <1>4. CASE UNCHANGED all
    BY <1>4 DEF all, vars, folders
  <1>5. QED
    BY <1>1, <1>2, <1>3, <1>4 DEF PipelineNext

LEMMA PipeConservationStep ==
  PipeBase /\ OneDirectory /\ NotRemoved /\ Conservation /\ [PipelineNext]_all => Conservation'
  <1> SUFFICES ASSUME PipeBase, OneDirectory, NotRemoved, Conservation, [PipelineNext]_all
               PROVE  Conservation'
    OBVIOUS
  <1>1. CASE HttpStep
    <2> DEFINE Placed(s) ==
          /\ s \in arrived' <=> requests'[s] # Absent \/ in_progress'[s] # Absent \/ s \in done'
          /\ s \notin regiven' =>
               /\ requests'[s] # Absent => in_progress'[s] = Absent /\ s \notin done'
               /\ in_progress'[s] # Absent => s \notin done'
    <2>1. ASSUME NEW n \in Stamp PROVE Placed(Ms(n))
      <3>1. requests[Ms(n)] = Shown(written[n]) /\ in_progress[Ms(n)] = Absent
        BY DEF OneDirectory
      <3>2. requests'[Ms(n)] = Shown(written'[n])
        BY <1>1, HttpFiles
      <3>3. written[n] # Absent => written'[n] # Absent
        BY <1>1, WrittenStays DEF HttpStep, PipeBase
      <3>4. Ms(n) \in arrived' <=> Ms(n) \in arrived \/ written'[n] # Absent
        BY <1>1, MsInjective DEF HttpStep
      <3>5. Ms(n) \in arrived <=> written[n] # Absent
        BY <3>1, MsInStem, ShownKind DEF Conservation, NotRemoved
      <3>6. QED
        BY <1>1, <3>1, <3>2, <3>3, <3>4, <3>5, ShownKind, HttpFrame DEF NotRemoved
    <2>2. ASSUME NEW s \in Stem, \A n \in Stamp : s # Ms(n) PROVE Placed(s)
      <3>1. requests'[s] = requests[s] /\ (s \in arrived' <=> s \in arrived)
        BY <1>1, <2>2, HttpFiles DEF HttpStep
      <3>2. QED
        BY <1>1, <3>1, HttpFrame DEF Conservation
    <2>3. QED
      BY <2>1, <2>2 DEF Conservation
  <1>2. CASE TracerStep
    BY <1>2, ConservationStep DEF TracerStep, PipeBase, Next
  <1>3. ASSUME NEW s \in ByHand, Drop(s) PROVE Conservation'
    BY <1>3, PipelineAssumption DEF Drop, Conservation, PipeBase, BaseInv, TypeOK, Absent
  <1>4. CASE UNCHANGED all
    BY <1>4 DEF all, vars, folders, outside, Conservation
  <1>5. QED
    BY <1>1, <1>2, <1>3, <1>4 DEF PipelineNext

PlaceInv == OneDirectory /\ NotRemoved /\ Conservation

LEMMA PlaceInvariant == PipelineSpec => []PlaceInv
  <1>1. PipelineInit => NotRemoved /\ Conservation
    BY DEF PipelineInit, Init, NotRemoved, Conservation
  <1>2. PipeBase /\ PlaceInv /\ [PipelineNext]_all => PlaceInv'
    BY OneDirectoryStep, NotRemovedStep, PipeConservationStep DEF PlaceInv
  <1>3. PipelineInit => PlaceInv
    BY <1>1, MsInStem
    DEF PlaceInv, PipelineInit, Init, Http!Init, OneDirectory, Shown, Absent, Http!Absent
  <1>4. QED
    BY <1>2, <1>3, PipeBaseInvariant, PTL DEF PipelineSpec, all

\* With the server's files in it too, the directory loses and doubles nothing.
THEOREM PipelineLosesNothing == PipelineSpec => []Conservation
  BY PlaceInvariant, PTL DEF PlaceInv

-----------------------------------------------------------------------------
(* What is rendered came by hand: a handler gets past reading only with a     *)
(* readable file, and the server writes none.                                *)

RenderedInv ==
  /\ \A t \in Thread : pc[t] \in {"start", "wait"} => Plain(req[t]) \in arrived
  /\ \A r \in rendered : Plain(r) \in arrived

LEMMA RenderedTracer ==
  ASSUME PipeBase, Conservation, RenderedInv, TracerNext PROVE RenderedInv'
  <1> USE DEF RenderedInv, folders, poller, workers, outside, Step
  <1>0. TypeOK /\ RenderInv
    BY DEF PipeBase, BaseInv
  <1>1. ASSUME Die PROVE RenderedInv'
    BY <1>1 DEF Die
  <1>2. CASE Poll
    <2>1. ASSUME NEW t \in Thread, Launch(t) PROVE RenderedInv'
      BY <1>0, <2>1 DEF Launch, TypeOK
    <2>2. QED
      BY <1>1, <1>2, <2>1 DEF Poll, RestoreInProgress, OpenDirectory, FindEarliest, FindOutOfRange,
         ProbeTaken, ProbeFree, ProbeNone, MoveRequest
  <1>3. ASSUME NEW t \in Thread, Handle(t) \/ Publish(t) PROVE RenderedInv'
    <2>1. CASE ReadRequest(t)
      <3>1. req[t] \in Request
        BY <2>1 DEF PipeBase, BaseInv, Chosen, Live, ReadRequest
      <3>2. Plain(req[t]) \in arrived
        BY <2>1, <3>1, PlainInStem DEF ReadRequest, Conservation, Absent
      <3>3. QED
        BY <1>0, <2>1, <3>2 DEF ReadRequest, TypeOK
    <2>2. CASE RejectRequest(t)
      BY <1>1, <2>2 DEF RejectRequest
    <2>3. CASE StartRender(t)
      BY <1>0, <2>3 DEF StartRender, TypeOK
    <2>4. CASE SeePublished(t) \/ RemoveRequest(t) \/ Release(t)
      BY <1>0, <2>4 DEF SeePublished, RemoveRequest, Release, TypeOK
    <2>5. CASE Publish(t)
      BY <1>0, <2>5 DEF Publish, RenderInv
    <2>6. QED
      BY <1>3, <2>1, <2>2, <2>3, <2>4, <2>5 DEF Handle
  <1>4. CASE Kill \/ Respawn \/ \E c \in Commands : FinishOrphan(c)
    BY <1>1, <1>4 DEF Kill, Respawn, FinishOrphan
  <1>5. QED
    BY <1>2, <1>3, <1>4 DEF TracerNext

LEMMA RenderedStep == PipeBase /\ PlaceInv /\ RenderedInv /\ [PipelineNext]_all => RenderedInv'
  <1> SUFFICES ASSUME PipeBase, PlaceInv, RenderedInv, [PipelineNext]_all PROVE RenderedInv'
    OBVIOUS
  <1>1. CASE HttpStep
    BY <1>1, HttpFrame DEF RenderedInv, HttpStep
  <1>2. CASE TracerStep
    BY <1>2, RenderedTracer DEF TracerStep, PlaceInv
  <1>3. ASSUME NEW s \in ByHand, Drop(s) PROVE RenderedInv'
    BY <1>3, DropFiles DEF RenderedInv, Drop
  <1>4. CASE UNCHANGED all
    BY <1>4 DEF RenderedInv, all, vars, workers, outside
  <1>5. QED
    BY <1>1, <1>2, <1>3, <1>4 DEF PipelineNext

SubmissionsNotRendered ==
  \A n \in Stamp : Ms(n) \notin done /\ (n \in rendered => Plain(n) \in arrived)

\* Why WaitingRendered fails, and not in one behaviour but in all: the only file of
\* the server's that a tracer could read is one it never looks for, so a number is
\* rendered only if a file of that name came by hand, and no submission is removed.
THEOREM NeverRendered == PipelineSpec => []SubmissionsNotRendered
  <1>1. PipelineInit => RenderedInv
    BY DEF PipelineInit, Init, RenderedInv
  <1>2. PlaceInv /\ RenderedInv => SubmissionsNotRendered
    BY DEF PlaceInv, NotRemoved, RenderedInv, SubmissionsNotRendered
  <1>3. QED
    BY <1>1, <1>2, RenderedStep, PipeBaseInvariant, PlaceInvariant, PTL DEF PipelineSpec, all

-----------------------------------------------------------------------------
(* ... and why the other request waits as well: a submission stays the first *)
(* for ever, and keeps back those behind it.                                 *)

Choosing == main \in {"probe", "move", "launch"}
SubmissionsBlock ==
  \A n \in Stamp :
    [](requests[Ms(n)] # Absent /\ main \in {"dead", "restore", "scan"}
         => [](Choosing => n <= IntMax /\ current_request <= n))

\* A submission lies in the directory, and the tracer has not chosen since, or has
\* seen it when it chose.
Blocked(n) ==
  /\ requests[Ms(n)] # Absent
  /\ main \notin {"dead", "restore", "scan"} =>
       \/ main = "list" /\ Ms(n) \in listing
       \/ Choosing /\ n <= IntMax /\ current_request <= n

LEMMA BlockedTracer ==
  ASSUME PipeBase, OneDirectory, NEW n \in Stamp, Blocked(n), TracerNext PROVE Blocked(n)'
  <1> USE DEF Blocked, Choosing, folders, poller, workers
  <1>0. requests'[Ms(n)] = requests[Ms(n)] /\ Ms(n) \in Stem /\ Ms(n).num = n
    BY TracerKeeps, MsInStem DEF OneDirectory
  <1>1. ASSUME Die PROVE Blocked(n)'
    BY <1>0, <1>1 DEF Die
  <1>2. CASE Poll
    <2>1. CASE OpenDirectory
      BY <1>0, <2>1 DEF OpenDirectory, Present
    <2>2. ASSUME NEW seen \in SUBSET Stem, FindEarliest(seen) PROVE Blocked(n)'
      <3>1. Ms(n) \in seen
        BY <1>0, <2>2 DEF FindEarliest, Entries, Present
      <3>2. n <= IntMax /\ main' = "probe" /\ current_request' <= n
        BY <1>0, <2>2, <3>1 DEF FindEarliest
      <3>3. QED
        BY <1>0, <3>2
    <2>3. ASSUME NEW seen \in SUBSET Stem, FindOutOfRange(seen) PROVE Blocked(n)'
      BY <1>1, <2>3 DEF FindOutOfRange
    <2>4. CASE RestoreInProgress
      BY <1>0, <2>4 DEF RestoreInProgress
    <2>5. CASE ProbeTaken \/ ProbeFree \/ ProbeNone
      BY <1>0, <2>5 DEF ProbeTaken, ProbeFree, ProbeNone
    <2>6. CASE MoveRequest
      BY <1>0, <2>6 DEF MoveRequest
    <2>7. ASSUME NEW t \in Thread, Launch(t) PROVE Blocked(n)'
      BY <1>0, <2>7 DEF Launch
    <2>8. QED
      BY <1>2, <2>1, <2>2, <2>3, <2>4, <2>5, <2>6, <2>7 DEF Poll
  <1>3. ASSUME NEW t \in Thread, Handle(t) \/ Publish(t) PROVE Blocked(n)'
    BY <1>0, <1>1, <1>3 DEF Handle, ReadRequest, RejectRequest, StartRender, Publish, SeePublished,
       RemoveRequest, Release
  <1>4. CASE Kill \/ Respawn \/ \E c \in Commands : FinishOrphan(c)
    BY <1>0, <1>1, <1>4 DEF Kill, Respawn, FinishOrphan
  <1>5. QED
    BY <1>2, <1>3, <1>4 DEF TracerNext

LEMMA BlockedStep ==
  ASSUME NEW n \in Stamp
  PROVE  PipeBase /\ OneDirectory /\ Blocked(n) /\ [PipelineNext]_all => Blocked(n)'
  <1> SUFFICES ASSUME PipeBase, OneDirectory, Blocked(n), [PipelineNext]_all PROVE Blocked(n)'
    OBVIOUS
  <1>1. CASE HttpStep
    <2>1. written[n] # Absent /\ requests'[Ms(n)] = Shown(written'[n])
      BY <1>1, HttpFiles, ShownKind DEF OneDirectory, Blocked
    <2>2. requests'[Ms(n)] # Absent
      BY <1>1, <2>1, WrittenStays, ShownKind DEF PipeBase, HttpStep
    <2>3. QED
      BY <1>1, <2>2, HttpFrame DEF Blocked, Choosing
  <1>2. CASE TracerStep
    BY <1>2, BlockedTracer DEF TracerStep
  <1>3. ASSUME NEW s \in ByHand, Drop(s) PROVE Blocked(n)'
    BY <1>3, DropFiles DEF Blocked, Choosing
  <1>4. CASE UNCHANGED all
    BY <1>4 DEF Blocked, Choosing, all, vars, folders, poller
  <1>5. QED
    BY <1>1, <1>2, <1>3, <1>4 DEF PipelineNext

\* From the moment a submission is in the directory and the tracer is not in the middle
\* of an iteration, no request with a larger number is chosen again, in this process or
\* in a later one, and none at all if the submission's number is more than an int holds.
THEOREM Blocks == PipelineSpec => SubmissionsBlock
  <1>1. ASSUME NEW n \in Stamp
        PROVE  PipelineSpec =>
                 [](requests[Ms(n)] # Absent /\ main \in {"dead", "restore", "scan"}
                      => [](Choosing => n <= IntMax /\ current_request <= n))
    <2>1. requests[Ms(n)] # Absent /\ main \in {"dead", "restore", "scan"} => Blocked(n)
      BY DEF Blocked
    <2>2. Blocked(n) => (Choosing => n <= IntMax /\ current_request <= n)
      BY DEF Blocked, Choosing
    <2>3. PipeBase /\ OneDirectory /\ Blocked(n) /\ [PipelineNext]_all => Blocked(n)'
      BY BlockedStep
    <2>4. QED
      BY <2>1, <2>2, <2>3, PipeBaseInvariant, SharedDirectory, PTL DEF PipelineSpec, all
  <1>2. QED
    BY <1>1 DEF SubmissionsBlock

-----------------------------------------------------------------------------
(* The composition takes nothing from the server and adds nothing to it.     *)

\* Every behaviour of the composition is one of the http-server alone, over the files
\* it has written: what is proved of HttpServer holds here too.
THEOREM ServerUnchanged == PipelineSpec => Http!Spec
  <1>1. PipelineInit => Http!Init
    BY DEF PipelineInit
  <1>2. [PipelineNext]_all => [Http!ServerNext]_(Http!vars)
    BY DEF PipelineNext, HttpStep, TracerStep, Drop, all, server, Http!vars, Http!local, Http!store
  <1>3. QED
    BY <1>1, <1>2, PTL DEF PipelineSpec, Http!Spec, all

-----------------------------------------------------------------------------
(* What HttpServerProofs proves of the server holds of its part of the        *)
(* composition.  Server and Http name the same module.                      *)

Server == INSTANCE HttpServerProofs WITH requests <- written

LEMMA ServerAssumption ==
  /\ Stamp \subseteq Nat
  /\ ZeroId \in MeshId
  /\ Sent \subseteq Server!Message
  /\ DiskFails \in BOOLEAN /\ EntropyFails \in BOOLEAN
  /\ MaxCrashes \in Nat
  /\ Client \cap {Server!Absent, Server!Torn} = {}
  /\ Server!None \notin MeshId
  BY PipelineAssumption
  DEF Server!Absent, Http!Absent, Server!Torn, Http!Torn, Server!None, Http!None, Server!Body,
      Http!Body, Server!Message, Http!Message

LEMMA SameServer == Http!Spec => Server!Spec
  <1>1. (Http!Init => Server!Init) /\ (Http!ServerNext => Server!ServerNext)
    BY DEF Server!Absent, Http!Absent, Server!Torn, Http!Torn, Server!None, Http!None,
           Server!store, Http!store, Server!local, Http!local, Server!vars, Http!vars,
           Server!Go, Http!Go, Server!Answer, Http!Answer, Server!IsScene, Http!IsScene,
           Server!Known, Http!Known, Server!Receive, Http!Receive, Server!Malformed,
           Http!Malformed, Server!CheckJson, Http!CheckJson, Server!SkipHandler,
           Http!SkipHandler, Server!Enter, Http!Enter, Server!RunOutgoing, Http!RunOutgoing,
           Server!Health, Http!Health, Server!Accepts, Http!Accepts, Server!RejectSubmit,
           Http!RejectSubmit, Server!ThrowSubmit, Http!ThrowSubmit, Server!FailSubmit, Http!FailSubmit, Server!AcceptSubmit,
           Http!AcceptSubmit, Server!ReadClock, Http!ReadClock, Server!Touch, Http!Touch,
           Server!Open, Http!Open, Server!Write, Http!Write, Server!Accept, Http!Accept,
           Server!RejectUpload, Http!RejectUpload, Server!Unused, Http!Unused, Server!ChooseId,
           Http!ChooseId, Server!FailUpload, Http!FailUpload, Server!OpenMesh, Http!OpenMesh,
           Server!WriteMesh, Http!WriteMesh, Server!Tick, Http!Tick, Server!Crash, Http!Crash,
           Server!Init, Http!Init, Server!Serve, Http!Serve, Server!ServerNext, Http!ServerNext
  <1>2. UNCHANGED Http!vars => UNCHANGED Server!vars
    BY DEF Server!vars, Http!vars, Server!local, Http!local, Server!store, Http!store
  <1>3. [Http!ServerNext]_(Http!vars) => [Server!ServerNext]_(Server!vars)
    BY <1>1, <1>2
  <1>4. QED
    BY <1>1, <1>3, PTL DEF Http!Spec, Server!Spec

\* If the disk does not fail, a submission answered 200 stays in the directory, whole,
\* whichever of the two processes dies and starts again, for every number of clients,
\* threads, slots and deaths, unless another submission took its millisecond.
THEOREM AcceptedStays == ASSUME DiskFails = FALSE PROVE PipelineSpec => []AcceptedStaysQueued
  <1>1. Server!Spec => [](Server!StoredUnlessShared /\ Server!IInv)
    <2>1. Server!Spec => []Server!StoredUnlessShared
      BY Server!Stored, ServerAssumption
    <2>2. Server!Spec => []Server!IInv
      BY Server!Invariant, ServerAssumption
    <2>3. QED
      BY <2>1, <2>2, PTL
  <1>2. OneDirectory /\ Server!StoredUnlessShared /\ Server!IInv => AcceptedStaysQueued
    <2> SUFFICES ASSUME OneDirectory, Server!StoredUnlessShared, Server!IInv, NEW c \in Client,
                        Http!IsScene(c), Http!Done(c, 200), Http!Alone(c)
                 PROVE  requests[Ms(stamp[c])] = "alien"
      BY DEF AcceptedStaysQueued
    <2>1. Server!IsScene(c) /\ Server!Done(c, 200) /\ Server!Alone(c)
      BY DEF Server!IsScene, Server!Done, Server!Alone, Http!IsScene, Http!Done, Http!Alone
    <2>2. written[stamp[c]] = c
      BY <2>1 DEF Server!StoredUnlessShared
    <2>3. stamp[c] \in Stamp
      <3>1. Server!TypeOK /\ Server!Path(c)
        BY DEF Server!IInv, Server!PathInv
      <3>2. stamp[c] # Server!None
        BY <2>1, <3>1 DEF Server!Path, Server!Done, Server!IsScene
      <3>3. QED
        BY <3>1, <3>2 DEF Server!TypeOK
    <2>4. c # Absent /\ c # Http!Torn
      BY PipelineAssumption DEF Absent
    <2>5. QED
      BY <2>2, <2>3, <2>4 DEF OneDirectory, Shown
  <1>3. QED
    BY <1>1, <1>2, SharedDirectory, ServerUnchanged, SameServer, PTL
=============================================================================
