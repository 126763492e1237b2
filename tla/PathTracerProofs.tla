-------------------------- MODULE PathTracerProofs --------------------------
(***************************************************************************)
(* Theorems about PathTracer, for every number of slots, threads and files. *)
(***************************************************************************)
EXTENDS PathTracer, TLAPS

LEMMA PlainInStem == \A r \in Request : Plain(r) \in Stem /\ Plain(r).num = r
  BY StemAssumption DEF Request, Plain

LEMMA ZeroSlot ==
  0 \in Slot /\ Slot \subseteq Int /\ 0 \in 0 .. MaxRequests /\ 0 \in 0 .. MaxKills
  BY SizeAssumption DEF Slot

LEMMA CommandReq == \A c \in Commands : c.op \in {"move", "remove"} => c.req \in Request
  BY DEF Commands

-----------------------------------------------------------------------------
(* What a shell command does to the typing of the folders. *)

FoldersOK ==
  /\ requests \in [Stem -> Content \cup {Absent}]
  /\ in_progress \in [Stem -> Content \cup {Absent}]
  /\ done \subseteq Stem

LEMMA RestoreOK == FoldersOK /\ Restore => FoldersOK'
  BY DEF FoldersOK, Restore

LEMMA MoveOK == ASSUME FoldersOK, NEW r \in Request, Move(r) PROVE FoldersOK'
  BY PlainInStem DEF FoldersOK, Move, folders

LEMMA RemoveOK == ASSUME FoldersOK, NEW r \in Request, Remove(r) PROVE FoldersOK'
  BY PlainInStem DEF FoldersOK, Remove, folders

LEMMA OrphanOK == ASSUME FoldersOK, orphans \subseteq Commands, NEW c \in Commands, FinishOrphan(c)
                  PROVE  FoldersOK'
  BY RestoreOK, MoveOK, RemoveOK, CommandReq DEF FinishOrphan

-----------------------------------------------------------------------------
(* Typing, with what it needs to be inductive. *)

\* A published count is what lets a handler leave its loop, so a renderer that
\* still has to publish has count 0 and a waiting handler.
RenderInv == \A t \in rendering : pc[t] = "wait" /\ curr_gpu_write_count[t] = 0

\* Inside an iteration of the loop, and inside a handler, a request is chosen;
\* past the probing, a slot is.
Chosen ==
  /\ main \in {"probe", "move", "launch"} => current_request \in Request
  /\ main \in {"move", "launch"} => buffer_to_use \in Slot
  /\ \A t \in Thread : Live(t) => req[t] \in Request

BaseInv == TypeOK /\ RenderInv /\ Chosen

\* The end of the process re-establishes every invariant about its memory.
LEMMA DieBase == ASSUME BaseInv, Die, kills' \in 0 .. MaxKills PROVE BaseInv'
  <1> USE DEF BaseInv
  <1>1. Pending \subseteq Commands
    BY DEF Pending
  <1>2. TypeOK'
    BY <1>1, ZeroSlot DEF Die, TypeOK, folders, MainPc, WorkerPc
  <1>3. RenderInv' /\ Chosen'
    BY DEF Die, RenderInv, Chosen, Live, None
  <1>4. QED
    BY <1>2, <1>3

LEMMA InitBase == Init => BaseInv
  <1> SUFFICES ASSUME Init PROVE BaseInv
    OBVIOUS
  <1>1. TypeOK
    BY ZeroSlot DEF Init, TypeOK, MainPc, WorkerPc
  <1>2. RenderInv /\ Chosen
    BY DEF Init, RenderInv, Chosen, Live
  <1>3. QED
    BY <1>1, <1>2 DEF BaseInv

LEMMA PollBase == BaseInv /\ Poll => BaseInv'
  <1> SUFFICES ASSUME BaseInv, Poll PROVE BaseInv'
    OBVIOUS
  <1> USE DEF BaseInv, folders, poller, workers, outside
  <1>1. CASE RestoreInProgress
    <2>1. FoldersOK'
      BY <1>1, RestoreOK DEF RestoreInProgress, TypeOK, FoldersOK
    <2>2. QED
      BY <1>1, <2>1 DEF RestoreInProgress, TypeOK, FoldersOK, RenderInv, Chosen, Live, MainPc
  <1>2. CASE OpenDirectory
    BY <1>2 DEF OpenDirectory, TypeOK, RenderInv, Chosen, Live, MainPc, Present
  <1>3. ASSUME NEW seen \in SUBSET Stem, FindEarliest(seen) PROVE BaseInv'
    <2>1. CASE seen = {}
      BY <1>3, <2>1 DEF FindEarliest, TypeOK, RenderInv, Chosen, Live, MainPc
    <2>2. CASE seen # {}
      <3>1. current_request' \in Request /\ buffer_to_use' = 0 /\ main' = "probe"
        BY <1>3, <2>2 DEF FindEarliest, Request
      <3>2. QED
        BY <1>3, <3>1, ZeroSlot DEF FindEarliest, TypeOK, RenderInv, Chosen, Live, MainPc
    <2>3. QED
      BY <2>1, <2>2
  <1>4. ASSUME NEW seen \in SUBSET Stem, FindOutOfRange(seen) PROVE BaseInv'
    BY <1>4, DieBase DEF FindOutOfRange, TypeOK
  <1>5. CASE ProbeTaken
    <2>1. buffer_to_use' \in 0 .. MaxRequests
      BY <1>5, SizeAssumption DEF ProbeTaken, TypeOK
    <2>2. QED
      BY <1>5, <2>1 DEF ProbeTaken, TypeOK, RenderInv, Chosen, Live, MainPc
  <1>6. CASE ProbeFree
    <2>1. buffer_to_use \in Slot
      BY <1>6, SizeAssumption DEF ProbeFree, TypeOK, Slot
    <2>2. QED
      BY <1>6, <2>1 DEF ProbeFree, TypeOK, RenderInv, Chosen, Live, MainPc
  <1>7. CASE ProbeNone
    BY <1>7 DEF ProbeNone, TypeOK, RenderInv, Chosen, Live, MainPc
  <1>8. CASE MoveRequest
    <2>1. FoldersOK'
      BY <1>8, MoveOK DEF MoveRequest, TypeOK, FoldersOK, Chosen
    <2>2. QED
      BY <1>8, <2>1 DEF MoveRequest, TypeOK, FoldersOK, RenderInv, Chosen, Live, MainPc
  <1>9. ASSUME NEW t \in Thread, Launch(t) PROVE BaseInv'
    <2>1. t \notin rendering
      BY <1>9 DEF Launch, RenderInv
    <2>2. QED
      BY <1>9, <2>1 DEF Launch, TypeOK, RenderInv, Chosen, Live, MainPc, WorkerPc
  <1>10. QED
    BY <1>1, <1>2, <1>3, <1>4, <1>5, <1>6, <1>7, <1>8, <1>9 DEF Poll

LEMMA HandleBase == ASSUME BaseInv, NEW t \in Thread, Handle(t) \/ Publish(t) PROVE BaseInv'
  <1> USE DEF BaseInv, folders, poller, workers, outside
  <1>1. CASE ReadRequest(t)
    BY <1>1 DEF ReadRequest, Step, TypeOK, RenderInv, Chosen, Live, WorkerPc
  <1>2. CASE RejectRequest(t)
    BY <1>2, DieBase DEF RejectRequest, TypeOK
  <1>3. CASE StartRender(t)
    BY <1>3 DEF StartRender, Step, TypeOK, RenderInv, Chosen, Live, WorkerPc
  <1>4. CASE SeePublished(t)
    <2>1. t \notin rendering
      BY <1>4 DEF SeePublished, RenderInv
    <2>2. QED
      BY <1>4, <2>1 DEF SeePublished, Step, TypeOK, RenderInv, Chosen, Live, WorkerPc
  <1>5. CASE RemoveRequest(t)
    <2>1. FoldersOK'
      BY <1>5, RemoveOK DEF RemoveRequest, Step, TypeOK, FoldersOK, Chosen, Live
    <2>2. t \notin rendering
      BY <1>5 DEF RemoveRequest, Step, RenderInv
    <2>3. QED
      BY <1>5, <2>1, <2>2
      DEF RemoveRequest, Step, TypeOK, FoldersOK, RenderInv, Chosen, Live, WorkerPc
  <1>6. CASE Release(t)
    <2>1. t \notin rendering
      BY <1>6 DEF Release, Step, RenderInv
    <2>2. QED
      BY <1>6, <2>1 DEF Release, Step, TypeOK, RenderInv, Chosen, Live, WorkerPc
  <1>7. CASE Publish(t)
    <2>1. req[t] \in Request
      BY <1>7 DEF Publish, RenderInv, Chosen, Live
    <2>2. QED
      BY <1>7, <2>1 DEF Publish, TypeOK, RenderInv, Chosen, Live, WorkerPc
  <1>8. QED
    BY <1>1, <1>2, <1>3, <1>4, <1>5, <1>6, <1>7 DEF Handle

LEMMA EnvironmentBase ==
  ASSUME BaseInv,
         \/ \E s \in Stem, c \in Kinds : Arrive(s, c)
         \/ Kill
         \/ Respawn
         \/ \E c \in Commands : FinishOrphan(c)
  PROVE  BaseInv'
  <1> USE DEF BaseInv, folders, poller, workers
  <1>1. ASSUME NEW s \in Stem, NEW c \in Kinds, Arrive(s, c) PROVE BaseInv'
    <2>1. c \in Content
      BY SizeAssumption
    <2>2. QED
      BY <1>1, <2>1 DEF Arrive, TypeOK, RenderInv, Chosen, Live
  <1>2. CASE Kill
    <2>1. kills' \in 0 .. MaxKills
      BY <1>2, SizeAssumption DEF Kill, TypeOK
    <2>2. QED
      BY <1>2, <2>1, DieBase DEF Kill
  <1>3. CASE Respawn
    BY <1>3 DEF Respawn, TypeOK, RenderInv, Chosen, Live, MainPc
  <1>4. ASSUME NEW c \in Commands, FinishOrphan(c) PROVE BaseInv'
    <2>1. FoldersOK'
      BY <1>4, OrphanOK DEF TypeOK, FoldersOK
    <2>2. QED
      BY <1>4, <2>1 DEF FinishOrphan, TypeOK, FoldersOK, RenderInv, Chosen, Live
  <1>5. QED
    BY <1>1, <1>2, <1>3, <1>4

LEMMA BaseStep == BaseInv /\ [Next]_vars => BaseInv'
  <1> SUFFICES ASSUME BaseInv, [Next]_vars PROVE BaseInv'
    OBVIOUS
  <1>1. CASE Next
    BY <1>1, PollBase, HandleBase, EnvironmentBase DEF Next, TracerNext
  <1>2. CASE UNCHANGED vars
    BY <1>2 DEF vars, folders, poller, workers, outside, BaseInv, TypeOK, RenderInv, Chosen, Live
  <1>3. QED
    BY <1>1, <1>2

LEMMA BaseInvariant == Spec => []BaseInv
  BY InitBase, BaseStep, PTL DEF Spec

\* Every variable keeps to its type, for every number of slots and every set of files.
THEOREM Typing == Spec => []TypeOK
  BY BaseInvariant, PTL DEF BaseInv

\* start_render never outlives the handler's frame and heap it refers to: until it
\* has published, its handler is in the waiting loop.
THEOREM NoDangling == Spec => []NoDanglingRender
  <1>1. BaseInv => NoDanglingRender
    BY DEF BaseInv, RenderInv, NoDanglingRender
  <1>2. QED
    BY <1>1, BaseInvariant, PTL

-----------------------------------------------------------------------------
(* Slots.  The two properties are inductive together: a slot whose lock is    *)
(* free has no owner, so the polling loop may take it, and a slot has one     *)
(* owner, so that owner may free it.                                          *)

SlotInv == SlotExclusive /\ SlotAccounted

LEMMA DieSlots == ASSUME TypeOK, Die PROVE SlotInv'
  BY DEF Die, SlotInv, SlotExclusive, SlotAccounted, Live

LEMMA PollSlots == BaseInv /\ SlotInv /\ Poll => SlotInv'
  <1> SUFFICES ASSUME BaseInv, SlotInv, Poll PROVE SlotInv'
    OBVIOUS
  <1> USE DEF SlotInv, SlotExclusive, SlotAccounted, Live, workers
  <1>1. CASE RestoreInProgress
    BY <1>1 DEF RestoreInProgress
  <1>2. CASE OpenDirectory
    BY <1>2 DEF OpenDirectory
  <1>3. ASSUME NEW seen \in SUBSET Stem, FindEarliest(seen) PROVE SlotInv'
    BY <1>3 DEF FindEarliest
  <1>4. ASSUME NEW seen \in SUBSET Stem, FindOutOfRange(seen) PROVE SlotInv'
    BY <1>4, DieSlots DEF FindOutOfRange, BaseInv
  <1>5. CASE ProbeTaken
    BY <1>5 DEF ProbeTaken
  <1>6. CASE ProbeFree
    <2>1. buffer_to_use \in Slot
      BY <1>6, SizeAssumption DEF ProbeFree, BaseInv, TypeOK, Slot
    <2>2. \A t \in Thread : pc[t] # "idle" => slot[t] # buffer_to_use
      BY <1>6, <2>1 DEF ProbeFree
    <2>3. QED
      BY <1>6, <2>1, <2>2 DEF ProbeFree, BaseInv, TypeOK
  <1>7. CASE ProbeNone
    BY <1>7 DEF ProbeNone
  <1>8. CASE MoveRequest
    BY <1>8 DEF MoveRequest
  <1>9. ASSUME NEW t \in Thread, Launch(t) PROVE SlotInv'
    <2>1. /\ pc' = [pc EXCEPT ![t] = "read"]
          /\ slot' = [slot EXCEPT ![t] = buffer_to_use]
          /\ pc[t] = "idle" /\ main = "launch" /\ main' = "scan"
          /\ UNCHANGED lock_states
      BY <1>9 DEF Launch
    <2>2. pc \in [Thread -> WorkerPc] /\ slot \in [Thread -> Slot]
      BY DEF BaseInv, TypeOK
    <2>3. SlotExclusive'
      BY <2>1, <2>2
    <2>4. SlotAccounted'
      BY <2>1, <2>2
    <2>5. QED
      BY <2>3, <2>4
  <1>10. QED
    BY <1>1, <1>2, <1>3, <1>4, <1>5, <1>6, <1>7, <1>8, <1>9 DEF Poll

LEMMA HandleSlots ==
  ASSUME BaseInv, SlotInv, NEW t \in Thread, Handle(t) \/ Publish(t) PROVE SlotInv'
  <1> USE DEF SlotInv, SlotExclusive, SlotAccounted, Live, poller, Step, BaseInv, TypeOK
  <1>1. CASE ReadRequest(t)
    BY <1>1 DEF ReadRequest
  <1>2. CASE RejectRequest(t)
    BY <1>2, DieSlots DEF RejectRequest
  <1>3. CASE StartRender(t)
    BY <1>3 DEF StartRender
  <1>4. CASE SeePublished(t)
    BY <1>4 DEF SeePublished
  <1>5. CASE RemoveRequest(t)
    BY <1>5 DEF RemoveRequest
  <1>6. CASE Release(t)
    BY <1>6 DEF Release
  <1>7. CASE Publish(t)
    BY <1>7 DEF Publish
  <1>8. QED
    BY <1>1, <1>2, <1>3, <1>4, <1>5, <1>6, <1>7 DEF Handle

LEMMA SlotStep == BaseInv /\ SlotInv /\ [Next]_vars => SlotInv'
  <1> SUFFICES ASSUME BaseInv, SlotInv, [Next]_vars PROVE SlotInv'
    OBVIOUS
  <1> USE DEF SlotInv, SlotExclusive, SlotAccounted, Live, poller, workers
  <1>1. CASE Poll
    BY <1>1, PollSlots
  <1>2. ASSUME NEW t \in Thread, Handle(t) \/ Publish(t) PROVE SlotInv'
    BY <1>2, HandleSlots
  <1>3. ASSUME NEW s \in Stem, NEW c \in Kinds, Arrive(s, c) PROVE SlotInv'
    BY <1>3 DEF Arrive
  <1>4. CASE Kill
    BY <1>4, DieSlots DEF Kill, BaseInv
  <1>5. CASE Respawn
    BY <1>5 DEF Respawn
  <1>6. ASSUME NEW c \in Commands, FinishOrphan(c) PROVE SlotInv'
    BY <1>6 DEF FinishOrphan
  <1>7. CASE UNCHANGED vars
    BY <1>7 DEF vars
  <1>8. QED
    BY <1>1, <1>2, <1>3, <1>4, <1>5, <1>6, <1>7 DEF Next, TracerNext

LEMMA SlotInvariant == Spec => []SlotInv
  <1>1. Init => SlotInv
    BY DEF Init, SlotInv, SlotExclusive, SlotAccounted, Live
  <1>2. QED
    BY <1>1, SlotStep, BaseInvariant, PTL DEF Spec

\* "Each element is a buffer for 1 thread ONLY" (main.cpp): no two live handlers,
\* nor a handler and the polling loop, own one multi-buffer.
THEOREM Exclusive == Spec => []SlotExclusive
  BY SlotInvariant, PTL DEF SlotInv

\* lock_states marks exactly the owned slots: none leaks, whatever crashes occur.
THEOREM Accounted == Spec => []SlotAccounted
  BY SlotInvariant, PTL DEF SlotInv

-----------------------------------------------------------------------------
(* Where requests are.  Conservation is inductive: every shell command, on    *)
(* time or orphaned, moves a file or finds none.                              *)

LEMMA RestoreConserves ==
  TypeOK /\ Conservation /\ Restore /\ UNCHANGED <<arrived, regiven>> => Conservation'
  BY DEF TypeOK, Conservation, Restore, Content, Absent

LEMMA MoveConserves ==
  ASSUME TypeOK, Conservation, NEW r \in Request, Move(r), UNCHANGED <<arrived, regiven>>
  PROVE  Conservation'
  BY PlainInStem DEF TypeOK, Conservation, Move, folders

LEMMA RemoveConserves ==
  ASSUME TypeOK, Conservation, NEW r \in Request, Remove(r), UNCHANGED <<arrived, regiven>>
  PROVE  Conservation'
  BY PlainInStem DEF TypeOK, Conservation, Remove, folders

LEMMA ArriveConserves ==
  ASSUME TypeOK, Conservation, NEW s \in Stem, NEW c \in Kinds, Arrive(s, c)
  PROVE  Conservation'
  <1>1. c # Absent
    BY SizeAssumption DEF Content, Absent
  <1>2. /\ requests' = [requests EXCEPT ![s] = c] /\ UNCHANGED <<in_progress, done>>
        /\ arrived' = arrived \cup {s} /\ regiven \subseteq regiven'
        /\ s \in arrived /\ requests[s] = Absent => s \in regiven'
    BY DEF Arrive
  <1>3. requests \in [Stem -> Content \cup {Absent}]
    BY DEF TypeOK
  <1>4. QED
    BY <1>1, <1>2, <1>3 DEF Conservation

LEMMA ConservationStep == BaseInv /\ Conservation /\ [Next]_vars => Conservation'
  <1> SUFFICES ASSUME BaseInv, Conservation, [Next]_vars PROVE Conservation'
    OBVIOUS
  <1> USE DEF BaseInv, outside
  <1>1. CASE UNCHANGED <<folders, arrived, regiven>>
    BY <1>1 DEF Conservation, folders
  <1>2. CASE Restore /\ UNCHANGED <<arrived, regiven>>
    BY <1>2, RestoreConserves
  <1>3. ASSUME NEW r \in Request, Move(r), UNCHANGED <<arrived, regiven>> PROVE Conservation'
    BY <1>3, MoveConserves
  <1>4. ASSUME NEW r \in Request, Remove(r), UNCHANGED <<arrived, regiven>> PROVE Conservation'
    BY <1>4, RemoveConserves
  <1>5. CASE Poll
    BY <1>1, <1>2, <1>3, <1>5 DEF Poll, RestoreInProgress, OpenDirectory, FindEarliest,
       FindOutOfRange, Die, ProbeTaken, ProbeFree, ProbeNone, MoveRequest, Launch, Chosen
  <1>6. ASSUME NEW t \in Thread, Handle(t) \/ Publish(t) PROVE Conservation'
    BY <1>1, <1>4, <1>6 DEF Handle, Publish, ReadRequest, RejectRequest, Die, StartRender,
       SeePublished, RemoveRequest, Release, Step, Chosen, Live
  <1>7. ASSUME NEW s \in Stem, NEW c \in Kinds, Arrive(s, c) PROVE Conservation'
    BY <1>7, ArriveConserves
  <1>8. ASSUME NEW c \in Commands, FinishOrphan(c) PROVE Conservation'
    BY <1>2, <1>3, <1>4, <1>8, CommandReq DEF FinishOrphan
  <1>9. CASE Kill \/ Respawn \/ UNCHANGED vars
    BY <1>1, <1>9 DEF Kill, Die, Respawn, vars
  <1>10. QED
    BY <1>5, <1>6, <1>7, <1>8, <1>9 DEF Next, TracerNext

\* No crash, restart, failed or late command loses or duplicates a request.
THEOREM NothingLost == Spec => []Conservation
  <1>1. Init => Conservation
    BY DEF Init, Conservation
  <1>2. QED
    BY <1>1, ConservationStep, BaseInvariant, PTL DEF Spec

-----------------------------------------------------------------------------
(* A file is removed by a handler that saw its render published, or by that   *)
(* handler's rm after the process died.                                       *)

RemoveInv ==
  /\ RemovedOnlyRendered
  /\ \A t \in Thread :
       pc[t] = "remove" \/ (pc[t] = "wait" /\ curr_gpu_write_count[t] = -1)
         => req[t] \in rendered
  /\ \A c \in orphans : c.op = "remove" => c.req \in rendered

LEMMA DieRemoves == ASSUME BaseInv, RemoveInv, Die PROVE RemoveInv'
  <1>1. \A c \in Pending : c.op = "remove" => c.req \in rendered
    BY DEF Pending, RemoveInv
  <1>2. \A t \in Thread : pc'[t] = "idle"
    BY DEF Die
  <1>3. QED
    BY <1>1, <1>2 DEF Die, RemoveInv, RemovedOnlyRendered, folders

LEMMA RemoveMarks ==
  ASSUME BaseInv, RemovedOnlyRendered, NEW r \in Request, r \in rendered, Remove(r),
         UNCHANGED rendered
  PROVE  RemovedOnlyRendered'
  BY PlainInStem DEF RemovedOnlyRendered, Remove, folders

LEMMA HandleRemoves ==
  ASSUME BaseInv, RemoveInv, NEW t \in Thread, Handle(t) \/ Publish(t) PROVE RemoveInv'
  <1> USE DEF BaseInv, TypeOK, RemoveInv, RemovedOnlyRendered, folders, poller, outside, Step
  <1>1. CASE ReadRequest(t)
    BY <1>1 DEF ReadRequest
  <1>2. CASE RejectRequest(t)
    BY <1>2, DieRemoves DEF RejectRequest
  <1>3. CASE StartRender(t)
    BY <1>3 DEF StartRender
  <1>4. CASE SeePublished(t)
    BY <1>4 DEF SeePublished
  <1>5. CASE RemoveRequest(t)
    <2>1. req[t] \in rendered /\ req[t] \in Request /\ UNCHANGED rendered
      BY <1>5 DEF RemoveRequest, Chosen, Live
    <2>2. RemovedOnlyRendered'
      BY <1>5, <2>1, RemoveMarks DEF RemoveRequest
    <2>3. QED
      BY <1>5, <2>2 DEF RemoveRequest
  <1>6. CASE Release(t)
    BY <1>6 DEF Release
  <1>7. CASE Publish(t)
    BY <1>7 DEF Publish
  <1>8. QED
    BY <1>1, <1>2, <1>3, <1>4, <1>5, <1>6, <1>7 DEF Handle

LEMMA PollRemoves == BaseInv /\ RemoveInv /\ Poll => RemoveInv'
  <1> SUFFICES ASSUME BaseInv, RemoveInv, Poll PROVE RemoveInv'
    OBVIOUS
  <1>1. ASSUME UNCHANGED <<done, workers, orphans, rendered>> PROVE RemoveInv'
    BY <1>1 DEF RemoveInv, RemovedOnlyRendered, workers
  <1>2. ASSUME NEW r \in Request, Move(r) PROVE UNCHANGED done
    BY <1>2 DEF Move, folders
  <1>3. ASSUME NEW t \in Thread, Launch(t) PROVE RemoveInv'
    BY <1>3 DEF Launch, RemoveInv, RemovedOnlyRendered, folders, outside, BaseInv, TypeOK
  <1>4. QED
    BY <1>1, <1>2, <1>3, DieRemoves
    DEF Poll, RestoreInProgress, Restore, OpenDirectory, FindEarliest, FindOutOfRange,
        ProbeTaken, ProbeFree, ProbeNone, MoveRequest, folders, outside, BaseInv, Chosen

LEMMA RemoveStep == BaseInv /\ RemoveInv /\ [Next]_vars => RemoveInv'
  <1> SUFFICES ASSUME BaseInv, RemoveInv, [Next]_vars PROVE RemoveInv'
    OBVIOUS
  <1> USE DEF workers
  <1>1. CASE Poll
    BY <1>1, PollRemoves
  <1>2. ASSUME NEW t \in Thread, Handle(t) \/ Publish(t) PROVE RemoveInv'
    BY <1>2, HandleRemoves
  <1>3. ASSUME NEW s \in Stem, NEW c \in Kinds, Arrive(s, c) PROVE RemoveInv'
    BY <1>3 DEF Arrive, RemoveInv, RemovedOnlyRendered
  <1>4. CASE Kill
    BY <1>4, DieRemoves DEF Kill
  <1>5. CASE Respawn
    BY <1>5 DEF Respawn, RemoveInv, RemovedOnlyRendered, folders
  <1>6. ASSUME NEW c \in Commands, FinishOrphan(c) PROVE RemoveInv'
    <2>1. RemovedOnlyRendered'
      <3>1. CASE c.op = "remove" /\ Remove(c.req)
        BY <1>6, <3>1, RemoveMarks, CommandReq DEF FinishOrphan, RemoveInv
      <3>2. CASE (c.op = "restore" /\ Restore) \/ (c.op = "move" /\ Move(c.req))
        <4>1. UNCHANGED done
          BY <3>2 DEF Restore, Move, folders
        <4>2. QED
          BY <1>6, <4>1 DEF FinishOrphan, RemoveInv, RemovedOnlyRendered
      <3>3. QED
        BY <1>6, <3>1, <3>2 DEF FinishOrphan
    <2>2. QED
      BY <1>6, <2>1 DEF FinishOrphan, RemoveInv
  <1>7. CASE UNCHANGED vars
    BY <1>7 DEF vars, folders, outside, RemoveInv, RemovedOnlyRendered
  <1>8. QED
    BY <1>1, <1>2, <1>3, <1>4, <1>5, <1>6, <1>7 DEF Next, TracerNext

\* A request file is deleted only after the render of that request was published,
\* by whichever process and however late.
THEOREM OnlyRenderedRemoved == Spec => []RemovedOnlyRendered
  <1>1. Init => RemoveInv
    BY DEF Init, RemoveInv, RemovedOnlyRendered
  <1>2. RemoveInv => RemovedOnlyRendered
    BY DEF RemoveInv
  <1>3. QED
    BY <1>1, <1>2, RemoveStep, BaseInvariant, PTL DEF Spec

-----------------------------------------------------------------------------
(* The order in which requests are selected. *)

\* No scan selects a request over an older one that was there when it began.
THEOREM OldestFirst == Spec => OldestListedFirst
  <1>1. ASSUME [Next]_vars, main = "list", main' = "probe",
               NEW a \in listing \cap Present(requests)
        PROVE  current_request' <= a.num
    <2>1. PICK seen \in SUBSET Stem : FindEarliest(seen)
      BY <1>1 DEF Next, TracerNext, Poll, Handle, RestoreInProgress, OpenDirectory, FindEarliest,
         FindOutOfRange, Die, ProbeTaken, ProbeFree, ProbeNone, MoveRequest, Launch, ReadRequest,
         RejectRequest, StartRender, SeePublished, RemoveRequest, Release, Publish, Arrive, Kill,
         Respawn, FinishOrphan, poller, vars
    <2>2. a \in seen
      BY <2>1 DEF FindEarliest, Entries
    <2>3. QED
      BY <1>1, <2>1, <2>2 DEF FindEarliest
  <1>2. [Next]_vars => [main = "list" /\ main' = "probe"
          => \A a \in listing \cap Present(requests) : current_request' <= a.num]_vars
    BY <1>1
  <1>3. QED
    BY <1>2, PTL DEF Spec, OldestListedFirst
=============================================================================
