------------------------- MODULE PathTracerRefines --------------------------
(***************************************************************************)
(* Crash recovery of PathTracer: as long as no tracer starts over a command *)
(* its predecessor left running, no request is stranded in in_progress and  *)
(* none is carried out by two handlers, unless its number is ambiguous.     *)
(* From the same invariant, the refinement of RequestQueue, in the second   *)
(* half.                                                                   *)
(***************************************************************************)
EXTENDS PathTracerProofs, FiniteSetTheorems, FunctionTheorems

\* Only files named by a plain number get to in_progress, and a process that has not
\* restored yet has no handlers.
NameInv ==
  /\ \A s \in Present(in_progress) : s = Plain(s.num)
  /\ main \in {"dead", "restore"} => \A t \in Thread : pc[t] = "idle"

\* A handler that has not removed its file yet.
Carries(t) == pc[t] \in {"read", "start", "wait", "remove"}

InPlace(r) == in_progress[Plain(r)] # Absent

\* The file of a request that was selected is in in_progress, or it had another name
\* than the one mv looks for, and then no file of that name will come.
Selected(r) == InPlace(r) \/ \E s \in arrived : s.num = r /\ s # Plain(r)

\* The polling loop without orphans: what it has listed or chosen is still there.
PollerCalm ==
  /\ main # "dead" => orphans = {}
  /\ main = "list" => listing \subseteq Present(requests)
  /\ main \in {"probe", "move"} => \E s \in Present(requests) : s.num = current_request

\* Handlers and files in in_progress correspond one to one, for a number that tells
\* one file from all others.
HandlersCalm ==
  \A t \in Thread : ~Ambiguous(req[t]) =>
    /\ Carries(t) => Selected(req[t])
    /\ Handling(t) => InPlace(req[t])
    /\ \A u \in Thread : Carries(t) /\ Carries(u) /\ req[t] = req[u] /\ InPlace(req[t]) => t = u

\* Such a request, about to be launched, has no handler yet.
LaunchCalm ==
  main = "launch" /\ ~Ambiguous(current_request) =>
    /\ Selected(current_request)
    /\ InPlace(current_request) => \A t \in Thread : Carries(t) => req[t] # current_request

Calm == PollerCalm /\ HandlersCalm /\ LaunchCalm /\ AllAttended

RecoveryInv == NameInv /\ (~overtaken => Calm)

\* The invariants this one builds on.
KnownInv == BaseInv /\ Conservation

-----------------------------------------------------------------------------
LEMMA DieRecovers == ASSUME KnownInv, RecoveryInv, Die PROVE RecoveryInv'
  <1>1. main' = "dead" /\ (\A t \in Thread : pc'[t] = "idle") /\ UNCHANGED <<arrived, regiven, in_progress>>
    BY DEF Die, folders
  <1>2. NameInv'
    BY <1>1 DEF RecoveryInv, NameInv, Present
  <1>3. Calm'
    BY <1>1 DEF Calm, PollerCalm, HandlersCalm, LaunchCalm, AllAttended, Carries, Handling
  <1>4. QED
    BY <1>2, <1>3 DEF RecoveryInv

LEMMA RestoreRecovers == ASSUME KnownInv, RecoveryInv, RestoreInProgress PROVE RecoveryInv'
  <1>1. /\ main = "restore" /\ main' = "scan" /\ \A s \in Stem : in_progress'[s] = Absent
        /\ UNCHANGED <<arrived, regiven, pc, overtaken, orphans>>
    BY DEF RestoreInProgress, Restore, workers, outside
  <1>2. \A t \in Thread : pc[t] = "idle"
    BY <1>1 DEF RecoveryInv, NameInv
  <1>3. NameInv'
    BY <1>1 DEF RecoveryInv, NameInv, Present
  <1>4. ASSUME ~overtaken' PROVE Calm'
    BY <1>1, <1>2, <1>4
    DEF RecoveryInv, Calm, PollerCalm, HandlersCalm, LaunchCalm, AllAttended, Carries, Handling, Present
  <1>5. QED
    BY <1>3, <1>4 DEF RecoveryInv

LEMMA MoveRecovers == ASSUME KnownInv, RecoveryInv, MoveRequest PROVE RecoveryInv'
  <1> DEFINE r == current_request
             p == Plain(r)
  <1>1. /\ main = "move" /\ main' = "launch" /\ Move(r)
        /\ UNCHANGED <<current_request, arrived, regiven, overtaken, orphans, pc, req>>
    BY DEF MoveRequest, workers, outside
  <1>2. r \in Request /\ p \in Stem /\ p.num = r
    BY <1>1, PlainInStem DEF KnownInv, BaseInv, Chosen
  <1>3. in_progress \in [Stem -> Content \cup {Absent}] /\ requests \in [Stem -> Content \cup {Absent}]
    BY DEF KnownInv, BaseInv, TypeOK
  <1> HIDE DEF r, p
  <1>4. \/ requests[p] = Absent /\ UNCHANGED in_progress
        \/ requests[p] # Absent /\ in_progress' = [in_progress EXCEPT ![p] = requests[p]]
    BY <1>1 DEF Move, folders, p
  <1>5. NameInv'
    BY <1>1, <1>2, <1>3, <1>4 DEF RecoveryInv, NameInv, Present, p
  <1>6. ASSUME ~overtaken' PROVE Calm'
    <2>1. Calm
      BY <1>1, <1>6 DEF RecoveryInv
    <2>2. PICK s \in Present(requests) : s.num = r
      BY <1>1, <2>1 DEF Calm, PollerCalm, r
    <2>3. s \in arrived /\ s \in Stem
      BY <2>2 DEF Present, KnownInv, Conservation
    <2>4. \A t \in Thread : Carries(t) => req[t] \in Request
      BY DEF KnownInv, BaseInv, Chosen, Carries, Live
    <2>5. \A q \in Request : InPlace(q) => InPlace(q)'
      BY <1>2, <1>3, <1>4, PlainInStem DEF InPlace
    <2>6. \A q \in Request : q # r => (InPlace(q)' <=> InPlace(q))
      BY <1>2, <1>3, <1>4, PlainInStem DEF InPlace
    <2> \A q : Ambiguous(q)' <=> Ambiguous(q)
      BY <1>1 DEF Ambiguous
    \* Had r a handler, its file would be in in_progress or have another name.
    <2>7. ASSUME requests[p] # Absent, ~Ambiguous(r), NEW t \in Thread, Carries(t) PROVE req[t] # r
      <3>1. p \in arrived /\ in_progress[p] = Absent
        BY <1>2, <2>7 DEF KnownInv, Conservation, Ambiguous, p
      <3>2. ~Selected(r)
        BY <1>2, <2>7, <3>1 DEF Selected, InPlace, Ambiguous, p
      <3>3. QED
        BY <2>1, <2>7, <3>2 DEF Calm, HandlersCalm
    <2>8. ASSUME requests[p] = Absent, ~Ambiguous(r) PROVE ~InPlace(r) /\ Selected(r)
      <3>1. s # p
        BY <2>2, <2>8 DEF Present
      <3>2. p \notin arrived
        BY <1>2, <2>2, <2>3, <2>8, <3>1 DEF Ambiguous
      <3>3. QED
        BY <1>2, <2>2, <2>3, <3>1, <3>2 DEF KnownInv, Conservation, InPlace, Selected, p
    <2>9. PollerCalm'
      BY <1>1, <2>1 DEF Calm, PollerCalm
    <2>10. HandlersCalm'
      BY <1>1, <1>4, <2>1, <2>4, <2>5, <2>6, <2>7, <2>8
      DEF Calm, HandlersCalm, Carries, Handling, Selected, InPlace, p
    <2>11. LaunchCalm'
      BY <1>1, <1>2, <1>3, <1>4, <2>7, <2>8 DEF LaunchCalm, Carries, Selected, InPlace, p, r
    <2>12. AllAttended'
      BY <1>1, <1>2, <1>3, <1>4, <2>1 DEF Calm, AllAttended, Attended, Present, r
    <2>13. QED
      BY <2>9, <2>10, <2>11, <2>12 DEF Calm
  <1>7. QED
    BY <1>5, <1>6 DEF RecoveryInv

LEMMA LaunchRecovers ==
  ASSUME KnownInv, RecoveryInv, NEW t \in Thread, Launch(t) PROVE RecoveryInv'
  <1>1. /\ main = "launch" /\ main' = "scan" /\ pc[t] = "idle"
        /\ pc' = [pc EXCEPT ![t] = "read"] /\ req' = [req EXCEPT ![t] = current_request]
        /\ UNCHANGED <<requests, in_progress, arrived, regiven, overtaken, orphans>>
    BY DEF Launch, folders, outside
  <1>2. pc \in [Thread -> WorkerPc] /\ req \in [Thread -> Request \cup {None}]
    BY DEF KnownInv, BaseInv, TypeOK
  <1>3. NameInv'
    BY <1>1 DEF RecoveryInv, NameInv, Present
  <1>4. ASSUME ~overtaken' PROVE Calm'
    <2>1. Calm
      BY <1>1, <1>4 DEF RecoveryInv
    <2>2. PollerCalm' /\ LaunchCalm'
      BY <1>1, <2>1 DEF Calm, PollerCalm, LaunchCalm
    <2>3. HandlersCalm'
      BY <1>1, <1>2, <2>1
      DEF Calm, HandlersCalm, LaunchCalm, Carries, Handling, Selected, InPlace, Ambiguous
    <2>4. AllAttended'
      BY <1>1, <1>2, <2>1 DEF Calm, AllAttended, Attended, Present
    <2>5. QED
      BY <2>2, <2>3, <2>4 DEF Calm
  <1>5. QED
    BY <1>3, <1>4 DEF RecoveryInv

LEMMA PollRecovers == KnownInv /\ RecoveryInv /\ Poll => RecoveryInv'
  <1> SUFFICES ASSUME KnownInv, RecoveryInv, Poll PROVE RecoveryInv'
    OBVIOUS
  <1> USE DEF RecoveryInv, NameInv, Calm, PollerCalm, HandlersCalm, LaunchCalm, AllAttended,
              Attended, Carries, Handling, Selected, InPlace, Present, Ambiguous, folders, workers,
              outside
  <1>1. CASE OpenDirectory
    BY <1>1 DEF OpenDirectory
  <1>2. ASSUME NEW seen \in SUBSET Stem, FindEarliest(seen) PROVE RecoveryInv'
    BY <1>2 DEF FindEarliest, Entries
  <1>3. ASSUME NEW seen \in SUBSET Stem, FindOutOfRange(seen) PROVE RecoveryInv'
    BY <1>3, DieRecovers DEF FindOutOfRange
  <1>4. CASE ProbeTaken
    BY <1>4 DEF ProbeTaken
  <1>5. CASE ProbeFree
    BY <1>5 DEF ProbeFree
  <1>6. CASE ProbeNone
    BY <1>6 DEF ProbeNone
  <1>7. QED
    BY <1>1, <1>2, <1>3, <1>4, <1>5, <1>6, RestoreRecovers, MoveRecovers, LaunchRecovers DEF Poll

\* A handler's step that leaves the files alone and keeps it among the carriers.
LEMMA CarryOn ==
  ASSUME KnownInv, RecoveryInv, NEW t \in Thread, Carries(t), Carries(t)',
         Handling(t)' /\ ~Ambiguous(req[t]) => InPlace(req[t]),
         \A u \in Thread \ {t} : pc'[u] = pc[u],
         UNCHANGED <<folders, poller, req, outside>>
  PROVE  RecoveryInv'
  <1> USE DEF folders, poller, outside
  <1>1. main \notin {"dead", "restore"} /\ NameInv'
    BY DEF RecoveryInv, NameInv, Carries, Present
  <1>2. /\ \A u \in Thread : (Carries(u)' <=> Carries(u))
        /\ \A q : Ambiguous(q)' <=> Ambiguous(q)
    BY DEF Carries, Ambiguous
  <1>3. ASSUME ~overtaken' PROVE Calm'
    <2>1. Calm
      BY <1>3 DEF RecoveryInv
    <2>2. PollerCalm' /\ LaunchCalm'
      BY <1>2, <2>1 DEF Calm, PollerCalm, LaunchCalm, Selected, InPlace, Present
    <2>3. \A u \in Thread : Handling(u)' /\ ~Ambiguous(req[u]) => InPlace(req[u])
      BY <2>1 DEF Calm, HandlersCalm, Handling
    <2>4. HandlersCalm'
      BY <1>2, <2>1, <2>3 DEF Calm, HandlersCalm, Selected, InPlace
    <2>5. AllAttended'
      BY <1>2, <2>1 DEF Calm, AllAttended, Attended, Carries, Present
    <2>6. QED
      BY <2>2, <2>4, <2>5 DEF Calm
  <1>4. QED
    BY <1>1, <1>3 DEF RecoveryInv

LEMMA RemoveRecovers ==
  ASSUME KnownInv, RecoveryInv, NEW t \in Thread, RemoveRequest(t) PROVE RecoveryInv'
  <1> DEFINE r == req[t]
             p == Plain(r)
  <1>1. /\ pc[t] = "remove" /\ pc' = [pc EXCEPT ![t] = "release"] /\ Remove(r)
        /\ UNCHANGED <<main, current_request, listing, req, arrived, regiven, overtaken, orphans>>
    BY DEF RemoveRequest, Step, poller, outside
  <1>2. r \in Request /\ p \in Stem /\ p.num = r
    BY <1>1, PlainInStem DEF KnownInv, BaseInv, Chosen, Live
  <1>3. in_progress \in [Stem -> Content \cup {Absent}] /\ pc \in [Thread -> WorkerPc]
    BY DEF KnownInv, BaseInv, TypeOK
  <1> HIDE DEF r, p
  <1>4. UNCHANGED requests /\ \A s \in Stem : in_progress'[s] = IF s = p THEN Absent ELSE in_progress[s]
    BY <1>1, <1>2, <1>3 DEF Remove, folders, p
  <1>5. NameInv'
    BY <1>1, <1>3, <1>4 DEF RecoveryInv, NameInv, Present
  <1>6. ASSUME ~overtaken' PROVE Calm'
    <2>1. Calm /\ main \notin {"dead", "restore"}
      BY <1>1, <1>6 DEF RecoveryInv, NameInv
    <2>2. ~Ambiguous(r) => InPlace(r) /\ Carries(t)
      BY <1>1, <2>1 DEF Calm, HandlersCalm, Handling, Carries, r
    <2>3. ~Ambiguous(r) => \A u \in Thread \ {t} : Carries(u) => req[u] # r
      BY <2>1, <2>2 DEF Calm, HandlersCalm, r
    <2> \A q : Ambiguous(q)' <=> Ambiguous(q)
      BY <1>1 DEF Ambiguous
    <2>4. \A q \in Request : q # r => (InPlace(q)' <=> InPlace(q))
      BY <1>2, <1>4, PlainInStem DEF InPlace
    <2>5. ~Carries(t)' /\ ~Handling(t)'
      BY <1>1, <1>3 DEF Carries, Handling
    <2>6. \A u \in Thread \ {t} : Carries(u)' <=> Carries(u)
      BY <1>1, <1>3 DEF Carries
    <2>7. PollerCalm'
      BY <1>1, <1>4, <2>1 DEF Calm, PollerCalm, Present
    <2>8. HandlersCalm'
      <3> SUFFICES ASSUME NEW u \in Thread, ~Ambiguous(req[u])
                   PROVE  /\ Carries(u)' => Selected(req[u])'
                          /\ Handling(u)' => InPlace(req[u])'
                          /\ \A v \in Thread : Carries(u)' /\ Carries(v)' /\ req[u] = req[v]
                                               /\ InPlace(req[u])' => u = v
        BY <1>1 DEF HandlersCalm
      <3>1. ASSUME NEW v \in Thread, Carries(v)' PROVE v # t /\ Carries(v) /\ req[v] \in Request
        <4>1. v # t /\ Carries(v)
          BY <1>1, <1>3, <3>1 DEF Carries
        <4>2. QED
          BY <4>1 DEF Carries, KnownInv, BaseInv, Chosen, Live
      <3>2. Carries(u)' => req[u] # r
        BY <2>3, <3>1
      <3>3. Carries(u)' => Selected(req[u])'
        BY <1>1, <2>1, <2>4, <3>1, <3>2 DEF Calm, HandlersCalm, Selected, InPlace
      <3>4. Handling(u)' => Carries(u)' /\ Handling(u)
        BY <1>1, <1>3 DEF Handling, Carries
      <3>5. Handling(u)' => InPlace(req[u])'
        BY <1>1, <2>1, <2>4, <3>1, <3>2, <3>4 DEF Calm, HandlersCalm, InPlace
      <3>6. ASSUME NEW v \in Thread, Carries(u)', Carries(v)', req[u] = req[v], InPlace(req[u])'
            PROVE  u = v
        BY <1>1, <2>1, <2>4, <3>1, <3>2, <3>6 DEF Calm, HandlersCalm, InPlace
      <3>7. QED
        BY <3>3, <3>5, <3>6
    <2>9. LaunchCalm'
      <3>1. main = "launch" /\ ~Ambiguous(current_request)
              => current_request # r /\ current_request \in Request
        BY <2>1, <2>2 DEF Calm, LaunchCalm, r, KnownInv, BaseInv, Chosen
      <3>2. QED
        BY <1>1, <2>1, <2>4, <2>5, <2>6, <3>1 DEF Calm, LaunchCalm, Selected, InPlace, Carries
    <2>10. AllAttended'
      <3>1. \A s \in Present(in_progress)' : s \in Present(in_progress) /\ s # p /\ s.num # r
        BY <1>4 DEF Present, RecoveryInv, NameInv, p
      <3>2. QED
        BY <1>1, <1>3, <2>1, <3>1 DEF Calm, AllAttended, Attended, r
    <2>11. QED
      BY <2>7, <2>8, <2>9, <2>10 DEF Calm
  <1>7. QED
    BY <1>5, <1>6 DEF RecoveryInv

LEMMA ReleaseRecovers ==
  ASSUME KnownInv, RecoveryInv, NEW t \in Thread, Release(t) \/ Publish(t) PROVE RecoveryInv'
  <1>1. /\ pc[t] # "idle" /\ \A u \in Thread : pc'[u] \in {pc[u], "idle"}
        /\ \A u \in Thread : Carries(u)' <=> Carries(u)
        /\ \A u \in Thread : Handling(u)' <=> Handling(u)
        /\ UNCHANGED <<folders, poller, req, outside>>
    <2>1. pc \in [Thread -> WorkerPc]
      BY DEF KnownInv, BaseInv, TypeOK
    <2>2. CASE Release(t)
      BY <2>1, <2>2 DEF Release, Step, Carries, Handling, folders, poller, outside
    <2>3. CASE Publish(t)
      BY <2>1, <2>3 DEF Publish, Carries, Handling, folders, poller, outside, KnownInv, BaseInv,
         RenderInv
    <2>4. QED
      BY <2>2, <2>3
  <1>2. NameInv'
    BY <1>1 DEF RecoveryInv, NameInv, Present, folders, poller, outside
  <1>3. ASSUME ~overtaken' PROVE Calm'
    BY <1>1, <1>3
    DEF RecoveryInv, Calm, PollerCalm, HandlersCalm, LaunchCalm, AllAttended, Attended, Carries,
        Handling, Selected, InPlace, Present, Ambiguous, folders, poller, outside
  <1>4. QED
    BY <1>2, <1>3 DEF RecoveryInv

LEMMA HandleRecovers ==
  ASSUME KnownInv, RecoveryInv, NEW t \in Thread, Handle(t) \/ Publish(t) PROVE RecoveryInv'
  <1>1. pc \in [Thread -> WorkerPc]
    BY DEF KnownInv, BaseInv, TypeOK
  <1>2. CASE ReadRequest(t)
    <2>1. InPlace(req[t])
      BY <1>2 DEF ReadRequest, InPlace, Absent
    <2>2. QED
      BY <1>1, <1>2, <2>1, CarryOn DEF ReadRequest, Step, Carries
  <1>3. CASE StartRender(t) \/ SeePublished(t)
    <2>1. Handling(t)
      BY <1>3 DEF StartRender, SeePublished, Step, Handling
    <2>2. /\ Carries(t) /\ Carries(t)' /\ main \notin {"dead", "restore"}
          /\ UNCHANGED <<folders, poller, req, outside>>
          /\ \A u \in Thread \ {t} : pc'[u] = pc[u]
      BY <1>1, <1>3 DEF StartRender, SeePublished, Step, Carries, RecoveryInv, NameInv, poller
    <2>3. CASE overtaken
      BY <1>1, <2>2, <2>3 DEF RecoveryInv, NameInv, Present, folders, poller, outside, Carries
    <2>4. CASE ~overtaken
      <3>1. ~Ambiguous(req[t]) => InPlace(req[t])
        BY <2>1, <2>4 DEF RecoveryInv, Calm, HandlersCalm
      <3>2. QED
        BY <2>2, <3>1, CarryOn
    <2>5. QED
      BY <2>3, <2>4
  <1>4. CASE RejectRequest(t)
    BY <1>4, DieRecovers DEF RejectRequest
  <1>5. QED
    BY <1>2, <1>3, <1>4, RemoveRecovers, ReleaseRecovers DEF Handle

LEMMA ArriveRecovers ==
  ASSUME KnownInv, RecoveryInv, NEW s \in Stem, NEW c \in Kinds, Arrive(s, c) PROVE RecoveryInv'
  <1>1. /\ Present(requests) \subseteq Present(requests)'
        /\ arrived \subseteq arrived' /\ regiven \subseteq regiven'
        /\ UNCHANGED <<in_progress, main, current_request, listing, pc, req, orphans, overtaken>>
    <2>1. c # Absent
      BY SizeAssumption DEF Content, Absent
    <2>2. requests \in [Stem -> Content \cup {Absent}] /\ requests' = [requests EXCEPT ![s] = c]
      BY DEF KnownInv, BaseInv, TypeOK, Arrive
    <2>3. Present(requests) \subseteq Present(requests)'
      BY <2>1, <2>2 DEF Present
    <2>4. QED
      BY <2>3 DEF Arrive, poller, workers
  <1>2. NameInv'
    BY <1>1 DEF RecoveryInv, NameInv, Present
  <1>3. ASSUME ~overtaken' PROVE Calm'
    <2>1. Calm
      BY <1>1, <1>3 DEF RecoveryInv
    <2>2. PollerCalm'
      BY <1>1, <2>1 DEF Calm, PollerCalm
    \* What has become ambiguous is excused from now on.
    <2>3. \A q : /\ ~Ambiguous(q)' => ~Ambiguous(q)
                 /\ Selected(q) => Selected(q)'
                 /\ InPlace(q)' <=> InPlace(q)
      BY <1>1 DEF Ambiguous, Selected, InPlace
    <2>4. HandlersCalm' /\ LaunchCalm' /\ AllAttended'
      BY <1>1, <2>1, <2>3
      DEF Calm, HandlersCalm, LaunchCalm, AllAttended, Attended, Carries, Handling, Present
    <2>5. QED
      BY <2>2, <2>4 DEF Calm
  <1>4. QED
    BY <1>2, <1>3 DEF RecoveryInv

LEMMA OrphanRecovers ==
  ASSUME KnownInv, RecoveryInv, NEW c \in Commands, FinishOrphan(c) PROVE RecoveryInv'
  <1>1. /\ c \in orphans
        /\ UNCHANGED <<main, current_request, listing, pc, req, overtaken, arrived, regiven>>
    BY DEF FinishOrphan, poller, workers
  <1>2. \A s \in Present(in_progress)' : s = Plain(s.num)
    <2>1. in_progress \in [Stem -> Content \cup {Absent}]
      BY DEF KnownInv, BaseInv, TypeOK
    <2>2. CASE c.op = "restore" /\ Restore
      BY <2>2 DEF Restore, Present
    <2>3. CASE c.op = "move" /\ Move(c.req)
      <3>1. Plain(c.req) \in Stem /\ Plain(c.req).num = c.req
        BY <2>3, CommandReq, PlainInStem
      <3>2. QED
        BY <2>1, <2>3, <3>1 DEF Move, folders, Present, RecoveryInv, NameInv
    <2>4. CASE c.op = "remove" /\ Remove(c.req)
      BY <2>1, <2>4 DEF Remove, folders, Present, RecoveryInv, NameInv
    <2>5. QED
      BY <2>2, <2>3, <2>4 DEF FinishOrphan
  <1>3. NameInv'
    BY <1>1, <1>2 DEF RecoveryInv, NameInv
  <1>4. ASSUME ~overtaken' PROVE Calm'
    <2>1. main = "dead"
      BY <1>1, <1>4 DEF RecoveryInv, Calm, PollerCalm
    <2>2. \A t \in Thread : pc[t] = "idle"
      BY <2>1 DEF RecoveryInv, NameInv
    <2>3. QED
      BY <1>1, <2>1, <2>2
      DEF Calm, PollerCalm, HandlersCalm, LaunchCalm, AllAttended, Carries, Handling
  <1>5. QED
    BY <1>3, <1>4 DEF RecoveryInv

LEMMA RespawnRecovers == ASSUME KnownInv, RecoveryInv, Respawn PROVE RecoveryInv'
  <1>1. /\ main = "dead" /\ main' = "restore" /\ overtaken' = (overtaken \/ orphans # {})
        /\ UNCHANGED <<requests, in_progress, arrived, regiven, pc, req, orphans>>
    BY DEF Respawn, folders, workers
  <1>2. \A t \in Thread : pc[t] = "idle"
    BY <1>1 DEF RecoveryInv, NameInv
  <1>3. NameInv'
    BY <1>1, <1>2 DEF RecoveryInv, NameInv, Present
  <1>4. ASSUME ~overtaken' PROVE Calm'
    BY <1>1, <1>2, <1>4
    DEF Calm, PollerCalm, HandlersCalm, LaunchCalm, AllAttended, Carries, Handling
  <1>5. QED
    BY <1>3, <1>4 DEF RecoveryInv

LEMMA RecoveryStep == KnownInv /\ RecoveryInv /\ [Next]_vars => RecoveryInv'
  <1> SUFFICES ASSUME KnownInv, RecoveryInv, [Next]_vars PROVE RecoveryInv'
    OBVIOUS
  <1>1. CASE Kill
    BY <1>1, DieRecovers DEF Kill
  <1>2. CASE UNCHANGED vars
    BY <1>2
    DEF vars, folders, poller, workers, outside, RecoveryInv, NameInv, Calm, PollerCalm, HandlersCalm,
        LaunchCalm, AllAttended, Attended, Carries, Handling, Selected, InPlace, Present, Ambiguous
  <1>3. QED
    BY <1>1, <1>2, PollRecovers, HandleRecovers, ArriveRecovers, OrphanRecovers, RespawnRecovers
    DEF Next, TracerNext

LEMMA RecoveryInvariant == Spec => []RecoveryInv
  <1>1. Init => RecoveryInv
    BY DEF Init, RecoveryInv, NameInv, Calm, PollerCalm, HandlersCalm, LaunchCalm, AllAttended,
       Carries, Handling, Present
  <1>2. KnownInv <=> BaseInv /\ Conservation
    BY DEF KnownInv
  <1>3. QED
    BY <1>1, <1>2, RecoveryStep, BaseInvariant, NothingLost, PTL DEF Spec

\* "move all previous in progress requests back" (main.cpp): a file in in_progress
\* always has a handler that will remove it, unless a tracer was started while a
\* command of its predecessor was still to take effect.
THEOREM NoneStranded == Spec => []NotStranded
  <1>1. RecoveryInv => NotStranded
    BY DEF RecoveryInv, Calm, NotStranded
  <1>2. QED
    BY <1>1, RecoveryInvariant, PTL

\* Under the same condition no request is ever carried out by two handlers, unless
\* two files had names with its number or its name was given again: whatever the
\* order in which names arrive.
THEOREM OneHandlerEach == Spec => []OneHandler
  <1>1. RecoveryInv => OneHandler
    <2>1. \A t \in Thread : Handling(t) => Carries(t)
      BY DEF Handling, Carries
    <2>2. QED
      BY <2>1 DEF RecoveryInv, Calm, HandlersCalm, OneHandler
  <1>2. QED
    BY <1>1, RecoveryInvariant, PTL

-----------------------------------------------------------------------------
(***************************************************************************)
(* PathTracer implements RequestQueue, as long as no tracer starts over a   *)
(* command its predecessor left running.  The files in in_progress are the  *)
(* running requests; at most MaxRequests of them exist because each has a   *)
(* handler, each handler a slot, and a mv is only issued by a polling loop  *)
(* that holds one more.                                                    *)
(***************************************************************************)

\* There is room for one more running request.
Roomy ==
  /\ IsFiniteSet(Present(in_progress))
  /\ Cardinality(Present(in_progress)) < MaxRequests

\* An orphaned mv, and there is one at most, still finds the room it was issued for.
Rooms ==
  /\ \A c, d \in orphans : c.op = "move" /\ d.op = "move" => c = d
  /\ \A c \in orphans : c.op = "move" => Roomy
RoomInv == ~overtaken => Rooms

LEMMA SlotCount ==
  ASSUME NEW b \in Slot
  PROVE  IsFiniteSet(Slot \ {b}) /\ Cardinality(Slot \ {b}) = MaxRequests - 1
  <1>1. MaxRequests \in Nat /\ MaxRequests # 0
    BY SizeAssumption
  <1>2. IsFiniteSet(Slot) /\ Cardinality(Slot) = MaxRequests
    <2>1. MaxRequests - 1 \in Int /\ ~(0 > MaxRequests - 1)
      BY <1>1
    <2>2. IsFiniteSet(0 .. MaxRequests - 1) /\ Cardinality(0 .. MaxRequests - 1) = MaxRequests - 1 - 0 + 1
      BY <2>1, FS_Interval
    <2>3. QED
      BY <1>1, <2>2 DEF Slot
  <1>3. QED
    BY <1>2, FS_RemoveElement

\* The handlers of the files in in_progress own different slots, all but the one
\* the polling loop has taken.
LEMMA RoomWhenMoving ==
  ASSUME KnownInv, SlotInv, RecoveryInv, ~overtaken, main = "move" PROVE Roomy
  <1> DEFINE P == Present(in_progress)
             T == Slot \ {buffer_to_use}
             h(s) == CHOOSE t \in Thread : Carries(t) /\ req[t] = s.num
             owned == [s \in P |-> slot[h(s)]]
  <1>1. ASSUME NEW s \in P PROVE h(s) \in Thread /\ Carries(h(s)) /\ req[h(s)] = s.num
    <2>1. Attended(s)
      BY DEF RecoveryInv, Calm, AllAttended
    <2>2. \E t \in Thread : Carries(t) /\ req[t] = s.num
      BY <2>1 DEF Attended, Carries
    <2>3. QED
      BY <2>2
  <1>2. \A t \in Thread : Carries(t) => slot[t] \in T
    BY DEF Carries, SlotInv, SlotExclusive, Live, KnownInv, BaseInv, TypeOK
  <1>3. \A t, u \in Thread : Carries(t) /\ Carries(u) /\ slot[t] = slot[u] => t = u
    BY DEF Carries, SlotInv, SlotExclusive, Live
  <1>4. \A a, b \in P : a.num = b.num => a = b
    BY DEF RecoveryInv, NameInv
  <1> HIDE DEF h, P, T
  <1>5. owned \in [P -> T]
    BY <1>1, <1>2
  <1>6. \A a, b \in P : owned[a] = owned[b] => a = b
    BY <1>1, <1>3, <1>4
  <1>7. owned \in Injection(P, T)
    BY <1>5, <1>6, Fun_IsInj
  <1>8. buffer_to_use \in Slot
    BY DEF KnownInv, BaseInv, Chosen
  <1>9. IsFiniteSet(T) /\ Cardinality(T) = MaxRequests - 1
    BY <1>8, SlotCount DEF T
  <1>10. IsFiniteSet(P) /\ Cardinality(P) <= MaxRequests - 1
    BY <1>7, <1>9, FS_Injection
  <1>11. Cardinality(P) \in Nat
    BY <1>10, FS_CardinalityType
  <1>12. QED
    BY <1>10, <1>11, SizeAssumption DEF Roomy, P

LEMMA SameCommand == \A c, d \in Commands : c.op = d.op /\ c.req = d.req => c = d
  BY DEF Commands

LEMMA DieRooms ==
  ASSUME KnownInv, SlotInv, RecoveryInv, RoomInv, main # "dead", Die PROVE RoomInv'
  <1> SUFFICES ASSUME ~overtaken' PROVE Rooms'
    BY DEF RoomInv
  <1>1. UNCHANGED <<overtaken, in_progress>>
    BY DEF Die, folders
  <1>2. orphans = {}
    BY <1>1 DEF RecoveryInv, Calm, PollerCalm
  <1>3. \A c \in orphans' : c \in Commands /\ c.op = "move" => main = "move" /\ c.req = current_request
    BY <1>2 DEF Die, Pending
  <1>4. \A c \in orphans' : c \in Commands
    BY <1>2 DEF Die, Pending
  <1>5. \A c, d \in orphans' : c.op = "move" /\ d.op = "move" => c = d
    BY <1>3, <1>4, SameCommand
  <1>6. ASSUME NEW c \in orphans', c.op = "move" PROVE Roomy'
    <2>1. Roomy
      BY <1>1, <1>3, <1>4, <1>6, RoomWhenMoving
    <2>2. QED
      BY <1>1, <2>1 DEF Roomy, Present
  <1>7. QED
    BY <1>5, <1>6 DEF Rooms

LEMMA OrphanRooms ==
  ASSUME KnownInv, RecoveryInv, RoomInv, NEW c \in Commands, FinishOrphan(c) PROVE RoomInv'
  <1> SUFFICES ASSUME ~overtaken', NEW d \in orphans', d.op = "move" PROVE Roomy'
    BY DEF RoomInv, Rooms, FinishOrphan
  <1>1. ~overtaken /\ d \in orphans /\ d # c /\ c \in orphans
    BY DEF FinishOrphan
  <1>2. Roomy /\ c.op # "move"
    BY <1>1 DEF RoomInv, Rooms
  <1>3. Present(in_progress)' \subseteq Present(in_progress)
    <2>1. CASE c.op = "restore" /\ Restore
      BY <2>1 DEF Restore, Present
    <2>2. CASE c.op = "remove" /\ Remove(c.req)
      BY <2>2 DEF Remove, Present, folders, KnownInv, BaseInv, TypeOK
    <2>3. QED
      BY <1>2, <2>1, <2>2 DEF FinishOrphan
  <1>4. /\ IsFiniteSet(Present(in_progress)')
        /\ Cardinality(Present(in_progress)') <= Cardinality(Present(in_progress))
    BY <1>2, <1>3, FS_Subset DEF Roomy
  <1>5. Cardinality(Present(in_progress)) \in Nat /\ Cardinality(Present(in_progress)') \in Nat
    BY <1>2, <1>4, FS_CardinalityType DEF Roomy
  <1>6. QED
    BY <1>2, <1>4, <1>5, SizeAssumption DEF Roomy

LEMMA RoomStep ==
  KnownInv /\ SlotInv /\ RecoveryInv /\ RoomInv /\ [Next]_vars => RoomInv'
  <1> SUFFICES ASSUME KnownInv, SlotInv, RecoveryInv, RoomInv, [Next]_vars PROVE RoomInv'
    OBVIOUS
  <1>1. CASE main # "dead" /\ Die
    BY <1>1, DieRooms
  <1>2. ASSUME NEW c \in Commands, FinishOrphan(c) PROVE RoomInv'
    BY <1>2, OrphanRooms
  <1>3. ASSUME UNCHANGED <<in_progress, orphans>>, overtaken => overtaken' PROVE RoomInv'
    BY <1>3 DEF RoomInv, Rooms, Roomy, Present
  <1>4. ASSUME main # "dead", UNCHANGED outside PROVE RoomInv'
    BY <1>4 DEF RoomInv, Rooms, RecoveryInv, Calm, PollerCalm, outside
  <1>5. CASE Poll
    BY <1>1, <1>4, <1>5
    DEF Poll, RestoreInProgress, OpenDirectory, FindEarliest, FindOutOfRange, ProbeTaken, ProbeFree,
        ProbeNone, MoveRequest, Launch
  <1>6. ASSUME NEW t \in Thread, Handle(t) \/ Publish(t) PROVE RoomInv'
    <2>1. pc[t] # "idle" => main # "dead"
      BY DEF RecoveryInv, NameInv
    <2>2. t \in rendering => main # "dead"
      BY <2>1 DEF KnownInv, BaseInv, RenderInv
    <2>3. QED
      BY <1>1, <1>4, <1>6, <2>1, <2>2
      DEF Handle, Publish, ReadRequest, RejectRequest, StartRender, SeePublished, RemoveRequest,
          Release, Step
  <1>7. CASE (\E s \in Stem, c \in Kinds : Arrive(s, c)) \/ Respawn \/ UNCHANGED vars
    <2>1. UNCHANGED <<in_progress, orphans>>
      BY <1>7 DEF Arrive, Respawn, vars, folders, outside
    <2>2. overtaken => overtaken'
      BY <1>7 DEF Arrive, Respawn, vars, outside
    <2>3. QED
      BY <1>3, <2>1, <2>2
  <1>8. CASE Kill
    BY <1>1, <1>8 DEF Kill
  <1>9. QED
    BY <1>2, <1>5, <1>6, <1>7, <1>8 DEF Next, TracerNext

LEMMA RoomInvariant == Spec => [](KnownInv /\ SlotInv /\ RecoveryInv /\ RoomInv)
  <1>1. Init => RoomInv
    BY DEF Init, RoomInv, Rooms
  <1>2. KnownInv <=> BaseInv /\ Conservation
    BY DEF KnownInv
  <1>3. QED
    BY <1>1, <1>2, RoomStep, BaseInvariant, NothingLost, SlotInvariant, RecoveryInvariant, PTL DEF Spec

-----------------------------------------------------------------------------
(* What each change of the folders is to the abstract queue. *)

Mapped == UNCHANGED QueueStatus \/ Queue!QueueNext

\* The instance brings a copy of the operator with it.
LEMMA SameCardinality == \A S : Queue!Cardinality(S) = Cardinality(S)
  BY DEF Queue!Cardinality, Cardinality

LEMMA RunningPresent == Conservation /\ regiven = {} => Queue!Running = Present(in_progress)
  BY DEF Queue!Running, QueueStatus, Present, Conservation

LEMMA SameFolders == UNCHANGED folders => Mapped
  BY DEF folders, Mapped, QueueStatus

LEMMA RestoreMaps == KnownInv /\ regiven = {} /\ Restore => Mapped
  <1> SUFFICES ASSUME KnownInv, regiven = {}, Restore PROVE Mapped
    OBVIOUS
  <1>1. QueueStatus' = [j \in Stem |-> IF j \in Queue!Running THEN "queued" ELSE QueueStatus[j]]
    BY DEF Restore, QueueStatus, Queue!Running, KnownInv, Conservation, Absent
  <1>2. QED
    BY <1>1 DEF Mapped, Queue!QueueNext, Queue!Requeue

LEMMA MoveMaps == ASSUME KnownInv, regiven = {}, NEW r \in Request, Move(r), Roomy PROVE Mapped
  <1> DEFINE p == Plain(r)
  <1>1. CASE requests[p] = Absent
    BY <1>1, SameFolders DEF Move
  <1>2. CASE requests[p] # Absent
    <2>1. p \in Stem
      BY PlainInStem
    <2>2. /\ requests' = [requests EXCEPT ![p] = Absent] /\ UNCHANGED done
          /\ in_progress' = [in_progress EXCEPT ![p] = requests[p]]
      BY <1>2 DEF Move
    <2>3. QueueStatus[p] = "queued"
      BY <1>2, <2>1 DEF QueueStatus, KnownInv, Conservation
    <2>4. QueueStatus' = [QueueStatus EXCEPT ![p] = "running"]
      BY <1>2, <2>1, <2>2 DEF QueueStatus, KnownInv, BaseInv, TypeOK, Conservation
    <2>5. Cardinality(Queue!Running) < MaxRequests
      BY RunningPresent DEF KnownInv, Roomy
    <2>6. QED
      <3>1. Queue!Start(p)
        BY <2>3, <2>4, <2>5, SameCardinality DEF Queue!Start
      <3>2. QED
        BY <2>1, <3>1 DEF Mapped, Queue!QueueNext
  <1>3. QED
    BY <1>1, <1>2

LEMMA RemoveMaps == ASSUME KnownInv, regiven = {}, NEW r \in Request, Remove(r) PROVE Mapped
  <1> DEFINE p == Plain(r)
  <1>1. CASE in_progress[p] = Absent
    BY <1>1, SameFolders DEF Remove
  <1>2. CASE in_progress[p] # Absent
    <2>1. p \in Stem
      BY PlainInStem
    <2>2. /\ in_progress' = [in_progress EXCEPT ![p] = Absent] /\ UNCHANGED requests
          /\ done' = done \cup {p}
      BY <1>2 DEF Remove
    <2>3. QueueStatus[p] = "running"
      BY <1>2, <2>1 DEF QueueStatus, KnownInv, Conservation
    <2>4. QueueStatus' = [QueueStatus EXCEPT ![p] = "done"]
      BY <2>1, <2>2 DEF QueueStatus, KnownInv, BaseInv, TypeOK
    <2>5. QED
      BY <2>1, <2>3, <2>4 DEF Mapped, Queue!QueueNext, Queue!Finish
  <1>3. QED
    BY <1>1, <1>2

\* A new name is a new request; a file written over a waiting one is the same request.
LEMMA ArriveMaps ==
  ASSUME KnownInv, regiven = {}, regiven' = {}, NEW s \in Stem, NEW c \in Kinds, Arrive(s, c)
  PROVE  Mapped
  <1>1. c # Absent
    BY SizeAssumption DEF Content, Absent
  <1>2. /\ requests' = [requests EXCEPT ![s] = c] /\ UNCHANGED <<in_progress, done>>
        /\ ~(s \in arrived /\ requests[s] = Absent)
    BY DEF Arrive
  <1>3. requests \in [Stem -> Content \cup {Absent}]
    BY DEF KnownInv, BaseInv, TypeOK
  <1>4. CASE s \notin arrived
    <2>1. QueueStatus[s] = "absent" /\ s \notin done /\ in_progress[s] = Absent
      BY <1>4 DEF QueueStatus, KnownInv, Conservation
    <2>2. QueueStatus' = [QueueStatus EXCEPT ![s] = "queued"]
      BY <1>1, <1>2, <1>3, <2>1 DEF QueueStatus
    <2>3. QED
      BY <2>1, <2>2 DEF Mapped, Queue!QueueNext, Queue!Submit
  <1>5. CASE s \in arrived
    <2>1. requests[s] # Absent
      BY <1>2, <1>5
    <2>2. UNCHANGED QueueStatus
      BY <1>1, <1>2, <1>3, <2>1 DEF QueueStatus
    <2>3. QED
      BY <2>2 DEF Mapped
  <1>6. QED
    BY <1>4, <1>5

LEMMA StepMaps ==
  KnownInv /\ SlotInv /\ RecoveryInv /\ RoomInv /\ ~overtaken /\ regiven = {} /\ regiven' = {}
    /\ [Next]_vars => Mapped
  <1> SUFFICES ASSUME KnownInv, SlotInv, RecoveryInv, RoomInv, ~overtaken, regiven = {},
                      regiven' = {}, [Next]_vars
               PROVE  Mapped
    OBVIOUS
  <1>1. CASE MoveRequest
    <2>1. Move(current_request) /\ current_request \in Request /\ Roomy
      BY <1>1, RoomWhenMoving DEF MoveRequest, KnownInv, BaseInv, Chosen
    <2>2. QED
      BY <2>1, MoveMaps
  <1>2. CASE Poll
    BY <1>1, <1>2, SameFolders, RestoreMaps
    DEF Poll, RestoreInProgress, OpenDirectory, FindEarliest, FindOutOfRange, Die, ProbeTaken,
        ProbeFree, ProbeNone, Launch
  <1>3. ASSUME NEW t \in Thread, Handle(t) \/ Publish(t) PROVE Mapped
    <2>1. CASE RemoveRequest(t)
      <3>1. req[t] \in Request /\ Remove(req[t])
        BY <2>1 DEF RemoveRequest, Step, KnownInv, BaseInv, Chosen, Live
      <3>2. QED
        BY <3>1, RemoveMaps
    <2>2. QED
      BY <1>3, <2>1, SameFolders
      DEF Handle, Publish, ReadRequest, RejectRequest, Die, StartRender, SeePublished, Release
  <1>4. ASSUME NEW c \in Commands, FinishOrphan(c) PROVE Mapped
    <2>1. CASE c.op = "restore" /\ Restore
      BY <2>1, RestoreMaps
    <2>2. CASE c.op = "move" /\ Move(c.req)
      <3>1. Roomy /\ c.req \in Request
        BY <1>4, <2>2, CommandReq DEF FinishOrphan, RoomInv, Rooms
      <3>2. QED
        BY <2>2, <3>1, MoveMaps
    <2>3. CASE c.op = "remove" /\ Remove(c.req)
      BY <2>3, CommandReq, RemoveMaps
    <2>4. QED
      BY <1>4, <2>1, <2>2, <2>3 DEF FinishOrphan
  <1>5. CASE Kill \/ Respawn \/ UNCHANGED vars
    BY <1>5, SameFolders DEF Kill, Die, Respawn, vars
  <1>6. QED
    BY <1>2, <1>3, <1>4, <1>5, ArriveMaps DEF Next, TracerNext

\* The tracer carries out requests as the abstract queue allows (at most max_requests
\* at a time, each finished once, requeued only by recovery), in every behaviour
\* in which no tracer overtakes its predecessor's commands and no name is given again
\* after its file was taken.
THEOREM Refinement == Spec /\ []~overtaken /\ [](regiven = {}) => ImplementsQueue
  <1> DEFINE Fresh == regiven = {}
  <1>1. Init => Queue!QueueInit
    BY DEF Init, Queue!QueueInit, QueueStatus
  <1>2. KnownInv /\ SlotInv /\ RecoveryInv /\ RoomInv /\ ~overtaken /\ Fresh /\ Fresh' /\ [Next]_vars
          => [Queue!QueueNext]_QueueStatus
    BY StepMaps DEF Mapped
  <1>3. Fresh <=> regiven = {}
    OBVIOUS
  <1> HIDE DEF Fresh
  <1>4. QED
    BY <1>1, <1>2, <1>3, RoomInvariant, PTL DEF Spec, ImplementsQueue, Queue!QueueSpec

\* When the supervisor's next spawn always comes after the old tracer's commands have
\* taken effect and names are not reused, both conditions are met and the tracer
\* implements the abstract queue.
THEOREM SlowRestartRefines ==
  ASSUME FastRestart = FALSE, ReuseNames = {} PROVE Spec => ImplementsQueue
  <1> DEFINE Kept == ~overtaken /\ regiven = {}
  <1>1. Init => Kept
    BY DEF Init
  <1>2. Kept /\ [Next]_vars => Kept'
    <2> SUFFICES ASSUME ~overtaken, regiven = {}, [Next]_vars PROVE ~overtaken' /\ regiven' = {}
      OBVIOUS
    <2>1. CASE Poll
      BY <2>1 DEF Poll, RestoreInProgress, OpenDirectory, FindEarliest, FindOutOfRange, Die,
        ProbeTaken, ProbeFree, ProbeNone, MoveRequest, Launch, outside
    <2>2. ASSUME NEW t \in Thread, Handle(t) \/ Publish(t) PROVE ~overtaken' /\ regiven' = {}
      BY <2>2 DEF Handle, Publish, ReadRequest, RejectRequest, Die, StartRender, SeePublished,
        RemoveRequest, Release, outside
    <2>3. CASE Respawn
      BY <2>3 DEF Respawn
    <2>4. CASE Kill \/ UNCHANGED vars
      BY <2>4 DEF Kill, Die, vars, outside
    <2>5. ASSUME NEW c \in Commands, FinishOrphan(c) PROVE ~overtaken' /\ regiven' = {}
      BY <2>5 DEF FinishOrphan
    <2>6. ASSUME NEW s \in Stem, NEW c \in Kinds, Arrive(s, c) PROVE ~overtaken' /\ regiven' = {}
      BY <2>6 DEF Arrive
    <2>7. QED
      BY <2>1, <2>2, <2>3, <2>4, <2>5, <2>6 DEF Next, TracerNext
  <1>3. Kept <=> ~overtaken /\ regiven = {}
    OBVIOUS
  <1> HIDE DEF Kept
  <1>4. QED
    BY <1>1, <1>2, <1>3, Refinement, PTL DEF Spec
=============================================================================
