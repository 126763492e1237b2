-------------------------- MODULE SupervisorProofs --------------------------
(***************************************************************************)
(* Safety of the supervisor for any set of process ids.  The inductive     *)
(* invariant adds ForkInv to the properties: what holds of the variables   *)
(* while spawn is between its fork and its push_back.                       *)
(***************************************************************************)
EXTENDS Supervisor, TLAPS

\* spawn is called for a role nobody has, its new child is not recorded yet, and
\* at start-up nothing is.
ForkInv ==
  ~Gone =>
    /\ forked # NoFork => pc \in SpawnPc /\ pid[RoleOf(pc)] = None
    /\ forked \in Pid => os[forked] \in {RoleOf(pc), "zombie"} /\ \A r \in Role : pid[r] # forked
    /\ pc = "boot_http" => \A r \in Role : pid[r] = None
    /\ pc = "boot_tracer" => pid["tracer"] = None

IInv ==
  /\ TypeOK
  /\ ForkInv
  /\ PidsCurrent
  /\ ChildrenRecorded
  /\ OneProcessPerRole
  /\ SignalKillsRecorded

\* The marks are no process ids, and the values of os are told apart.
LEMMA Marks == None \notin Pid /\ NoFork \notin Pid /\ None # NoFork
  BY SupervisorAssumption DEF None, NoFork

LEMMA InitInv == Init => IInv
  <1> SUFFICES ASSUME Init PROVE IInv
    OBVIOUS
  <1>1. TypeOK
    BY DEF Init, TypeOK, Pc, SpawnPc, Boot
  <1>2. \A p \in Pid : os[p] \notin Role \cup {"zombie"}
    BY DEF Init, Role
  <1>3. ForkInv
    BY Marks DEF Init, ForkInv
  <1>4. PidsCurrent
    BY DEF Init, PidsCurrent, Role
  <1>5. ChildrenRecorded /\ OneProcessPerRole
    BY <1>2 DEF ChildrenRecorded, OneProcessPerRole, Ours
  <1>6. SignalKillsRecorded
    BY DEF Init, SignalKillsRecorded
  <1>7. QED
    BY <1>1, <1>3, <1>4, <1>5, <1>6 DEF IInv

-----------------------------------------------------------------------------
(* Each step, one conjunct at a time. *)

LEMMA TypeStep == TypeOK /\ [Next]_vars => TypeOK'
  <1> SUFFICES ASSUME TypeOK, [Next]_vars PROVE TypeOK'
    OBVIOUS
  <1> USE DEF TypeOK, Pc, SpawnPc, Boot, Role
  <1>1. CASE MainThread
    <2>1. ASSUME NEW p \in Pid, Fork(p) PROVE TypeOK'
      BY <2>1 DEF Fork, RoleOf
    <2>2. ASSUME NEW p \in Pid, Reap(p) PROVE TypeOK'
      BY <2>2 DEF Reap
    <2>3. CASE Record
      <3>1. forked \in Pid \cup {None} /\ RoleOf(pc) \in Role
        BY <2>3 DEF Record, RoleOf
      <3>2. After(pc) \in Pc
        BY <2>3 DEF Record, After
      <3>3. QED
        BY <2>3, <3>1, <3>2 DEF Record
    <2>4. CASE SkipSpawn
      BY <2>4 DEF SkipSpawn, After
    <2>5. CASE ForkFails \/ ReapNone \/ Clean \/ Wake
      BY <2>5 DEF ForkFails, ReapNone, Clean, Wake
    <2>6. QED
      BY <1>1, <2>1, <2>2, <2>3, <2>4, <2>5 DEF MainThread
  <1>2. CASE Signal
    BY <1>2 DEF Signal, ReapedByInit
  <1>3. CASE Sigkill
    BY <1>3 DEF Sigkill, ReapedByInit
  <1>4. ASSUME NEW p \in Pid, ChildExit(p) \/ OtherStart(p) \/ OtherExit(p) PROVE TypeOK'
    BY <1>4 DEF ChildExit, OtherStart, OtherExit
  <1>5. CASE UNCHANGED vars
    BY <1>5 DEF vars
  <1>6. QED
    BY <1>1, <1>2, <1>3, <1>4, <1>5 DEF Next

\* While the supervisor lives, what its variables say of its children carries over
\* from one step to the next; the history of each child is in these three.
LivingInv == ForkInv /\ PidsCurrent /\ ChildrenRecorded

LEMMA ForkStep == ASSUME TypeOK, LivingInv, NEW p \in Pid, Fork(p) PROVE LivingInv'
  <1> USE Marks DEF LivingInv, TypeOK, Fork, Gone, SpawnPc, Boot
  <1>1. RoleOf(pc) \in Role /\ os'[p] = RoleOf(pc) /\ \A q \in Pid \ {p} : os'[q] = os[q]
    BY DEF RoleOf, Role
  <1>2. \A r \in Role : pid[r] # p
    BY DEF PidsCurrent, Role
  <1>3. pid[RoleOf(pc)] = None
    BY DEF MustSpawn, ForkInv, RoleOf, Role
  <1>4. ForkInv'
    BY <1>1, <1>2, <1>3 DEF ForkInv
  <1>5. PidsCurrent'
    BY <1>1, <1>2 DEF PidsCurrent, Role
  <1>6. ChildrenRecorded'
    BY <1>1 DEF ChildrenRecorded, Ours, ForkInv
  <1>7. QED
    BY <1>4, <1>5, <1>6

LEMMA ForkFailsStep == TypeOK /\ LivingInv /\ ForkFails => LivingInv'
  <1> SUFFICES ASSUME TypeOK, LivingInv, ForkFails PROVE LivingInv'
    OBVIOUS
  <1> USE Marks DEF LivingInv, TypeOK, ForkFails, Gone, SpawnPc, Boot
  <1>1. pid[RoleOf(pc)] = None
    BY DEF MustSpawn, ForkInv, RoleOf, Role
  <1>2. ForkInv'
    BY <1>1 DEF ForkInv
  <1>3. PidsCurrent' /\ ChildrenRecorded'
    BY DEF PidsCurrent, ChildrenRecorded, Ours
  <1>4. QED
    BY <1>2, <1>3

LEMMA RecordStep == TypeOK /\ LivingInv /\ Record => LivingInv'
  <1> SUFFICES ASSUME TypeOK, LivingInv, Record PROVE LivingInv'
    OBVIOUS
  <1> USE Marks DEF LivingInv, TypeOK, Record
  <1>1. pc \in SpawnPc /\ ~Gone /\ RoleOf(pc) \in Role /\ forked # NoFork
    BY DEF SpawnPc, Boot, Gone, RoleOf, Role
  <1>2. /\ pid' = [pid EXCEPT ![RoleOf(pc)] = forked] /\ pid[RoleOf(pc)] = None
        /\ pid \in [Role -> Pid \cup {None}] /\ UNCHANGED os /\ forked' = NoFork
        /\ children' = children \cup {forked}
    BY <1>1 DEF ForkInv
  <1>3. \A r \in Role : pid'[r] = IF r = RoleOf(pc) THEN forked ELSE pid[r]
    BY <1>1, <1>2
  <1>4. ForkInv'
    <2>1. pc' # "boot_http" /\ (pc' = "boot_tracer" => pc = "boot_http")
      BY <1>1 DEF SpawnPc, Boot, After
    <2>2. pc' = "boot_tracer" => pid'["tracer"] = None
      BY <1>1, <1>3, <2>1 DEF ForkInv, RoleOf, Role
    <2>3. QED
      BY <1>2, <2>1, <2>2 DEF ForkInv
  <1>5. PidsCurrent'
    <2>1. forked # None => os[forked] \in {RoleOf(pc), "zombie"} /\ \A r \in Role : pid[r] # forked
      BY <1>1 DEF ForkInv
    <2>2. \A r \in Role : pid'[r] # None => os[pid'[r]] \in {r, "zombie"}
      BY <1>1, <1>3, <2>1 DEF PidsCurrent
    <2>3. pid'["http"] = pid'["tracer"] => pid'["http"] = None
      BY <1>1, <1>3, <2>1 DEF PidsCurrent, RoleOf, Role
    <2>4. QED
      BY <1>2, <2>2, <2>3 DEF PidsCurrent
  <1>6. ChildrenRecorded'
    <2>1. ASSUME NEW p \in Pid, Ours(p) PROVE p \in children' /\ \E r \in Role : pid'[r] = p
      <3>1. CASE p = forked
        BY <1>1, <1>2, <1>3, <3>1
      <3>2. CASE p # forked
        BY <1>1, <1>2, <1>3, <2>1, <3>2 DEF ChildrenRecorded
      <3>3. QED
        BY <3>1, <3>2
    <2>2. \A p \in Pid : Ours(p)' <=> Ours(p)
      BY <1>2 DEF Ours
    <2>3. QED
      BY <2>1, <2>2 DEF ChildrenRecorded
  <1>7. QED
    BY <1>4, <1>5, <1>6

LEMMA SkipStep == TypeOK /\ LivingInv /\ SkipSpawn => LivingInv'
  <1> SUFFICES ASSUME TypeOK, LivingInv, SkipSpawn PROVE LivingInv'
    OBVIOUS
  <1> USE Marks DEF LivingInv, TypeOK, SkipSpawn
  <1>1. pc \in {"http", "tracer"} /\ ~Gone /\ forked' = NoFork
    BY DEF MustSpawn, SpawnPc, Boot, Gone
  <1>2. pc' \notin Boot
    BY <1>1 DEF After, Boot
  <1>3. ForkInv'
    BY <1>1, <1>2 DEF ForkInv, Boot
  <1>4. PidsCurrent' /\ ChildrenRecorded'
    BY <1>1 DEF PidsCurrent, ChildrenRecorded, Ours
  <1>5. QED
    BY <1>3, <1>4

LEMMA ReapStep == ASSUME TypeOK, LivingInv, NEW p \in Pid, Reap(p) PROVE LivingInv'
  <1> USE Marks DEF LivingInv, TypeOK, Reap
  <1>1. ~Gone /\ ~Gone' /\ forked = NoFork /\ UNCHANGED <<children, forked>> /\ pc' = "reap"
    BY DEF Gone, ForkInv, SpawnPc, Boot
  <1>2. os'[p] = "free" /\ \A q \in Pid \ {p} : os'[q] = os[q]
    OBVIOUS
  <1>3. \A r \in Role : pid'[r] = IF pid[r] = p THEN None ELSE pid[r]
    BY <1>1 DEF PidsCurrent, Role
  <1>4. ForkInv'
    BY <1>1 DEF ForkInv
  <1>5. PidsCurrent'
    BY <1>1, <1>2, <1>3 DEF PidsCurrent, Role
  <1>6. ChildrenRecorded'
    BY <1>1, <1>2, <1>3 DEF ChildrenRecorded, Ours, Role
  <1>7. QED
    BY <1>4, <1>5, <1>6

LEMMA LoopStep == TypeOK /\ LivingInv /\ (ReapNone \/ Clean \/ Wake) => LivingInv'
  <1> SUFFICES ASSUME TypeOK, LivingInv, ReapNone \/ Clean \/ Wake PROVE LivingInv'
    OBVIOUS
  <1> USE Marks DEF LivingInv, TypeOK, ReapNone, Clean, Wake
  <1>1. ~Gone /\ forked = NoFork /\ UNCHANGED <<pid, forked, os>> /\ pc' \notin Boot
    BY DEF Gone, ForkInv, SpawnPc, Boot
  <1>2. \A p \in Pid : p \in children => p \in children'
    OBVIOUS
  <1>3. ForkInv' /\ PidsCurrent'
    BY <1>1 DEF ForkInv, PidsCurrent, Boot
  <1>4. ChildrenRecorded'
    BY <1>1, <1>2 DEF ChildrenRecorded, Ours
  <1>5. QED
    BY <1>3, <1>4

LEMMA ChildExitStep == ASSUME TypeOK, LivingInv, NEW p \in Pid, ChildExit(p) PROVE LivingInv'
  <1> USE Marks DEF LivingInv, TypeOK, ChildExit
  <1>1. UNCHANGED <<pc, pid, children, forked>>
    OBVIOUS
  <1>2. ~Gone => os'[p] = "zombie" /\ \A q \in Pid \ {p} : os'[q] = os[q]
    OBVIOUS
  <1>3. ForkInv'
    BY <1>1, <1>2 DEF ForkInv, Gone
  <1>4. PidsCurrent'
    BY <1>1, <1>2 DEF PidsCurrent, Gone, Role
  <1>5. ChildrenRecorded'
    BY <1>1, <1>2 DEF ChildrenRecorded, Ours, Gone
  <1>6. QED
    BY <1>3, <1>4, <1>5

LEMMA OtherStep ==
  ASSUME TypeOK, LivingInv, NEW p \in Pid, OtherStart(p) \/ OtherExit(p) PROVE LivingInv'
  <1> USE Marks DEF LivingInv, TypeOK, OtherStart, OtherExit
  <1>1. UNCHANGED <<pc, pid, children, forked>>
    OBVIOUS
  <1>2. /\ os[p] \in {"free", "other"} /\ os'[p] \in {"free", "other"}
        /\ \A q \in Pid \ {p} : os'[q] = os[q]
    OBVIOUS
  <1>3. ForkInv'
    BY <1>1, <1>2 DEF ForkInv, Gone, RoleOf
  <1>4. PidsCurrent'
    BY <1>1, <1>2 DEF PidsCurrent, Gone, Role
  <1>5. ChildrenRecorded'
    BY <1>1, <1>2 DEF ChildrenRecorded, Ours, Gone, Role
  <1>6. QED
    BY <1>3, <1>4, <1>5

LEMMA EndStep == LivingInv /\ (Signal \/ Sigkill) => LivingInv'
  BY DEF LivingInv, Signal, Sigkill, Gone, ForkInv, PidsCurrent, ChildrenRecorded

LEMMA LivingStep == TypeOK /\ LivingInv /\ [Next]_vars => LivingInv'
  <1> SUFFICES ASSUME TypeOK, LivingInv, [Next]_vars PROVE LivingInv'
    OBVIOUS
  <1>1. CASE MainThread
    BY <1>1, ForkStep, ForkFailsStep, RecordStep, SkipStep, ReapStep, LoopStep DEF MainThread
  <1>2. CASE UNCHANGED vars
    BY <1>2 DEF vars, LivingInv, Gone, ForkInv, PidsCurrent, ChildrenRecorded, Ours
  <1>3. QED
    BY <1>1, <1>2, EndStep, ChildExitStep, OtherStep DEF Next

LEMMA LivingOnePerRole == TypeOK /\ LivingInv /\ ~Gone => OneProcessPerRole
  <1> SUFFICES ASSUME TypeOK, LivingInv, ~Gone,
                      NEW p \in Pid, NEW q \in Pid, os[p] \in Role, os[p] = os[q]
               PROVE  p = q
    BY DEF OneProcessPerRole
  <1>1. ASSUME NEW x \in Pid, os[x] = os[p] PROVE pid[os[p]] = x \/ x = forked
    <2>1. x = forked \/ \E r \in Role : pid[r] = x
      BY <1>1 DEF LivingInv, ChildrenRecorded, Ours
    <2>2. QED
      BY <1>1, <2>1, Marks DEF LivingInv, PidsCurrent, Role
  <1>2. forked \in Pid /\ os[forked] = os[p] => pid[os[p]] = None
    BY Marks DEF LivingInv, ForkInv, Role
  <1>3. QED
    BY <1>1, <1>2, Marks

LEMMA InvStep == IInv /\ [Next]_vars => IInv'
  <1> SUFFICES ASSUME IInv, [Next]_vars PROVE IInv'
    OBVIOUS
  <1>1. TypeOK /\ TypeOK' /\ LivingInv /\ LivingInv'
    BY TypeStep, LivingStep DEF IInv, LivingInv
  <1>2. CASE ~Gone'
    <2>1. OneProcessPerRole'
      BY <1>1, <1>2, LivingOnePerRole, PTL
    <2>2. SignalKillsRecorded'
      BY <1>2 DEF SignalKillsRecorded, Gone
    <2>3. QED
      BY <1>1, <2>1, <2>2 DEF IInv, LivingInv
  <1>3. CASE Gone'
    <2>1. \A p \in Pid : os'[p] \in Role => os'[p] = os[p]
      <3> USE <1>1, <1>3 DEF Gone, SpawnPc, Boot, TypeOK, Role, After
      <3>1. CASE MainThread
        BY <3>1 DEF MainThread, Fork, Reap, ForkFails, Record, SkipSpawn, ReapNone, Clean, Wake
      <3>2. CASE Signal \/ Sigkill
        BY <3>2 DEF Signal, Sigkill, ReapedByInit
      <3>3. ASSUME NEW q \in Pid, ChildExit(q) \/ OtherStart(q) \/ OtherExit(q)
            PROVE  \A p \in Pid : os'[p] \in Role => os'[p] = os[p]
        BY <3>3 DEF ChildExit, ReapedByInit, OtherStart, OtherExit
      <3>4. CASE UNCHANGED vars
        BY <3>4 DEF vars
      <3>5. QED
        BY <3>1, <3>2, <3>3, <3>4 DEF Next
    <2>2. OneProcessPerRole'
      BY <2>1 DEF IInv, OneProcessPerRole
    <2>3. SignalKillsRecorded'
      <3> SUFFICES ASSUME pc' = "exited", forked' = NoFork, NEW r \in Role, NEW p \in Pid, os'[p] = r
                   PROVE  FALSE
        BY DEF SignalKillsRecorded, Up
      <3>1. CASE pc = "exited"
        <4>1. forked = NoFork
          BY <3>1 DEF Next, MainThread, Fork, Reap, ForkFails, Record, SkipSpawn, ReapNone, Clean,
            Wake, Signal, Sigkill, ChildExit, OtherStart, OtherExit, vars, Gone, SpawnPc, Boot
        <4>2. QED
          BY <2>1, <3>1, <4>1 DEF IInv, SignalKillsRecorded, Up
      <3>2. CASE pc # "exited"
        <4>0. pc \in SpawnPc => After(pc) # "exited"
          BY DEF SpawnPc, Boot, After
        <4>1. Signal
          BY <1>1, <3>2, <4>0 DEF Next, MainThread, Fork, Reap, ForkFails, Record, SkipSpawn, ReapNone,
            Clean, Wake, Sigkill, ChildExit, OtherStart, OtherExit, vars
        <4>2. os[p] \in Role /\ ~Gone /\ forked = NoFork
          BY <2>1, <4>1 DEF Signal
        <4>3. p \in children
          BY <1>1, <4>2, Marks DEF LivingInv, ChildrenRecorded, Ours
        <4>4. os'[p] = "free"
          BY <4>1, <4>2, <4>3 DEF Signal, ReapedByInit
        <4>5. QED
          BY <4>4 DEF Role
      <3>3. QED
        BY <3>1, <3>2
    <2>4. QED
      BY <1>1, <2>2, <2>3 DEF IInv, LivingInv
  <1>4. QED
    BY <1>2, <1>3

LEMMA Invariant == Spec => []IInv
  BY InitInv, InvStep, PTL DEF Spec

-----------------------------------------------------------------------------
\* Every variable keeps to its type, for every set of process ids.
THEOREM Typing == Spec => []TypeOK
  BY Invariant, PTL DEF IInv

\* Exits, failed forks and reused pids never lead to a second process of a role.
THEOREM OneEach == Spec => []OneProcessPerRole
  BY Invariant, PTL DEF IInv

\* Each child is known to the waitpid loop and to the signal handler, but for the
\* moment between fork and push_back.
THEOREM AllRecorded == Spec => []ChildrenRecorded
  BY Invariant, PTL DEF IInv

\* http_pid and path_tracer_pid name children that were not reaped, or are -1.
THEOREM NoStalePid == Spec => []PidsCurrent
  BY Invariant, PTL DEF IInv

\* A caught signal leaves no child behind unless it falls into spawn.
THEOREM SignalKills == Spec => []SignalKillsRecorded
  BY Invariant, PTL DEF IInv
=============================================================================
