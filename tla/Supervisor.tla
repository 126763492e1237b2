----------------------------- MODULE Supervisor -----------------------------
(***************************************************************************)
(* The master process (src/main.cpp): it forks the http-server and the     *)
(* path-tracer, polls for their exits once a second, forks a dead one      *)
(* again, and kills both from its signal handler.  The handler can run     *)
(* between any two statements of the loop and knows only the global vector  *)
(* children.  Process ids are reused by the system for other processes.    *)
(***************************************************************************)
EXTENDS Integers, FiniteSets

CONSTANTS
  Pid,        \* process ids of the system
  MaxOthers   \* bound: unrelated processes alive at a time

Role == {"http", "tracer"}
None == -1      \* what fork returns on failure, and the mark of a dead child
NoFork == 0     \* spawn is not between its fork and its push_back

ASSUME SupervisorAssumption ==
  /\ Pid \subseteq Nat \ {0}
  /\ IsFiniteSet(Pid)
  /\ MaxOthers \in Nat

VARIABLES
  pc,         \* where main() stands; "exited": _exit, "killed": by SIGKILL
  pid,        \* pid["http"] is http_pid, pid["tracer"] is path_tracer_pid
  children,   \* the global vector, as a set
  forked,     \* the result of fork that spawn has not pushed yet
  os          \* the system's process table

vars == <<pc, pid, children, forked, os>>

Boot == {"boot_http", "boot_tracer"}
SpawnPc == Boot \cup {"http", "tracer"}
Pc == SpawnPc \cup {"reap", "clean", "sleep"}
Gone == pc \in {"exited", "killed"}

\* Which child a spawning statement is about, and the statement after it.
RoleOf(at) == IF at \in {"boot_http", "http"} THEN "http" ELSE "tracer"
After(at) == [boot_http |-> "boot_tracer", boot_tracer |-> "http",
              http |-> "tracer", tracer |-> "reap"][at]

TypeOK ==
  /\ pc \in Pc \cup {"exited", "killed"}
  /\ pid \in [Role -> Pid \cup {None}]
  /\ children \subseteq Pid \cup {None}
  /\ forked \in Pid \cup {None, NoFork}
  /\ os \in [Pid -> Role \cup {"free", "zombie", "other"}]

-----------------------------------------------------------------------------
(* The main thread. *)

\* Mutants of MustSpawn: spawn without looking; spawn at start-up only.
MustSpawnAlways == TRUE
MustSpawnAtBoot == pc \in Boot

\* The two calls before the loop are unconditional, the two in it are guarded.
MustSpawn == pc \in Boot \/ pid[RoleOf(pc)] = None

\* spawn: fork succeeds (the child execs, or fails to and exits: ChildExit) ...
Fork(p) ==
  /\ pc \in SpawnPc /\ forked = NoFork /\ MustSpawn
  /\ os[p] = "free"
  /\ os' = [os EXCEPT ![p] = RoleOf(pc)]
  /\ forked' = p
  /\ UNCHANGED <<pc, pid, children>>

\* ... or fails ...
ForkFails ==
  /\ pc \in SpawnPc /\ forked = NoFork /\ MustSpawn
  /\ forked' = None
  /\ UNCHANGED <<pc, pid, children, os>>

\* Mutant of Record: the pid is returned and not pushed.
RecordUnpushed ==
  /\ pc \in SpawnPc /\ forked # NoFork
  /\ pid' = [pid EXCEPT ![RoleOf(pc)] = forked]
  /\ forked' = NoFork
  /\ pc' = After(pc)
  /\ UNCHANGED <<children, os>>

\* ... and its result is pushed and returned in both cases.
Record ==
  /\ pc \in SpawnPc /\ forked # NoFork
  /\ children' = children \cup {forked}
  /\ pid' = [pid EXCEPT ![RoleOf(pc)] = forked]
  /\ forked' = NoFork
  /\ pc' = After(pc)
  /\ UNCHANGED os

SkipSpawn ==
  /\ pc \in SpawnPc /\ forked = NoFork /\ ~MustSpawn
  /\ pc' = After(pc)
  /\ UNCHANGED <<pid, children, forked, os>>

\* Mutant of Reap: only http_pid is compared.
ReapHttpOnly(p) ==
  /\ pc = "reap"
  /\ os[p] = "zombie"
  /\ os' = [os EXCEPT ![p] = "free"]
  /\ pid' = IF p = pid["http"] THEN [pid EXCEPT !["http"] = None] ELSE pid
  /\ UNCHANGED <<pc, children, forked>>

\* waitpid(-1, ..., WNOHANG) returns a dead child ...
Reap(p) ==
  /\ pc = "reap"
  /\ os[p] = "zombie"
  /\ os' = [os EXCEPT ![p] = "free"]
  /\ pid' = IF p = pid["http"] THEN [pid EXCEPT !["http"] = None]
            ELSE IF p = pid["tracer"] THEN [pid EXCEPT !["tracer"] = None]
            ELSE pid
  /\ UNCHANGED <<pc, children, forked>>

\* ... until there is none.
ReapNone ==
  /\ pc = "reap"
  /\ \A p \in Pid : os[p] # "zombie"
  /\ pc' = "clean"
  /\ UNCHANGED <<pid, children, forked, os>>

\* Mutant of Clean: every pid that is neither of the two variables' is kept.
CleanInverted ==
  /\ pc = "clean"
  /\ children' = {c \in children : \A r \in Role : pid[r] # c}
  /\ pc' = "sleep"
  /\ UNCHANGED <<pid, forked, os>>

Clean ==
  /\ pc = "clean"
  /\ children' = children \ {None}
  /\ pc' = "sleep"
  /\ UNCHANGED <<pid, forked, os>>

Wake ==
  /\ pc = "sleep"
  /\ pc' = "http"
  /\ UNCHANGED <<pid, children, forked, os>>

-----------------------------------------------------------------------------
(* Signals, and the other processes of the system. *)

\* When its parent is gone, a zombie is reaped by the system.
ReapedByInit(table) == [p \in Pid |-> IF table[p] = "zombie" THEN "free" ELSE table[p]]

\* sig_handler on SIGINT or SIGTERM: SIGKILL to every pid in children, then _exit.
\* In the middle of spawn the vector may be moving to larger storage: the handler
\* then reads memory that was freed, so any pid or none.
Signal ==
  /\ ~Gone
  /\ \E read \in IF forked = NoFork THEN {children} ELSE SUBSET Pid :
       os' = ReapedByInit([p \in Pid |-> IF p \in read THEN "free" ELSE os[p]])
  /\ pc' = "exited"
  /\ UNCHANGED <<pid, children, forked>>

\* SIGKILL cannot be caught: no handler runs.
Sigkill ==
  /\ ~Gone
  /\ os' = ReapedByInit(os)
  /\ pc' = "killed"
  /\ UNCHANGED <<pid, children, forked>>

\* A child exits, crashes or is killed.
ChildExit(p) ==
  /\ os[p] \in Role
  /\ os' = [os EXCEPT ![p] = IF Gone THEN "free" ELSE "zombie"]
  /\ UNCHANGED <<pc, pid, children, forked>>

OtherStart(p) ==
  /\ os[p] = "free"
  /\ Cardinality({q \in Pid : os[q] = "other"}) < MaxOthers
  /\ os' = [os EXCEPT ![p] = "other"]
  /\ UNCHANGED <<pc, pid, children, forked>>

OtherExit(p) ==
  /\ os[p] = "other"
  /\ os' = [os EXCEPT ![p] = "free"]
  /\ UNCHANGED <<pc, pid, children, forked>>

-----------------------------------------------------------------------------
Init ==
  /\ pc = "boot_http"
  /\ pid = [r \in Role |-> None]
  /\ children = {}
  /\ forked = NoFork
  /\ os \in [Pid -> {"free", "other"}]
  /\ Cardinality({q \in Pid : os[q] = "other"}) <= MaxOthers

MainThread ==
  \/ \E p \in Pid : Fork(p) \/ Reap(p)
  \/ ForkFails
  \/ Record
  \/ SkipSpawn
  \/ ReapNone
  \/ Clean
  \/ Wake

Next ==
  \/ MainThread
  \/ Signal
  \/ Sigkill
  \/ \E p \in Pid : ChildExit(p) \/ OtherStart(p) \/ OtherExit(p)

Spec == Init /\ [][Next]_vars

\* The main thread keeps running, and fork does not fail for ever.
ForkFor(r) == RoleOf(pc) = r /\ \E p \in Pid : Fork(p)
FairSpec ==
  /\ Spec
  /\ WF_vars(MainThread)
  /\ \A r \in Role : SF_vars(ForkFor(r))

-----------------------------------------------------------------------------
(* Properties. *)

Up(r) == \E p \in Pid : os[p] = r

\* A child of the supervisor, running or not reaped yet.
Ours(p) == os[p] \in Role \cup {"zombie"}

\* However exits, failed forks and reused process ids fall together, there is
\* never a second http-server or a second path-tracer.
OneProcessPerRole == \A p, q \in Pid : os[p] \in Role /\ os[p] = os[q] => p = q

\* Every child is recorded where its exit will be noticed (http_pid or
\* path_tracer_pid) and where the signal handler will find it (children), except
\* while spawn is between fork and push_back.
ChildrenRecorded ==
  ~Gone => \A p \in Pid : Ours(p) =>
             p = forked \/ (p \in children /\ \E r \in Role : pid[r] = p)

\* http_pid and path_tracer_pid are never stale: the process each names is a child
\* that was not reaped, so waitpid's result cannot be mistaken for another.
PidsCurrent ==
  ~Gone => /\ \A r \in Role : pid[r] # None => os[pid[r]] \in {r, "zombie"}
           /\ pid["http"] = pid["tracer"] => pid["http"] = None

\* A caught signal leaves no child behind unless it interrupts spawn between its
\* fork and the end of its push_back.
SignalKillsRecorded ==
  pc = "exited" /\ forked = NoFork => \A r \in Role : ~Up(r)

\* src/README.md, "Respawn if killed".
Respawn == \A r \in Role : ~Up(r) ~> (Up(r) \/ Gone)

\* "Ensure that children are killed on exit + exit signals" (main.cpp): a caught
\* signal never leaves a child behind.
SignalLeavesNoChild == pc = "exited" => \A r \in Role : ~Up(r)
=============================================================================
