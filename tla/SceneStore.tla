----------------------------- MODULE SceneStore -----------------------------
(***************************************************************************)
(* What the http-server promises about the scenes it is sent, without      *)
(* threads, statements or files: a client is told that its scene was       *)
(* accepted only once it is kept under a name, or the name was given twice, *)
(* a refused scene was never named, and a crash ends only what nobody was   *)
(* told.  Only a scene that is being put under the same name undoes one    *)
(* that is kept.                                                           *)
(***************************************************************************)
CONSTANTS
  Client,    \* the messages
  Name,      \* what a scene can be kept under
  NoName

VARIABLES
  asks,      \* the messages that ask for a scene to be kept
  outcome,   \* of each message, as its client sees it
  name,      \* what it is to be kept under
  kept       \* the scenes that are kept

storeVars == <<asks, outcome, name, kept>>

Pending == {c \in Client : outcome[c] = "pending"}
Namesakes(c) == {d \in Client : name[d] = name[c]}

StoreInit ==
  /\ asks \subseteq Client
  /\ outcome = [c \in Client |-> "pending"]
  /\ name = [c \in Client |-> NoName]
  /\ kept = {}

Tell(c, what) == outcome' = [outcome EXCEPT ![c] = what] /\ UNCHANGED <<asks, name, kept>>

Take(c, n) ==
  /\ c \in Pending \cap asks /\ name[c] = NoName
  /\ name' = [name EXCEPT ![c] = n]
  /\ UNCHANGED <<asks, outcome, kept>>

\* It is put under its name; what was there is gone, and so may the scene be itself if
\* it had a namesake there.
Put(c) ==
  /\ c \in Pending \ kept /\ name[c] # NoName
  /\ kept' \in {kept \ Namesakes(c), (kept \ Namesakes(c)) \cup {c}}
  /\ UNCHANGED <<asks, outcome, name>>

Accept(c) ==
  /\ c \in Pending
  /\ c \in asks => name[c] # NoName /\ (c \in kept \/ Namesakes(c) # {c})
  /\ Tell(c, "accepted")

Refuse(c) ==
  /\ c \in Pending /\ name[c] = NoName
  /\ Tell(c, "refused")

Lose(gone) ==
  /\ outcome' = [c \in Client |-> IF c \in gone THEN "lost" ELSE outcome[c]]
  /\ UNCHANGED <<asks, name, kept>>

StoreNext ==
  \/ \E c \in Client : Put(c) \/ Accept(c) \/ Refuse(c) \/ \E n \in Name : Take(c, n)
  \/ \E gone \in SUBSET Pending : Lose(gone)

StoreSpec == StoreInit /\ [][StoreNext]_storeVars
=============================================================================
