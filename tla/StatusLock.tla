-------------------------------- MODULE StatusLock --------------------------------
(***************************************************************************)
(* What the status of a lesson-plan request promises to its clients, with  *)
(* nothing of how endpoints, task records and jobs bring it about: an      *)
(* operation takes the request from the one status that admits it, holds   *)
(* it alone, and leaves it in a status from which the user can go on.      *)
(* LesplanLifecycle implements this (its ImplementsStatusLock).            *)
(*                                                                         *)
(* The promise is conditional.  raced says that one of the known overlaps  *)
(* has happened (LesplanLifecycle's history); from then on the status is   *)
(* only a status.                                                          *)
(***************************************************************************)
CONSTANT Calls

VARIABLES
    phase,      \* the status, "GONE" once the request is deleted
    holders,    \* the calls whose operation is under way
    raced       \* whether the promise has been broken

-----------------------------------------------------------------------------------
Operations == {"overview", "revision", "lessons", "lesson_revision"}

\* The status that admits an operation, the one it shows, and those it may leave.
Before == [overview |-> "PENDING", revision |-> "OVERVIEW_READY",
           lessons |-> "OVERVIEW_READY", lesson_revision |-> "COMPLETED"]

During == [overview |-> "GENERATING_OVERVIEW", revision |-> "REVISING_OVERVIEW",
           lessons |-> "GENERATING_LESSONS", lesson_revision |-> "REVISING_LESSON"]

After == [overview |-> {"OVERVIEW_READY", "FAILED"}, revision |-> {"OVERVIEW_READY"},
          lessons |-> {"COMPLETED", "FAILED"}, lesson_revision |-> {"COMPLETED"}]

Phases == {"PENDING", "OVERVIEW_READY", "COMPLETED", "FAILED", "GONE"}
            \union {During[o] : o \in Operations}

Init == phase = "PENDING" /\ holders = {} /\ raced = FALSE

Take(c) ==
    /\ holders = {} /\ holders' = {c}
    /\ \E o \in Operations : phase = Before[o] /\ phase' = During[o]

Give(c) ==
    /\ holders = {c} /\ holders' = {}
    /\ \/ \E o \in Operations : phase = During[o] /\ phase' \in After[o]
       \/ phase = "GONE" /\ phase' = "GONE"

\* An operation may be lost, which leaves the status as it is, and the request may be
\* deleted at any time.
Lose ==
    /\ holders' \subseteq holders
    /\ phase' = phase \/ phase' = "GONE"

Hold == ~raced /\ ~raced' /\ (Lose \/ \E c \in Calls : Take(c) \/ Give(c))

Race == raced' /\ phase' \in Phases /\ holders' \in SUBSET Calls

Next == Hold \/ Race

Spec == Init /\ [][Next]_<<phase, holders, raced>>
===================================================================================
