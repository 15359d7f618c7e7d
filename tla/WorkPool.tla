------------------------------ MODULE WorkPool ------------------------------
(***************************************************************************)
(* What thread-pool.h promises of a ThreadPool, without threads: scheduled *)
(* thunks wait in line, leave it in the order they came, at most Limit of  *)
(* them are in the hands of a worker at once, and a wait ends only when    *)
(* everything scheduled before it is done.  A stopped pool has nothing     *)
(* left and accepts nothing.                                               *)
(***************************************************************************)
EXTENDS Naturals, Sequences, FiniteSets

CONSTANTS Clients, Thunks, Limit

VARIABLES
    backlog,    \* thunks nobody has taken yet, in the order of schedule()
    busy,       \* thunks taken by a worker and not finished
    done,       \* thunks executed in full
    waiting,    \* clients inside wait()
    owed,       \* what was scheduled when c last entered wait()
    stopped     \* the destructor has passed its own wait()

vars == <<backlog, busy, done, waiting, owed, stopped>>

Scheduled == {backlog[k] : k \in DOMAIN backlog} \union busy \union done

Init ==
    /\ backlog = <<>> /\ busy = {} /\ done = {}
    /\ waiting = {} /\ owed = [c \in Clients |-> {}]
    /\ stopped = FALSE

Schedule(t) ==
    /\ ~stopped /\ t \notin Scheduled
    /\ backlog' = Append(backlog, t)
    /\ UNCHANGED <<busy, done, waiting, owed, stopped>>

\* First come, first served, and never more at once than there are workers.
Take ==
    /\ backlog # <<>> /\ Cardinality(busy) < Limit
    /\ busy' = busy \union {Head(backlog)}
    /\ backlog' = Tail(backlog)
    /\ UNCHANGED <<done, waiting, owed, stopped>>

Finish(t) ==
    /\ t \in busy
    /\ busy' = busy \ {t}
    /\ done' = done \union {t}
    /\ UNCHANGED <<backlog, waiting, owed, stopped>>

BeginWait(c) ==
    /\ ~stopped /\ c \notin waiting
    /\ waiting' = waiting \union {c}
    /\ owed' = [owed EXCEPT ![c] = Scheduled]
    /\ UNCHANGED <<backlog, busy, done, stopped>>

EndWait(c) ==
    /\ c \in waiting /\ owed[c] \subseteq done
    /\ waiting' = waiting \ {c}
    /\ UNCHANGED <<backlog, busy, done, owed, stopped>>

Stop ==
    /\ ~stopped /\ backlog = <<>> /\ busy = {} /\ waiting = {}
    /\ stopped' = TRUE
    /\ UNCHANGED <<backlog, busy, done, waiting, owed>>

Next ==
    \/ \E t \in Thunks : Schedule(t) \/ Finish(t)
    \/ Take \/ Stop
    \/ \E c \in Clients : BeginWait(c) \/ EndWait(c)

Spec == Init /\ [][Next]_vars

\* Nothing taken is left undone, nothing in line is left there.
FairSpec == Spec /\ WF_vars(Take) /\ \A t \in Thunks : WF_vars(Finish(t))
=============================================================================
