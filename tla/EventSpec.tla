----------------------------- MODULE EventSpec ------------------------------
(***************************************************************************)
(* What the rest of the project takes an Event to be: a flag that wait()    *)
(* finds set and resets in one step, and that signal() sets in one step.    *)
(***************************************************************************)
EXTENDS Naturals

CONSTANTS Waiters, Signallers

VARIABLES
    set,             \* the flag
    phase            \* per thread: outside, inside wait() or signal(), done

evars == <<set, phase>>

EventInit == set \in BOOLEAN /\ phase = [t \in Waiters \cup Signallers |-> "out"]

Enter(t) == /\ phase[t] = "out"
            /\ phase' = [phase EXCEPT ![t] = "in"]
            /\ UNCHANGED set

(* wait() returns because the flag was set, and it is no longer.             *)
Take(t) == /\ phase[t] = "in" /\ set
           /\ set' = FALSE
           /\ phase' = [phase EXCEPT ![t] = "done"]

Raise(t) == /\ phase[t] = "in"
            /\ set' = TRUE
            /\ phase' = [phase EXCEPT ![t] = "done"]

Leave(t) == /\ phase[t] = "done"
            /\ phase' = [phase EXCEPT ![t] = "out"]
            /\ UNCHANGED set

TakeSome == \E t \in Waiters : Take(t)

EventNext == \/ \E t \in Waiters \cup Signallers : Enter(t) \/ Leave(t)
             \/ TakeSome
             \/ \E t \in Signallers : Raise(t)

(* A flag that stays set while someone waits is taken by one who waits.      *)
EventFair == EventInit /\ [][EventNext]_evars /\ WF_evars(TakeSome)
=============================================================================
