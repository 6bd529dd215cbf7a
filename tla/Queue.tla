------------------------------- MODULE Queue -------------------------------
(***************************************************************************)
(* What SteadQ promises of a job, with no files, directories or handles.   *)
(*                                                                         *)
(* A job walks a path through the states of the protocol, one generation   *)
(* per step.  A power loss takes it back to a restorable state.  What is   *)
(* promised to a caller is a generation below which it never falls again.  *)
(***************************************************************************)
EXTENDS Integers

CONSTANTS Jobs, MaximumAttempts

VARIABLES
    state,       \* [Jobs -> [st, gen, att]]: where each job is
    restorable,  \* [Jobs -> set of states]: where a power loss may put it
    promised     \* [Jobs -> Int]: newest generation a caller was told of

queue == <<state, restorable, promised>>

Unpublished == [st |-> "hidden", gen |-> -1, att |-> 0]

----------------------------------------------------------------------------
\* The steps from s to t: published ready or delayed; promoted; claimed, which
\* alone counts an attempt and needs one left; renewed or ended by the holder or
\* the reaper, back to ready or delayed only with an attempt left.  A dead job
\* may be removed; acknowledged and quarantined ones go nowhere.
Follows(j, s, t) ==
    /\ t.gen = s.gen + 1
    /\ \/ /\ s.st = "hidden" /\ t.st \in {"ready", "delayed"}
          /\ t.att = s.att
       \/ /\ s.st = "delayed" /\ t.st = "ready"
          /\ t.att = s.att
       \/ /\ s.st = "ready" /\ t.st = "leased"
          /\ t.att = s.att + 1 /\ t.att <= MaximumAttempts[j]
       \/ /\ s.st = "leased" /\ t.st \in {"leased", "dead", "receipt", "quarantine"}
          /\ t.att = s.att
       \/ /\ s.st = "leased" /\ t.st \in {"ready", "delayed"}
          /\ t.att = s.att /\ t.att < MaximumAttempts[j]
       \/ /\ s.st = "dead" /\ t.st = "removed"
          /\ t.att = s.att

Step(j) ==
    /\ Follows(j, state[j], state'[j])
    /\ state' = [state EXCEPT ![j] = state'[j]]
    /\ restorable' = [restorable EXCEPT ![j] = @ \cup {state'[j]}]
    /\ UNCHANGED promised

\* Older states stop being restorable, and callers are told of what is left.
Settle ==
    /\ UNCHANGED state
    /\ \A j \in Jobs :
         /\ state[j] \in restorable'[j]
         /\ restorable'[j] \subseteq restorable[j]
         /\ promised[j] <= promised'[j]
         /\ \A s \in restorable'[j] : promised'[j] <= s.gen

PowerLoss ==
    /\ \A j \in Jobs : state'[j] \in restorable[j]
    /\ restorable' = [j \in Jobs |-> {state'[j]}]
    /\ UNCHANGED promised

Init ==
    /\ state = [j \in Jobs |-> Unpublished]
    /\ restorable = [j \in Jobs |-> {Unpublished}]
    /\ promised = [j \in Jobs |-> -1]

Next == (\E j \in Jobs : Step(j)) \/ Settle \/ PowerLoss

Spec == Init /\ [][Next]_queue
=============================================================================
