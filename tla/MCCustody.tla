----------------------------- MODULE MCCustody -----------------------------
(***************************************************************************)
(* Casts of two actors, each on objects that matter to both.               *)
(***************************************************************************)
EXTENDS Custody, TLC

CONSTANTS j1, j2, a1, a2

\* j1 is the suspect; j2 is a sound object, a leftover, or an earlier inmate of
\* the quarantine.
Scene(cast, place1, defect1, place2, defect2, expired) ==
    [cast |-> cast, place |-> (j1 :> <<place1, j1>>) @@ (j2 :> place2),
     defect |-> (j1 :> defect1) @@ (j2 :> defect2), expired |-> expired]

Inmate == <<"quarantine", 1>>

MCScenarios ==
    {Scene({"fsck", "consumer"}, "ready", d, <<"ready", j2>>, "none", {}) : d \in Defects}
    \cup {Scene({"fsck", "consumer"}, "ready", d, Inmate, "header", {}) : d \in {"header", "payload"}}
    \cup {Scene({"fsck", "keeper"}, "receipt", d, None, "none", e) :
            d \in {"none", "name", "type", "links", "header"}, e \in {{}, {j1}}}
    \cup {Scene({"fsck", "keeper"}, "receipt", "header", Inmate, "header", {}),
          Scene({"fsck", "keeper"}, "receipt", "none", <<"temp", j2>>, "none", {})}
    \cup {Scene({"keeper", "prober"}, "receipt", d, <<"receipt", j2>>, "none", {j1}) : d \in {"none", "header"}}
    \cup {Scene({"fsck", a1, a2}, "dead", d, None, "none", {}) : d \in {"none", "type", "tag"}}

\* The administrators are interchangeable: every scene has both or neither.
AdminSymmetry == Permutations({a1, a2})

MCProbe == {Scene({"keeper", "prober"}, "receipt", "none", None, "none", {})}
=============================================================================
