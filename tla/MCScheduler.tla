----------------------------- MODULE MCScheduler -----------------------------
(***************************************************************************)
(* Scheduler on three systems and two groups.                              *)
(***************************************************************************)
EXTENDS Scheduler

CONSTANTS a, b, c, g1, g2, elsewhere

MCSystem == {a, b, c}
MCGroup == {g1, g2}
MCTarget == MCSystem \cup {elsewhere}

MCName == [s \in MCSystem |-> s]

MCInterval == (a :> 0) @@ (b :> 2) @@ (c :> 0)
MCMaxEntries == (g1 :> 3) @@ (g2 :> 1)

MCFlushMode == (a :> "PER_SYSTEM") @@ (b :> "PER_GROUP") @@ (c :> "MANUAL")

After(t) == [order |-> "After", target |-> t]
Before(t) == [order |-> "Before", target |-> t]

AllInG1 == [s \in MCSystem |-> g1]

\* Constraints of both kinds that ask for c, b, a, and one on a system that is
\* not there; a cycle with a system behind it; a cycle in one group and a system
\* in the other.
MCSetups ==
  { [group |-> AllInG1,
     deps |-> (a :> <<After(elsewhere)>>) @@ (b :> <<Before(a), After(c)>>) @@ (c :> <<Before(a)>>)],
    [group |-> AllInG1,
     deps |-> (a :> <<After(b)>>) @@ (b :> <<After(c), Before(c)>>) @@ (c :> <<>>)],
    [group |-> (b :> g2) @@ AllInG1,
     deps |-> (a :> <<After(c)>>) @@ (b :> <<>>) @@ (c :> <<After(a)>>)] }
=============================================================================
