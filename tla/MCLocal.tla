------------------------------- MODULE MCLocal -------------------------------
(* The instances of LocalServices. *)
EXTENDS LocalServices, TLC

CONSTANTS root, a, b, t1, t2, c1, h1

TwoChildren == (root :> <<a, b>>) @@ (a :> <<>>) @@ (b :> <<>>)
RootAndChild == (t1 :> root) @@ (t2 :> a)
ChildSources == {{a}, {b}, {root, a}}

\* A part that is left aside has one initial state; the hosts are named by the
\* first call.
MCInit ==
  /\ LocalInit
  /\ part # "readiness" => \A s \in Scopes : cond[s]
  /\ part # "callbacks" => clk = 0
  /\ \A c \in Calls : part # "pool" \/ c = c1 => host[c] = h1

MCSpec == MCInit /\ [][LocalNext]_localVars /\ LocalFairness
=============================================================================
