------------------------------ MODULE MCThreads ------------------------------
(* Two ways to hand work to another thread, side by side: a behaviour is about
   closures for the blocking pool or about futures for an arbiter. *)
EXTENDS BlockingPool, Remote

VARIABLE part

threadVars == <<part, vars, allVars>>

MCInit == part \in {"blocking", "remote"} /\ Init /\ RemoteInit

InBlocking == part = "blocking" /\ UNCHANGED <<part, allVars>>
InRemote == part = "remote" /\ UNCHANGED <<part, vars>>

MCNext == (InBlocking /\ Next) \/ (InRemote /\ RemoteNext)

\* The fairness of both, each in its own behaviours.
MCFairness ==
  /\ \A t \in Tasks : WF_threadVars(InBlocking /\ SubmitStep(t))
  /\ \A w \in Workers : WF_threadVars(InBlocking /\ WorkerStep(w))
  /\ \A j \in Jobs : WF_threadVars(InRemote /\ subpc[j] # "new" /\ Submission(j))
  /\ WF_threadVars(InRemote /\ Draining) /\ WF_threadVars(InRemote /\ RunnerTask)
  /\ WF_threadVars(InRemote /\ HandleStep)
  /\ WF_threadVars(InRemote /\ jwoken /\ HandlePolled)

MCSpec == MCInit /\ [][MCNext]_threadVars /\ MCFairness
=============================================================================
