---------------------------- MODULE MCRemoteRun ----------------------------
(* A small instance of RemoteRun: two runs that race for the claim, of      *)
(* which one goes on, and an operator who seals.                            *)
EXTENDS RemoteRun

CONSTANTS r1, r2, o1, o2

Quiet == \A o \in Outputs, n \in 1..LastOrdinal : sent[o][n] = 0

\* Runs and outputs are interchangeable: r1 is the one that takes the claim, at
\* o1.  The other meets it before it sends, and then there are no faults.
Instance ==
    /\ at[r1] # o2
    /\ o2 \notin owned
    /\ phase[r2] # "idle" => faults = 0
    /\ phase[r2] \notin {"idle", "ended"} => Quiet

MCNext == Next /\ Instance'

MCFairSpec ==
    /\ Init /\ [][MCNext]_vars
    /\ \A r \in Runs : WF_vars(RunSteps(r))
    /\ \A p \in Processes : WF_vars(Steps(p))
    /\ \A o \in Outputs :
         SF_vars(\E s \in Sealers : Stopped(o) /\ o \notin sealed /\ Seal(s, o))
=============================================================================
