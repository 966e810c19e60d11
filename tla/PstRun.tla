------------------------------- MODULE PstRun -------------------------------
(***************************************************************************)
(* kvmd-pstrun (kvmd/apps/pstrun/__init__.py): it runs a process while     *)
(* kvmd-pst allows to write, and kills it when that ends.  Terminal        *)
(* handling is left out.                                                   *)
(***************************************************************************)
EXTENDS Pst

CONSTANTS Runner,  \* the client that is kvmd-pstrun
          MaxRuns  \* bound on its runs

ASSUME RunAssumption == Runner \in Clients

VARIABLES
  run,   \* "off", "listening", "running" or "killing"
  runs   \* runs that may still come

runVars == <<run, runs>>

RunStarts ==
  /\ run = "off" /\ runs > 0
  /\ runs' = runs - 1
  /\ run' = "listening"
  /\ Connect(Runner)
  /\ UNCHANGED <<mount, failures>>

\* Only what the server says counts, and not that it is gone.
RunReceives_Deaf ==
  /\ run = "listening"
  /\ \/ /\ inbox[Runner] # <<>>
        /\ inbox' = [inbox EXCEPT ![Runner] = Tail(@)]
        /\ run' = IF Head(inbox[Runner]) THEN "running" ELSE "killing"
        /\ UNCHANGED <<link, told>>
     \/ /\ inbox[Runner] = <<>> /\ link[Runner] = "closed"
        /\ run' = "killing"
        /\ UNCHANGED clients
  /\ UNCHANGED <<mount, server, failures, runs>>

\* One message, or the end of the connection after the last one.
RunReceives ==
  /\ run \in {"listening", "running"}
  /\ \/ /\ inbox[Runner] # <<>>
        /\ inbox' = [inbox EXCEPT ![Runner] = Tail(@)]
        /\ run' = IF Head(inbox[Runner]) THEN "running" ELSE "killing"
        /\ UNCHANGED <<link, told>>
     \/ /\ inbox[Runner] = <<>> /\ link[Runner] = "closed"
        /\ run' = "killing"
        /\ UNCHANGED clients
  /\ UNCHANGED <<mount, server, failures, runs>>

\* The process writes to the partition.
ProcessOpens ==
  /\ run = "running" /\ rw
  /\ files' = files \cup {Runner}
  /\ UNCHANGED <<rw, server, clients, failures, runVars>>

ProcessCloses ==
  /\ run = "running" /\ Runner \in files
  /\ files' = files \ {Runner}
  /\ UNCHANGED <<rw, server, clients, failures, runVars>>

\* The process ends by itself, or is killed; kvmd-pstrun exits.
RunEnds ==
  /\ run \in {"running", "killing"}
  /\ run' = "off"
  /\ files' = files \ {Runner}
  /\ Leave(Runner)
  /\ UNCHANGED <<rw, server, failures, runs>>

PstRun == RunStarts \/ RunReceives \/ ProcessOpens \/ ProcessCloses \/ RunEnds

RunInit == run = "off" /\ runs = MaxRuns

\* The process does not outlive the permission: after the server has withdrawn
\* it or is gone, the process is killed even if it never ends by itself.
EndsWithPermission == (run = "running" /\ link[Runner] = "closed") ~> run = "off"

=============================================================================
