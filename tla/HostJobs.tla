------------------------------- MODULE HostJobs -------------------------------
(* The jobs of a host side by side: backups and restores, of the agent and   *)
(* of the command line, installations and updates.                           *)
EXTENDS BackupArchive, Installation

CONSTANTS
    Running0,   \* the files of an installation that was there before
    Version0    \* the version of the executable

ASSUME RunningAssumption == Running0 \in [Names -> DOMAIN Size]

(* A host with nothing, or with an installation and perhaps a backup of it.  *)
(* The path of the installation may be configured before there is one, and   *)
(* need not be when there is.                                                *)
Init ==
    /\ found \in BOOLEAN
    /\ marker = found /\ configured \in BOOLEAN
    /\ tree = IF found THEN Running0 ELSE [n \in Names |-> Absent]
    /\ arch \in {None} \cup
          (IF found THEN {Archive([n \in {1} |-> [size |-> SizeOf(Running0[1]), sha |-> Running0[1]]],
                                  [n \in {1} |-> Running0[1]], TRUE, TRUE, FALSE, None)} ELSE {})
    /\ bin = Version0
    /\ job = [j \in Jobs |-> Idle]
    /\ writes = 0

Next ==
    \/ \E j \in Jobs : BackupStep(j) \/ InstallStep(j)
    \/ ServerWrite
    \/ ConfigSet
    \/ Kill

Spec == Init /\ [][Next]_hostVars

(* The types of all variables: a job in progress has files left to visit,    *)
(* and what it has read are files of the installation.                       *)
TypeOK ==
    /\ tree \in [Names -> DOMAIN Size \cup {Absent, Torn}]
    /\ marker \in BOOLEAN /\ configured \in BOOLEAN /\ writes \in 0..MaxWrites
    /\ bin \in Releases \cup {Version0}
    /\ arch # None => DOMAIN arch.data \subseteq Names /\ DOMAIN arch.man \subseteq Names
    /\ \A j \in Jobs :
           /\ job[j].at \in {"hash", "tar", "file", "fill", "move"} <=> job[j].todo # {}
           /\ job[j].todo \cup job[j].wrote \cup job[j].listed \cup job[j].taken \subseteq Names
           /\ job[j].at = "pack" => DOMAIN job[j].data = DOMAIN job[j].man
           /\ job[j].at \in {"file", "fill"} => Inspect(job[j].seen) /\ DOMAIN job[j].src.data \subseteq Names
=============================================================================
