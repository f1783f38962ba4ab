------------------------------ MODULE HostFiles ------------------------------
(***************************************************************************)
(* The files of the host that the manager changes beside a running server: *)
(* the installation of TeamSpeak, the archive of a backup, the marker of   *)
(* the license, the configured path and the manager's own executable; and  *)
(* the jobs that change them.                                              *)
(*                                                                         *)
(* A job is one call of a command (a process of its own) or one request to *)
(* the agent (a process all its requests share).  It is a sequence of      *)
(* steps between which everybody else may act: the awaits of the code and, *)
(* for other processes, its system calls.  A process may be killed between *)
(* any two of them.                                                        *)
(***************************************************************************)
EXTENDS Naturals, FiniteSets

CONSTANTS
    Jobs,       \* bound: the jobs of a run
    NumFiles,   \* the paths in the installation, in the order of their names
    Dirs,       \* those of them that are directories
    Included,   \* the paths of the default include list, outside of excluded directories
    Lists,      \* what the include lists name: that one, and those a command is given
    Nested,     \* what an archive holds in its one directory, when files lie beside it
    Contents,   \* what the server may write into a file
    Size,       \* the size of each content, and of what a package brings
    Package,    \* the files of the release that was asked for
    Foreign,    \* the files of some other archive
    Absent,     \* no file
    Torn,       \* a file that was being written
    None,
    MaxWrites   \* bound: the writes of the server

Names == 1..NumFiles

ASSUME FilesAssumption == NumFiles \in Nat \ {0} /\ Dirs \subseteq Names /\ Jobs \subseteq Nat \ {0}
ASSUME ListsAssumption == Included \in Lists /\ Lists \subseteq SUBSET (Names \ Dirs)
ASSUME NestedAssumption == Nested \subseteq Names
ASSUME WritesAssumption == MaxWrites \in Nat
ASSUME SizeAssumption == Contents \cup {Package, Foreign} \subseteq DOMAIN Size
ASSUME SpecialAssumption == {Absent, Torn} \cap (Contents \cup {Package, Foreign}) = {}

VARIABLES
    tree,       \* the installation: the content of each path
    marker,     \* the marker of the accepted license is there
    configured, \* the config names the installation
    arch,       \* the archive, or None
    bin,        \* the version of the manager's executable, or Torn
    job,        \* the jobs
    writes,     \* the number of writes of the server
    found       \* history: the installation was there at the start

files == <<tree, marker, configured, arch, bin>>
hostVars == <<files, job, writes, found>>

(* A manifest or an archive with one more entry, n.                          *)
With(f, n, entry) == [m \in DOMAIN f \cup {n} |-> IF m \in DOMAIN f THEN f[m] ELSE entry]

Present == {n \in Names : tree[n] # Absent}

(* collectFiles(): the files that an include list names and that are there,  *)
(* outside of the excluded directories.                                      *)
Listed(list) == Present \cap list

SizeOf(c) == IF c = Torn THEN 0 ELSE Size[c]
FirstOf(S) == CHOOSE n \in S : \A m \in S : n <= m

(* A job: its kind, process, options and place; the paths it has still to    *)
(* visit; what it has read (man, data) or inspected (seen) or reads (src).   *)
(* The rest is history: quiet, that nobody else changed a file since its     *)
(* start; base, the files at its start; wrote, the paths it changed; listed, *)
(* the paths it reports; taken, the entries an installation moves; mixed,    *)
(* that its temporary names were used twice.                                 *)
Idle == [kind |-> "none", proc |-> None, opt |-> None, at |-> "idle", todo |-> {},
         size |-> 0, man |-> <<>>, data |-> <<>>, seen |-> None, src |-> None,
         quiet |-> TRUE, base |-> None, wrote |-> {}, listed |-> {}, taken |-> Names, mixed |-> FALSE,
         out |-> "none"]

Started(j) == job[j].kind # "none"
Running(j) == Started(j) /\ job[j].at # "done"
At(j, kind, place) == job[j].kind = kind /\ job[j].at = place

(* Jobs start one after another, at place at.                                *)
Start(j, kind, proc, opt, base) ==
    /\ ~Started(j) /\ \A k \in Jobs : k < j => Started(k)
    /\ job' = [job EXCEPT ![j] = [Idle EXCEPT !.kind = kind, !.proc = proc, !.opt = opt.opt,
                                              !.at = opt.at, !.todo = opt.todo,
                                              !.size = opt.size, !.out = opt.out,
                                              !.base = IF opt.at = "done" /\ kind # "update"
                                                       THEN None ELSE base]]

(* The options of a job that starts at a place, and of one refused at once.  *)
From(at, opt) == [at |-> at, opt |-> opt, todo |-> {}, size |-> 0, out |-> "none"]
Refuse == [From("done", None) EXCEPT !.out = "refused"]

(* A job ends; of its history stays what says how the files should be.       *)
Ended(r, out) ==
    LET kept == r.kind = "update" \/ (r.kind = "restore" /\ out = "ok")
    IN  [r EXCEPT !.at = "done", !.out = out, !.todo = {}, !.size = 0, !.man = <<>>, !.data = <<>>,
                  !.proc = None, !.opt = IF r.kind = "restore" \/ (r.kind = "update" /\ out = "ok") THEN @ ELSE None,
                  !.base = IF kept THEN @ ELSE None, !.seen = IF kept THEN @ ELSE None,
                  !.src = IF kept \/ r.kind = "install" THEN @ ELSE None]
End(j, out) == job' = [job EXCEPT ![j] = Ended(@, out)]

(* Job j goes on as r after a write: nobody else's job is quiet any more.    *)
Disturb(j, r) == job' = [k \in Jobs |-> IF k = j THEN r
                                        ELSE IF Started(k) THEN [job[k] EXCEPT !.quiet = FALSE]
                                        ELSE job[k]]

(* The server changes a file.                                                *)
ServerWrite ==
    /\ writes < MaxWrites /\ marker
    /\ writes' = writes + 1
    /\ \E n \in Names \ Dirs, c \in Contents \cup {Absent} :
           /\ c # tree[n]
           /\ tree' = [tree EXCEPT ![n] = c]
    /\ job' = [k \in Jobs |-> IF Started(k) THEN [job[k] EXCEPT !.quiet = FALSE] ELSE job[k]]
    /\ UNCHANGED <<marker, configured, arch, bin, found>>

(* A process is killed, with all its jobs.                                   *)
Kill ==
    /\ \E p \in {job[j].proc : j \in {k \in Jobs : Running(k)}} :
           job' = [j \in Jobs |-> IF Running(j) /\ job[j].proc = p THEN Ended(job[j], "killed")
                                  ELSE job[j]]
    /\ UNCHANGED <<files, writes, found>>
=============================================================================
