------------------------------ MODULE HostProofs ------------------------------
(***************************************************************************)
(* Proofs about the jobs of a host, for any number of jobs, of files and   *)
(* of writes of the server: the types, an archive nobody disturbed is      *)
(* sound, a restore does what it reports, the marker means an installation *)
(* and an update is whole.                                                 *)
(*                                                                         *)
(* The invariant says of each job, by its kind and its place, how what it  *)
(* has read and written relates to the files (JobOk).  Nobody's JobOk      *)
(* depends on another job, so a step has to be looked at for the job that  *)
(* makes it, and for the others once, as a frame: they are left alone, or  *)
(* they are not quiet any more, and then promise nothing about the files.  *)
(***************************************************************************)
EXTENDS HostJobs, FiniteSetTheorems, WellFoundedInduction, TLAPS

Fields == {"kind", "proc", "opt", "at", "todo", "size", "man", "data", "seen", "src",
           "quiet", "base", "wrote", "listed", "taken", "mixed", "out"}

Entry(c) == [size |-> SizeOf(c), sha |-> c]

InstallOk(r, t, m) == r.kind = "install" =>
    /\ r.at \in {"download", "move", "mark", "firewall", "config", "done"}
    /\ r.taken \subseteq Names /\ r.wrote \subseteq r.taken
    /\ r.at = "download" => r.wrote = {} /\ r.taken = Names
    /\ r.at = "move" => r.todo # {} /\ r.todo \subseteq r.taken /\ r.wrote = r.taken \ r.todo
    /\ r.at \in {"mark", "firewall", "config"} => r.wrote = r.taken
    /\ r.at \in {"firewall", "config"} => m
    /\ r.at # "done" => r.out # "ok"
    /\ r.out = "ok" => m /\ r.wrote = r.taken
    /\ r.quiet => \A n \in r.wrote : t[n] = r.src

(* What a backup that nobody disturbed has read is the files of its list at  *)
(* its start.                                                                *)
ReadsBase(r, t) ==
    /\ r.base = t
    /\ \A n \in DOMAIN r.man : r.man[n] = Entry(t[n])
    /\ \A n \in DOMAIN r.data : r.data[n] = t[n]
    /\ r.at = "hash" => /\ DOMAIN r.man \cup r.todo = {n \in r.opt : t[n] # Absent}
                        /\ r.size = SizeOf(t[FirstOf(r.todo)])
    /\ r.at # "hash" => DOMAIN r.man = {n \in r.opt : t[n] # Absent}

BackupOk(r, t) == r.kind = "backup" =>
    /\ r.at \in {"hash", "tar", "pack", "done"}
    /\ r.at # "done" => r.opt \subseteq Names
    /\ r.at = "hash" => /\ r.todo # {} /\ r.todo \subseteq Names
                        /\ DOMAIN r.man \subseteq Names /\ DOMAIN r.data = {}
    /\ r.at = "tar" => /\ r.todo # {} /\ DOMAIN r.man \subseteq Names
                       /\ DOMAIN r.data \cup r.todo = DOMAIN r.man
    /\ r.at = "pack" => /\ DOMAIN r.man # {} /\ DOMAIN r.man \subseteq Names
                        /\ DOMAIN r.data = DOMAIN r.man
    /\ r.quiet /\ r.at # "done" => ReadsBase(r, t)

Solid(a) == DOMAIN a.data # {} /\ DOMAIN a.data \subseteq Names

(* What a restore changed, and what it left.                                 *)
Restored(r, t) ==
    /\ \A n \in Names \ r.wrote : t[n] = r.base[n]
    /\ r.at \in {"file", "fill"} /\ r.src.whole => \A n \in r.listed : t[n] = r.src.data[n]

RestoreOk(r, t, a) == r.kind = "restore" =>
    /\ r.at \in {"inspect", "open", "file", "fill", "done"}
    /\ r.listed \subseteq r.wrote
    /\ r.opt.dry => r.wrote = {}
    /\ r.at # "done" => r.out = "none"
    /\ r.at \in {"inspect", "open"} => r.wrote = {}
    /\ r.at = "open" => ~r.opt.dry /\ Inspect(r.seen) /\ Solid(a)
    /\ r.at \in {"file", "fill"} =>
           /\ ~r.opt.dry /\ Inspect(r.seen) /\ Solid(r.src)
           /\ r.todo # {} /\ r.todo \cup r.listed = DOMAIN r.src.data /\ r.todo \cap r.listed = {}
    /\ r.at = "file" => r.wrote = r.listed
    /\ r.at = "fill" => r.wrote = r.listed \cup {FirstOf(r.todo)}
    /\ r.at # "done" /\ r.quiet => Restored(r, t)
    /\ r.at = "done" => /\ r.out = "refused" => r.wrote = {}
                        /\ r.out = "ok" => r.wrote = r.listed
                        /\ \E n : r.wrote \ r.listed \subseteq {n}
    /\ r.at = "done" /\ r.out = "ok" /\ ~r.opt.dry /\ r.quiet /\ r.src = r.seen =>
           \A n \in Names : t[n] = IF n \in DOMAIN r.src.man THEN r.src.man[n].sha ELSE r.base[n]

UpdateOk(r, b) == r.kind = "update" =>
    /\ r.at \in {"download", "probe", "done"}
    /\ r.at # "done" => IsNewer(r.opt.version, r.base) /\ r.opt.version \in Releases
    /\ r.at # "done" => r.out # "ok"
    /\ r.base \in Releases \cup {Version0}
    /\ r.quiet => IF r.out = "ok" THEN b = r.opt.version /\ b \in Releases /\ IsNewer(b, r.base)
                                  ELSE b = r.base

JobOk(r, t, m, a, b) ==
    InstallOk(r, t, m) /\ BackupOk(r, t) /\ RestoreOk(r, t, a) /\ UpdateOk(r, b)

JobsOk ==
    /\ DOMAIN job = Jobs
    /\ \A j \in Jobs : DOMAIN job[j] = Fields /\ JobOk(job[j], tree, marker, arch, bin)

MarkerOk ==
    marker /\ ~found => \E j \in Jobs : job[j].kind = "install" /\ job[j].wrote = job[j].taken

IInv ==
    /\ DOMAIN tree = Names
    /\ JobsOk /\ MarkerOk
    /\ arch = None \/ Solid(arch)
    /\ QuietBackupSound
    /\ bin \in Releases \cup {Version0}

-----------------------------------------------------------------------------
(* A set of paths has a first one.                                           *)
LEMMA FirstIn == ASSUME NEW S \in SUBSET Names, S # {} PROVE FirstOf(S) \in S
<1>1. IsWellFoundedOn(OpToRel(<, Nat), Nat)
  BY NatLessThanWellFounded
<1>2. S \subseteq Nat
  BY FilesAssumption DEF Names
<1>3. PICK x \in S : \A y \in S : ~(<<y, x>> \in OpToRel(<, Nat))
  BY <1>1, <1>2, WFMin
<1>4. \A y \in S : x <= y
  <2> TAKE y \in S
  <2>1. x \in Nat /\ y \in Nat
    BY <1>2
  <2>2. ~(y < x)
    BY <1>3, <2>1 DEF OpToRel
  <2> QED
    BY <2>1, <2>2
<1> QED
  BY <1>3, <1>4 DEF FirstOf

(* The fields of an ended job.                                               *)
LEMMA EndedFields ==
  ASSUME NEW r, DOMAIN r = Fields, NEW out
  PROVE LET e == Ended(r, out)
        IN  /\ DOMAIN e = Fields
            /\ e.kind = r.kind /\ e.at = "done" /\ e.out = out
            /\ e.wrote = r.wrote /\ e.listed = r.listed /\ e.taken = r.taken
            /\ e.quiet = r.quiet /\ e.todo = {}
            /\ r.kind = "restore" \/ (r.kind = "update" /\ out = "ok") => e.opt = r.opt
            /\ r.kind = "install" => e.src = r.src
            /\ r.kind = "update" \/ (r.kind = "restore" /\ out = "ok") =>
                   e.src = r.src /\ e.seen = r.seen /\ e.base = r.base
  BY DEF Fields, Ended

(* A job that does not run makes no promise.                                 *)
LEMMA IdleOk == ASSUME NEW r, r.kind = "none", NEW t, NEW m, NEW a, NEW b
                PROVE JobOk(r, t, m, a, b)
  BY DEF JobOk, InstallOk, BackupOk, RestoreOk, UpdateOk

(* Neither does one that was disturbed, whatever the files have become.      *)
LEMMA DisturbedOk ==
  ASSUME NEW r, DOMAIN r = Fields, NEW t, NEW m, NEW a, NEW b, JobOk(r, t, m, a, b),
         NEW t2, NEW m2, m => m2, NEW b2
  PROVE LET d == [r EXCEPT !.quiet = FALSE]
        IN  /\ DOMAIN d = Fields /\ JobOk(d, t2, m2, a, b2)
            /\ d.kind = r.kind /\ d.wrote = r.wrote /\ d.taken = r.taken
<1> DEFINE d == [r EXCEPT !.quiet = FALSE]
<1>1. DOMAIN d = Fields /\ ~d.quiet
  BY DEF Fields
<1>2. /\ d.kind = r.kind /\ d.opt = r.opt /\ d.at = r.at /\ d.todo = r.todo /\ d.man = r.man
      /\ d.data = r.data /\ d.seen = r.seen /\ d.src = r.src /\ d.base = r.base
      /\ d.wrote = r.wrote /\ d.listed = r.listed /\ d.taken = r.taken /\ d.out = r.out
  BY DEF Fields
<1> HIDE DEF d
<1>3. InstallOk(d, t2, m2)
  BY <1>1, <1>2 DEF JobOk, InstallOk
<1>4. BackupOk(d, t2)
  BY <1>1, <1>2 DEF JobOk, BackupOk
<1>5. RestoreOk(d, t2, a)
  BY <1>1, <1>2 DEF JobOk, RestoreOk
<1>6. UpdateOk(d, b2)
  BY <1>1, <1>2 DEF JobOk, UpdateOk
<1> QED
  BY <1>1, <1>2, <1>3, <1>4, <1>5, <1>6 DEF JobOk, d

-----------------------------------------------------------------------------
(* The frame: the jobs beside the one that steps.                            *)

KeepsInstalled(r, s) ==
    r.kind = "install" /\ r.wrote = r.taken => s.kind = "install" /\ s.wrote = s.taken

(* The marker stays explained when finished installations stay finished.     *)
LEMMA MarkerKept ==
  ASSUME MarkerOk, marker' = marker, found' = found,
         \A k \in Jobs : KeepsInstalled(job[k], job'[k])
  PROVE MarkerOk'
  BY DEF MarkerOk, KeepsInstalled

(* One job becomes r, and the files of the installation stay.                *)
LEMMA OneJob ==
  ASSUME IInv, NEW j \in Jobs, NEW r, DOMAIN r = Fields, job' = [job EXCEPT ![j] = r],
         tree' = tree, bin' = bin, marker' = marker, arch' = arch, found' = found,
         JobOk(r, tree, marker, arch, bin), KeepsInstalled(job[j], r)
  PROVE IInv'
<1>1. \A k \in Jobs : job'[k] = IF k = j THEN r ELSE job[k]
  BY DEF IInv, JobsOk
<1>2. JobsOk'
  BY <1>1 DEF IInv, JobsOk
<1>3. \A k \in Jobs : KeepsInstalled(job[k], job'[k])
  BY <1>1 DEF KeepsInstalled
<1>4. MarkerOk'
  BY <1>3, MarkerKept DEF IInv
<1>5. QuietBackupSound'
  BY DEF IInv, QuietBackupSound
<1> QED
  BY <1>2, <1>4, <1>5 DEF IInv

(* One job becomes r with a write that disturbs the others.                  *)
LEMMA OneWriter ==
  ASSUME IInv, NEW j \in Jobs, NEW r, DOMAIN r = Fields, Disturb(j, r),
         DOMAIN tree' = Names, bin' \in Releases \cup {Version0},
         marker' = marker, arch' = arch, found' = found,
         JobOk(r, tree', marker, arch, bin'), KeepsInstalled(job[j], r)
  PROVE IInv'
<1>1. DOMAIN job' = Jobs
  BY DEF Disturb
<1>2. ASSUME NEW k \in Jobs
      PROVE /\ DOMAIN job'[k] = Fields /\ JobOk(job'[k], tree', marker, arch, bin')
            /\ KeepsInstalled(job[k], job'[k])
  <2>1. CASE k = j
    BY <2>1 DEF Disturb
  <2>2. CASE k # j /\ Started(k)
    <3>1. job'[k] = [job[k] EXCEPT !.quiet = FALSE]
      BY <2>2 DEF Disturb
    <3>2. DOMAIN job[k] = Fields /\ JobOk(job[k], tree, marker, arch, bin)
      BY DEF IInv, JobsOk
    <3> QED
      BY <3>1, <3>2, DisturbedOk DEF KeepsInstalled
  <2>3. CASE k # j /\ ~Started(k)
    <3>1. job'[k] = job[k] /\ job[k].kind = "none" /\ DOMAIN job[k] = Fields
      BY <2>3 DEF Disturb, Started, IInv, JobsOk
    <3> QED
      BY <3>1, IdleOk DEF KeepsInstalled
  <2> QED
    BY <2>1, <2>2, <2>3
<1>3. JobsOk'
  BY <1>1, <1>2 DEF JobsOk
<1>4. MarkerOk'
  BY <1>2, MarkerKept DEF IInv
<1>5. QuietBackupSound'
  BY DEF IInv, QuietBackupSound
<1> QED
  BY <1>3, <1>4, <1>5 DEF IInv

(* A job that ends with out: a backup may end at any place, the others       *)
(* unless they report success, and an installation also when all is done.    *)
LEMMA EndedOk ==
  ASSUME NEW r, DOMAIN r = Fields, NEW t, NEW m, NEW a, NEW b, JobOk(r, t, m, a, b),
         r.kind # "none", r.at # "done", NEW out,
         out = "ok" => r.kind = "backup" \/ (r.kind = "install" /\ m /\ r.wrote = r.taken),
         out = "refused" => r.wrote = {}
  PROVE DOMAIN Ended(r, out) = Fields /\ JobOk(Ended(r, out), t, m, a, b)
<1> DEFINE e == Ended(r, out)
<1>1. /\ DOMAIN e = Fields
      /\ e.kind = r.kind /\ e.at = "done" /\ e.out = out
      /\ e.wrote = r.wrote /\ e.listed = r.listed /\ e.taken = r.taken
      /\ e.quiet = r.quiet /\ e.todo = {}
      /\ r.kind = "restore" => e.opt = r.opt
      /\ r.kind = "install" => e.src = r.src
      /\ r.kind = "update" => e.base = r.base
  BY EndedFields
<1> HIDE DEF e
<1>2. InstallOk(e, t, m)
  BY <1>1 DEF JobOk, InstallOk
<1>3. BackupOk(e, t)
  BY <1>1 DEF JobOk, BackupOk
<1>4. RestoreOk(e, t, a)
  <2> SUFFICES ASSUME r.kind = "restore" PROVE RestoreOk(e, t, a)
    BY <1>1 DEF RestoreOk
  <2>1. \E n : r.wrote \ r.listed \subseteq {n}
    BY DEF JobOk, RestoreOk
  <2>2. /\ r.listed \subseteq r.wrote
        /\ r.opt.dry => r.wrote = {}
    BY DEF JobOk, RestoreOk
  <2> QED
    BY <1>1, <2>1, <2>2 DEF RestoreOk
<1>5. UpdateOk(e, b)
  BY <1>1 DEF JobOk, UpdateOk
<1> QED
  BY <1>1, <1>2, <1>3, <1>4, <1>5 DEF JobOk, e

LEMMA EndStep ==
  ASSUME IInv, NEW j \in Jobs, NEW out, End(j, out), Started(j), job[j].at # "done",
         out = "ok" => \/ job[j].kind = "backup"
                       \/ job[j].kind = "install" /\ marker /\ job[j].wrote = job[j].taken,
         out = "refused" => job[j].wrote = {},
         tree' = tree, bin' = bin, marker' = marker, arch' = arch, found' = found
  PROVE IInv'
<1>1. DOMAIN job[j] = Fields /\ JobOk(job[j], tree, marker, arch, bin)
  BY DEF IInv, JobsOk
<1>2. /\ DOMAIN Ended(job[j], out) = Fields
      /\ JobOk(Ended(job[j], out), tree, marker, arch, bin)
  BY <1>1, EndedOk DEF Started
<1>3. KeepsInstalled(job[j], Ended(job[j], out))
  BY <1>1, EndedFields DEF KeepsInstalled
<1>4. job' = [job EXCEPT ![j] = Ended(job[j], out)]
  BY DEF End
<1> QED
  BY <1>2, <1>3, <1>4, OneJob

(* A job that starts.                                                        *)
StartedAs(r, kind, opt, base) ==
    /\ DOMAIN r = Fields
    /\ r.kind = kind /\ r.opt = opt.opt /\ r.at = opt.at /\ r.todo = opt.todo
    /\ r.size = opt.size /\ r.out = opt.out
    /\ opt.at # "done" \/ kind = "update" => r.base = base
    /\ DOMAIN r.man = {} /\ DOMAIN r.data = {} /\ r.quiet = TRUE
    /\ r.wrote = {} /\ r.listed = {} /\ r.taken = Names

LEMMA StartFields ==
  ASSUME IInv, NEW j \in Jobs, NEW kind, NEW proc, NEW opt, NEW base,
         Start(j, kind, proc, opt, base)
  PROVE /\ job' = [job EXCEPT ![j] = job'[j]] /\ job[j].kind = "none"
        /\ StartedAs(job'[j], kind, opt, base)
<1> DEFINE b == IF opt.at = "done" /\ kind # "update" THEN None ELSE base
           r == [Idle EXCEPT !.kind = kind, !.proc = proc, !.opt = opt.opt, !.at = opt.at,
                             !.todo = opt.todo, !.size = opt.size, !.out = opt.out, !.base = b]
<1>1. job' = [job EXCEPT ![j] = r] /\ job[j].kind = "none"
  BY DEF Start, Started
<1>2. /\ DOMAIN r = Fields
      /\ r.kind = kind /\ r.opt = opt.opt /\ r.at = opt.at /\ r.todo = opt.todo
      /\ r.size = opt.size /\ r.base = b /\ r.out = opt.out
      /\ r.man = <<>> /\ r.data = <<>> /\ r.quiet = TRUE /\ r.wrote = {} /\ r.listed = {}
      /\ r.taken = Names
  BY DEF Idle, Fields
<1> HIDE DEF r
<1>3. job'[j] = r
  BY <1>1 DEF IInv, JobsOk
<1>4. DOMAIN <<>> = {}
  OBVIOUS
<1> QED
  BY <1>1, <1>2, <1>3, <1>4 DEF StartedAs

LEMMA StartStep ==
  ASSUME IInv, NEW j \in Jobs, NEW kind, NEW proc, NEW opt, NEW base,
         Start(j, kind, proc, opt, base), UNCHANGED <<files, found>>,
         JobOk(job'[j], tree, marker, arch, bin)
  PROVE IInv'
<1>1. DOMAIN job'[j] = Fields /\ job' = [job EXCEPT ![j] = job'[j]] /\ job[j].kind = "none"
  BY StartFields DEF StartedAs
<1>2. KeepsInstalled(job[j], job'[j])
  BY <1>1 DEF KeepsInstalled
<1> QED
  BY <1>1, <1>2, OneJob DEF files

-----------------------------------------------------------------------------
(* Installation.                                                             *)

LEMMA InstallStartStep == ASSUME IInv, NEW j \in Jobs, InstallStart(j) PROVE IInv'
<1>1. PICK force \in BOOLEAN, sha \in BOOLEAN, firewall \in BOOLEAN :
        LET opt == [sha |-> sha, firewall |-> firewall]
        IN  Start(j, "install", j,
                  IF force \/ (Present = {} /\ ~marker) THEN From("download", opt) ELSE Refuse, None)
  BY DEF InstallStart
<1> DEFINE opt == [sha |-> sha, firewall |-> firewall]
           o   == IF force \/ (Present = {} /\ ~marker) THEN From("download", opt) ELSE Refuse
<1>2. Start(j, "install", j, o, None)
  BY <1>1
<1>3. o.at \in {"download", "done"} /\ o.out # "ok"
  BY DEF From, Refuse
<1> HIDE DEF o
<1>4. StartedAs(job'[j], "install", o, None)
  BY <1>2, StartFields
<1>5. JobOk(job'[j], tree, marker, arch, bin)
  BY <1>3, <1>4 DEF StartedAs, JobOk, InstallOk, BackupOk, RestoreOk, UpdateOk
<1> QED
  BY <1>2, <1>5, StartStep DEF InstallStart

LEMMA InstallFetchStep == ASSUME IInv, NEW j \in Jobs, InstallFetch(j) PROVE IInv'
<1>1. /\ job[j].kind = "install" /\ job[j].at = "download" /\ Started(j)
      /\ DOMAIN job[j] = Fields /\ JobOk(job[j], tree, marker, arch, bin)
      /\ UNCHANGED <<tree, marker, configured, arch, bin, found>>
  BY DEF InstallFetch, At, Started, files, IInv, JobsOk
<1>2. CASE End(j, "failed")
  BY <1>1, <1>2, EndStep
<1>3. CASE ~End(j, "failed")
  <2>1. PICK p \in {Package, Foreign}, root \in Roots :
          job' = [job EXCEPT ![j].at = IF root = {} THEN "mark" ELSE "move",
                             ![j].src = p, ![j].todo = root, ![j].taken = root]
    <3>1. {Package} \cup (IF job[j].opt.sha THEN {} ELSE {Foreign}) \subseteq {Package, Foreign}
      OBVIOUS
    <3> QED
      BY <1>3, <3>1 DEF InstallFetch
  <2> DEFINE r == [job[j] EXCEPT !.at = IF root = {} THEN "mark" ELSE "move",
                                 !.src = p, !.todo = root, !.taken = root]
  <2>2. job' = [job EXCEPT ![j] = r]
    BY <2>1
  <2>3. /\ DOMAIN r = Fields /\ r.kind = "install" /\ r.todo = root /\ r.taken = root
        /\ r.at = IF root = {} THEN "mark" ELSE "move"
        /\ r.wrote = job[j].wrote /\ r.out = job[j].out
    BY <1>1 DEF Fields
  <2> HIDE DEF r
  <2>4. /\ job[j].wrote = {} /\ job[j].wrote # job[j].taken /\ job[j].out # "ok"
        /\ root \subseteq Names
    <3>1. 1 \in Names
      BY FilesAssumption DEF Names
    <3>2. /\ job[j].wrote = {} /\ job[j].taken = Names /\ job[j].out # "ok"
      BY <1>1 DEF JobOk, InstallOk
    <3>3. root \subseteq Names
      BY NestedAssumption DEF Roots
    <3> QED
      BY <3>1, <3>2, <3>3
  <2>5. InstallOk(r, tree, marker)
    <3>1. CASE root = {}
      BY <3>1, <2>3, <2>4 DEF InstallOk
    <3>2. CASE root # {}
      BY <3>2, <2>3, <2>4 DEF InstallOk
    <3> QED
      BY <3>1, <3>2
  <2>6. JobOk(r, tree, marker, arch, bin)
    BY <2>3, <2>5 DEF JobOk, BackupOk, RestoreOk, UpdateOk
  <2> QED
    BY <1>1, <2>2, <2>3, <2>4, <2>6, OneJob DEF KeepsInstalled
<1> QED
  BY <1>2, <1>3

LEMMA InstallMoveStep == ASSUME IInv, NEW j \in Jobs, InstallMove(j) PROVE IInv'
<1> DEFINE n    == FirstOf(job[j].todo)
           rest == job[j].todo \ {n}
           r    == [job[j] EXCEPT !.todo = rest, !.wrote = @ \cup {n},
                                  !.at = IF rest = {} THEN "mark" ELSE "move"]
<1>1. /\ job[j].kind = "install" /\ job[j].at = "move" /\ Started(j)
      /\ DOMAIN job[j] = Fields /\ JobOk(job[j], tree, marker, arch, bin)
      /\ UNCHANGED <<marker, configured, arch, bin, found>>
  BY DEF InstallMove, At, Started, IInv, JobsOk
<1>2. CASE End(j, "failed") /\ tree' = tree
  BY <1>1, <1>2, EndStep
<1>3. CASE tree' = [tree EXCEPT ![n] = job[j].src] /\ Disturb(j, r)
  <2>1. /\ job[j].todo \subseteq Names /\ job[j].todo # {} /\ job[j].taken \subseteq Names
        /\ job[j].todo \subseteq job[j].taken /\ job[j].wrote = job[j].taken \ job[j].todo
        /\ job[j].out # "ok"
        /\ job[j].quiet => \A m \in job[j].wrote : tree[m] = job[j].src
    BY <1>1 DEF JobOk, InstallOk
  <2>2. n \in job[j].todo /\ n \in Names
    BY <2>1, FirstIn
  <2>3. /\ DOMAIN r = Fields /\ r.kind = "install" /\ r.todo = rest /\ r.src = job[j].src
        /\ r.wrote = job[j].wrote \cup {n} /\ r.quiet = job[j].quiet
        /\ r.taken = job[j].taken /\ r.out = job[j].out
        /\ r.at = IF rest = {} THEN "mark" ELSE "move"
    BY <1>1 DEF Fields
  <2> HIDE DEF r, n
  <2>4. DOMAIN tree' = Names
        /\ \A m \in Names : tree'[m] = IF m = n THEN job[j].src ELSE tree[m]
    BY <1>3, <2>2 DEF IInv
  <2>5. /\ rest \subseteq r.taken /\ r.taken \subseteq Names
        /\ r.wrote = r.taken \ rest /\ r.out # "ok"
    BY <2>1, <2>2, <2>3
  <2>6. r.quiet => \A m \in r.wrote : tree'[m] = r.src
    <3> SUFFICES ASSUME r.quiet, NEW m \in r.wrote PROVE tree'[m] = r.src
      OBVIOUS
    <3>1. job[j].quiet /\ r.src = job[j].src
      BY <2>3
    <3>2. m \in Names /\ (m = n \/ m \in job[j].wrote)
      BY <2>1, <2>2, <2>3
    <3> QED
      BY <2>1, <2>4, <3>1, <3>2
  <2> HIDE DEF rest
  <2>7. InstallOk(r, tree', marker)
    <3>1. CASE rest = {}
      BY <3>1, <2>3, <2>5, <2>6 DEF InstallOk
    <3>2. CASE rest # {}
      BY <3>2, <2>3, <2>5, <2>6 DEF InstallOk
    <3> QED
      BY <3>1, <3>2
  <2>8. JobOk(r, tree', marker, arch, bin')
    BY <2>3, <2>7 DEF JobOk, BackupOk, RestoreOk, UpdateOk
  <2>9. KeepsInstalled(job[j], r)
    BY <2>1, <2>2 DEF KeepsInstalled
  <2> QED
    BY <1>1, <1>3, <2>3, <2>4, <2>8, <2>9, OneWriter DEF IInv
<1> QED
  BY <1>2, <1>3 DEF InstallMove

(* The marker is written by a job that moved everything.                     *)
LEMMA InstallMarkStep == ASSUME IInv, NEW j \in Jobs, InstallMark(j) PROVE IInv'
<1> DEFINE r == [job[j] EXCEPT !.at = "firewall"]
<1>1. /\ job[j].kind = "install" /\ job[j].at = "mark"
      /\ DOMAIN job[j] = Fields /\ JobOk(job[j], tree, marker, arch, bin)
      /\ UNCHANGED <<tree, configured, arch, bin, found>> /\ marker' = TRUE
      /\ job' = [job EXCEPT ![j] = r]
  BY DEF InstallMark, At, IInv, JobsOk
<1>2. /\ DOMAIN r = Fields /\ r.kind = "install" /\ r.at = "firewall"
      /\ r.wrote = job[j].wrote /\ r.quiet = job[j].quiet /\ r.src = job[j].src
      /\ r.taken = job[j].taken /\ r.out = job[j].out
  BY <1>1 DEF Fields
<1> HIDE DEF r
<1>3. JobOk(r, tree, TRUE, arch, bin) /\ r.wrote = r.taken
  BY <1>1, <1>2 DEF JobOk, InstallOk, BackupOk, RestoreOk, UpdateOk
<1>4. \A k \in Jobs : job'[k] = IF k = j THEN r ELSE job[k]
  BY <1>1 DEF IInv, JobsOk
<1>5. \A k \in Jobs : DOMAIN job'[k] = Fields /\ JobOk(job'[k], tree, TRUE, arch, bin)
  BY <1>2, <1>3, <1>4 DEF IInv, JobsOk, JobOk, InstallOk
<1>6. JobsOk'
  BY <1>1, <1>5 DEF IInv, JobsOk
<1>7. MarkerOk'
  BY <1>1, <1>2, <1>3, <1>4 DEF MarkerOk
<1>8. QuietBackupSound'
  BY <1>1 DEF IInv, QuietBackupSound
<1> QED
  BY <1>1, <1>6, <1>7, <1>8 DEF IInv

LEMMA InstallFirewallStep == ASSUME IInv, NEW j \in Jobs, InstallFirewall(j) PROVE IInv'
<1> DEFINE r == [job[j] EXCEPT !.at = "config"]
<1>1. /\ job[j].kind = "install" /\ job[j].at = "firewall" /\ Started(j)
      /\ DOMAIN job[j] = Fields /\ JobOk(job[j], tree, marker, arch, bin)
      /\ UNCHANGED <<tree, marker, configured, arch, bin, found>>
  BY DEF InstallFirewall, At, Started, files, IInv, JobsOk
<1>2. CASE End(j, "failed")
  BY <1>1, <1>2, EndStep
<1>3. CASE job' = [job EXCEPT ![j] = r]
  <2>1. /\ DOMAIN r = Fields /\ r.kind = "install" /\ r.at = "config"
        /\ r.wrote = job[j].wrote /\ r.quiet = job[j].quiet /\ r.src = job[j].src
        /\ r.taken = job[j].taken /\ r.out = job[j].out
    BY <1>1 DEF Fields
  <2> HIDE DEF r
  <2>2. JobOk(r, tree, marker, arch, bin)
    BY <1>1, <2>1 DEF JobOk, InstallOk, BackupOk, RestoreOk, UpdateOk
  <2> QED
    BY <1>1, <1>3, <2>1, <2>2, OneJob DEF KeepsInstalled
<1> QED
  BY <1>2, <1>3 DEF InstallFirewall

LEMMA InstallConfigStep == ASSUME IInv, NEW j \in Jobs, InstallConfig(j) PROVE IInv'
<1>1. /\ job[j].kind = "install" /\ job[j].at = "config" /\ Started(j)
      /\ UNCHANGED <<tree, marker, arch, bin, found>> /\ End(j, "ok")
  BY DEF InstallConfig, At, Started
<1>2. marker /\ job[j].wrote = job[j].taken
  BY <1>1 DEF IInv, JobsOk, JobOk, InstallOk
<1> QED
  BY <1>1, <1>2, EndStep

(* The config may name a place without an installation.                      *)
LEMMA ConfigSetStep == ASSUME IInv, ConfigSet PROVE IInv'
BY DEF ConfigSet, IInv, JobsOk, MarkerOk, QuietBackupSound

-----------------------------------------------------------------------------
(* Self-update.                                                              *)

LEMMA UpdateStartStep == ASSUME IInv, NEW j \in Jobs, UpdateStart(j) PROVE IInv'
<1>1. PICK release \in Announced, check \in BOOLEAN, sources \in Sources :
        Start(j, "update", j,
              IF IsNewer(release.version, bin) /\ ~check
              THEN [From("download", release) EXCEPT !.size = sources] ELSE Refuse,
              bin)
  BY DEF UpdateStart
<1> DEFINE v == release.version
           o == IF IsNewer(v, bin) /\ ~check
                THEN [From("download", release) EXCEPT !.size = sources]
                ELSE Refuse
<1>2. Start(j, "update", j, o, bin)
  BY <1>1
<1>3. \/ o.at = "download" /\ o.out = "none" /\ o.opt.version = v /\ IsNewer(v, bin)
      \/ o.at = "done" /\ o.out = "refused"
  BY DEF From, Refuse
<1> HIDE DEF o
<1>4. StartedAs(job'[j], "update", o, bin) /\ v \in Releases
  BY <1>2, StartFields DEF Announced
<1>5. JobOk(job'[j], tree, marker, arch, bin)
  BY <1>3, <1>4 DEF StartedAs, JobOk, InstallOk, BackupOk, RestoreOk, UpdateOk, IInv
<1> QED
  BY <1>2, <1>5, StartStep DEF UpdateStart

LEMMA UpdateFetchStep == ASSUME IInv, NEW j \in Jobs, UpdateFetch(j) PROVE IInv'
<1>1. /\ job[j].kind = "update" /\ job[j].at = "download" /\ Started(j)
      /\ DOMAIN job[j] = Fields /\ JobOk(job[j], tree, marker, arch, bin)
      /\ UNCHANGED <<tree, marker, configured, arch, bin, found>>
  BY DEF UpdateFetch, At, Started, files, IInv, JobsOk
<1>2. CASE End(j, "failed")
  BY <1>1, <1>2, EndStep
<1>3. CASE ~End(j, "failed")
  <2>1. PICK r : /\ job' = [job EXCEPT ![j] = r] /\ DOMAIN r = Fields
                 /\ r.kind = "update" /\ r.at \in {"download", "probe"} /\ r.opt = job[j].opt
                 /\ r.base = job[j].base /\ r.out = job[j].out /\ r.quiet = job[j].quiet
    <3> DEFINE s == [job[j] EXCEPT !.size = @ - 1]
               q == [job[j] EXCEPT !.at = "probe"]
    <3>1. job' = [job EXCEPT ![j] = s] \/ job' = [job EXCEPT ![j] = q]
      BY <1>3 DEF UpdateFetch
    <3>2. /\ DOMAIN s = Fields /\ s.kind = "update" /\ s.at = "download" /\ s.opt = job[j].opt
          /\ s.base = job[j].base /\ s.out = job[j].out /\ s.quiet = job[j].quiet
      BY <1>1 DEF Fields
    <3>3. /\ DOMAIN q = Fields /\ q.kind = "update" /\ q.at = "probe" /\ q.opt = job[j].opt
          /\ q.base = job[j].base /\ q.out = job[j].out /\ q.quiet = job[j].quiet
      BY <1>1 DEF Fields
    <3> HIDE DEF s, q
    <3> QED
      BY <3>1, <3>2, <3>3
  <2>2. JobOk(r, tree, marker, arch, bin)
    BY <1>1, <2>1 DEF JobOk, InstallOk, BackupOk, RestoreOk, UpdateOk
  <2> QED
    BY <1>1, <2>1, <2>2, OneJob DEF KeepsInstalled
<1> QED
  BY <1>2, <1>3

LEMMA UpdateSwapStep == ASSUME IInv, NEW j \in Jobs, UpdateSwap(j) PROVE IInv'
<1> DEFINE v == job[j].opt.version
           r == Ended(job[j], "ok")
<1>1. /\ job[j].kind = "update" /\ job[j].at = "probe" /\ Started(j)
      /\ DOMAIN job[j] = Fields /\ JobOk(job[j], tree, marker, arch, bin)
      /\ UNCHANGED <<tree, marker, configured, arch, found>>
  BY DEF UpdateSwap, At, Started, IInv, JobsOk
<1>2. CASE End(j, "failed") /\ bin' = bin
  BY <1>1, <1>2, EndStep
<1>3. CASE bin' = v /\ Disturb(j, r)
  <2>1. v \in Releases /\ IsNewer(v, job[j].base) /\ job[j].base \in Releases \cup {Version0}
    BY <1>1 DEF JobOk, UpdateOk
  <2>2. /\ DOMAIN r = Fields /\ r.kind = "update" /\ r.at = "done" /\ r.out = "ok"
        /\ r.opt = job[j].opt /\ r.base = job[j].base
    BY <1>1, EndedFields
  <2> HIDE DEF r
  <2>3. JobOk(r, tree', marker, arch, bin')
    BY <1>3, <2>1, <2>2 DEF JobOk, InstallOk, BackupOk, RestoreOk, UpdateOk
  <2> QED
    BY <1>1, <1>3, <2>1, <2>2, <2>3, OneWriter DEF KeepsInstalled, IInv
<1> QED
  BY <1>2, <1>3 DEF UpdateSwap

-----------------------------------------------------------------------------
(* Backup.                                                                   *)

LEMMA BackupStartStep == ASSUME IInv, NEW j \in Jobs, BackupStart(j) PROVE IInv'
<1>1. PICK p \in {Agent, j}, list \in Lists :
        Start(j, "backup", p,
              IF configured /\ Listed(list) # {}
              THEN [From("hash", list) EXCEPT !.todo = Listed(list),
                                              !.size = SizeOf(tree[FirstOf(Listed(list))])]
              ELSE Refuse,
              tree)
  BY DEF BackupStart
<1> DEFINE L == Listed(list)
           o == IF configured /\ L # {}
                THEN [From("hash", list) EXCEPT !.todo = L, !.size = SizeOf(tree[FirstOf(L)])]
                ELSE Refuse
<1>2. \/ /\ o.at = "hash" /\ o.opt = list /\ o.todo = L /\ L # {}
         /\ o.size = SizeOf(tree[FirstOf(L)])
      \/ o.at = "done"
  BY DEF From, Refuse
<1>3. L \subseteq Names /\ L = {n \in list : tree[n] # Absent} /\ list \subseteq Names
  BY ListsAssumption DEF Listed, Present
<1>4. Start(j, "backup", p, o, tree)
  BY <1>1
<1> HIDE DEF o, L
<1>5. StartedAs(job'[j], "backup", o, tree)
  BY <1>4, StartFields
<1>6. job'[j].kind = "backup" /\ job'[j].at \in {"hash", "done"}
  BY <1>2, <1>5 DEF StartedAs
<1>7. BackupOk(job'[j], tree)
  <2>1. CASE o.at = "done"
    BY <2>1, <1>5 DEF StartedAs, BackupOk
  <2>2. CASE o.at # "done"
    <3>1. /\ job'[j].at = "hash" /\ job'[j].todo = L /\ job'[j].base = tree /\ job'[j].opt = list
          /\ job'[j].size = SizeOf(tree[FirstOf(L)])
          /\ DOMAIN job'[j].man = {} /\ DOMAIN job'[j].data = {}
      BY <2>2, <1>2, <1>5 DEF StartedAs
    <3> QED
      BY <2>2, <3>1, <1>2, <1>3, <1>6 DEF BackupOk, ReadsBase
  <2> QED
    BY <2>1, <2>2
<1>8. JobOk(job'[j], tree, marker, arch, bin)
  BY <1>6, <1>7 DEF JobOk, InstallOk, RestoreOk, UpdateOk
<1> QED
  BY <1>4, <1>8, StartStep DEF BackupStart

(* A job that is told that its temporary names are used twice.               *)
LEMMA MixedOk ==
  ASSUME NEW r, DOMAIN r = Fields, NEW t, NEW m, NEW a, NEW b, JobOk(r, t, m, a, b), NEW x
  PROVE LET d == [r EXCEPT !.mixed = x]
        IN  /\ DOMAIN d = Fields /\ JobOk(d, t, m, a, b)
            /\ d.kind = r.kind /\ d.wrote = r.wrote /\ d.taken = r.taken
<1> DEFINE d == [r EXCEPT !.mixed = x]
<1>1. DOMAIN d = Fields
  BY DEF Fields
<1>2. /\ d.kind = r.kind /\ d.opt = r.opt /\ d.at = r.at /\ d.todo = r.todo /\ d.man = r.man
      /\ d.data = r.data /\ d.seen = r.seen /\ d.src = r.src /\ d.base = r.base
      /\ d.wrote = r.wrote /\ d.listed = r.listed /\ d.taken = r.taken /\ d.out = r.out
      /\ d.size = r.size
  BY DEF Fields
<1>3. d.quiet = r.quiet
  BY DEF Fields
<1> HIDE DEF d
<1>4. d.quiet => r.quiet
  BY <1>3
<1>5. InstallOk(d, t, m) /\ UpdateOk(d, b)
  BY <1>2, <1>4 DEF JobOk, InstallOk, UpdateOk
<1>6. BackupOk(d, t)
  BY <1>2, <1>4 DEF JobOk, BackupOk, ReadsBase
<1>7. RestoreOk(d, t, a)
  BY <1>2, <1>4 DEF JobOk, RestoreOk, Restored
<1> QED
  BY <1>1, <1>2, <1>5, <1>6, <1>7 DEF JobOk, d

(* A digest is that of the file at the start, when nobody changed one.       *)
LEMMA HashedOk ==
  ASSUME IInv, NEW j \in Jobs, job[j].kind = "backup", job[j].at = "hash",
         NEW r, r.kind = "backup", r.data = job[j].data, r.base = job[j].base, r.opt = job[j].opt,
         r.quiet => job[j].quiet,
         r.man = With(job[j].man, FirstOf(job[j].todo),
                      [size |-> job[j].size, sha |-> tree[FirstOf(job[j].todo)]]),
         LET rest == job[j].todo \ {FirstOf(job[j].todo)}
         IN  \/ /\ r.at = "hash" /\ r.todo = rest /\ rest # {}
                /\ r.size = SizeOf(tree[FirstOf(rest)])
             \/ r.at = "tar" /\ r.todo = DOMAIN r.man /\ rest = {}
  PROVE JobOk(r, tree, marker, arch, bin)
<1> DEFINE n    == FirstOf(job[j].todo)
           rest == job[j].todo \ {n}
           x    == [size |-> job[j].size, sha |-> tree[n]]
<1>1. BackupOk(job[j], tree)
  BY DEF IInv, JobsOk, JobOk
<1>2. /\ job[j].todo # {} /\ job[j].todo \subseteq Names
      /\ DOMAIN job[j].man \subseteq Names /\ DOMAIN job[j].data = {} /\ job[j].opt \subseteq Names
  BY <1>1 DEF BackupOk
<1>3. n \in job[j].todo
  BY <1>2, FirstIn
<1>4. /\ DOMAIN r.man = DOMAIN job[j].man \cup {n}
      /\ \A m \in DOMAIN job[j].man : r.man[m] = job[j].man[m]
      /\ n \notin DOMAIN job[j].man => r.man[n] = x
  BY DEF With
<1>5. \/ r.at = "hash" /\ r.todo = rest /\ rest # {} /\ r.size = SizeOf(tree[FirstOf(rest)])
      \/ r.at = "tar" /\ r.todo = DOMAIN r.man /\ rest = {}
  OBVIOUS
<1>6. ASSUME job[j].quiet PROVE ReadsBase(r, tree)
  <2>1. ReadsBase(job[j], tree)
    BY <1>1, <1>6 DEF BackupOk
  <2>2. x = Entry(tree[n])
    BY <2>1 DEF ReadsBase, Entry
  <2> HIDE DEF x, n
  <2>3. \A m \in DOMAIN r.man : r.man[m] = Entry(tree[m])
    BY <1>4, <2>1, <2>2 DEF ReadsBase
  <2>4. DOMAIN job[j].man \cup job[j].todo = {m \in r.opt : tree[m] # Absent}
    BY <2>1 DEF ReadsBase
  <2>5. DOMAIN r.man \cup rest = {m \in r.opt : tree[m] # Absent}
    BY <1>3, <1>4, <2>4
  <2> HIDE DEF rest
  <2>6. \A m \in DOMAIN r.data : r.data[m] = tree[m]
    BY <1>2
  <2>7. r.base = tree
    BY <2>1 DEF ReadsBase
  <2> QED
    BY <1>5, <2>3, <2>5, <2>6, <2>7 DEF ReadsBase
<1> HIDE DEF x, n
<1>7. DOMAIN r.man \subseteq Names /\ DOMAIN r.man # {} /\ rest \subseteq Names
  BY <1>2, <1>3, <1>4
<1> HIDE DEF rest
<1>8. BackupOk(r, tree)
  BY <1>2, <1>5, <1>6, <1>7 DEF BackupOk
<1> QED
  BY <1>8 DEF JobOk, InstallOk, RestoreOk, UpdateOk

LEMMA BackupHashStep == ASSUME IInv, NEW j \in Jobs, BackupHash(j) PROVE IInv'
<1> DEFINE n    == FirstOf(job[j].todo)
           rest == job[j].todo \ {n}
           r    == [job[j] EXCEPT !.man = With(@, n, [size |-> job[j].size, sha |-> tree[n]])]
           r1   == [r EXCEPT !.todo = rest, !.size = SizeOf(tree[FirstOf(rest)])]
           r2   == [r EXCEPT !.at = "tar", !.todo = DOMAIN r.man, !.mixed = Beside(j) # {}]
<1>1. /\ job[j].kind = "backup" /\ job[j].at = "hash" /\ Started(j)
      /\ DOMAIN job[j] = Fields /\ JobOk(job[j], tree, marker, arch, bin)
      /\ UNCHANGED <<tree, marker, configured, arch, bin, found>>
  BY DEF BackupHash, At, Started, files, IInv, JobsOk
<1>2. \/ End(j, "failed")
      \/ rest # {} /\ job' = [job EXCEPT ![j] = r1]
      \/ rest = {} /\ job' = [k \in Jobs |-> IF k = j THEN r2
                                             ELSE [job[k] EXCEPT !.mixed = @ \/ k \in Beside(j)]]
  BY DEF BackupHash
<1>3. CASE End(j, "failed")
  BY <1>1, <1>3, EndStep
<1>4. /\ DOMAIN r = Fields /\ r.kind = "backup" /\ r.at = "hash"
      /\ r.man = With(job[j].man, n, [size |-> job[j].size, sha |-> tree[n]])
      /\ r.data = job[j].data /\ r.base = job[j].base /\ r.opt = job[j].opt
  BY <1>1 DEF Fields
<1>5. r.quiet = job[j].quiet
  BY <1>1 DEF Fields
<1> HIDE DEF r
<1>6. /\ DOMAIN r1 = Fields /\ r1.kind = "backup" /\ r1.at = "hash" /\ r1.man = r.man
      /\ r1.data = job[j].data /\ r1.base = job[j].base /\ r1.opt = job[j].opt
      /\ r1.todo = rest /\ r1.size = SizeOf(tree[FirstOf(rest)])
  BY <1>4 DEF Fields
<1>7. /\ DOMAIN r2 = Fields /\ r2.kind = "backup" /\ r2.at = "tar" /\ r2.man = r.man
      /\ r2.data = job[j].data /\ r2.base = job[j].base /\ r2.opt = job[j].opt
      /\ r2.todo = DOMAIN r.man
  BY <1>4 DEF Fields
<1>8. r1.quiet = job[j].quiet /\ r2.quiet = job[j].quiet
  BY <1>4, <1>5 DEF Fields
<1> HIDE DEF r1, r2
<1>9. CASE rest # {} /\ job' = [job EXCEPT ![j] = r1]
  <2>1. JobOk(r1, tree, marker, arch, bin)
    <3>1. r1.quiet => job[j].quiet
      BY <1>8
    <3> QED
      BY <1>1, <1>4, <1>6, <1>9, <3>1, HashedOk
  <2> QED
    BY <1>1, <1>6, <1>9, <2>1, OneJob DEF KeepsInstalled
<1>10. CASE rest = {} /\ job' = [k \in Jobs |-> IF k = j THEN r2
                                                ELSE [job[k] EXCEPT !.mixed = @ \/ k \in Beside(j)]]
  <2>1. JobOk(r2, tree, marker, arch, bin)
    <3>1. r2.quiet => job[j].quiet
      BY <1>8
    <3> QED
      BY <1>1, <1>4, <1>7, <1>10, <3>1, HashedOk
  <2>2. ASSUME NEW k \in Jobs
        PROVE /\ DOMAIN job'[k] = Fields /\ JobOk(job'[k], tree, marker, arch, bin)
              /\ KeepsInstalled(job[k], job'[k])
    <3>1. CASE k = j
      BY <3>1, <1>1, <1>7, <1>10, <2>1 DEF KeepsInstalled
    <3>2. CASE k # j
      <4>1. DOMAIN job[k] = Fields /\ JobOk(job[k], tree, marker, arch, bin)
        BY DEF IInv, JobsOk
      <4>2. PICK x : job'[k] = [job[k] EXCEPT !.mixed = x]
        BY <3>2, <1>10
      <4> DEFINE d == [job[k] EXCEPT !.mixed = x]
      <4>3. DOMAIN d = Fields /\ JobOk(d, tree, marker, arch, bin)
            /\ d.kind = job[k].kind /\ d.wrote = job[k].wrote /\ d.taken = job[k].taken
        BY <4>1, MixedOk
      <4> HIDE DEF d
      <4>4. job'[k] = d
        BY <4>2 DEF d
      <4> QED
        BY <4>3, <4>4 DEF KeepsInstalled
    <3> QED
      BY <3>1, <3>2
  <2>3. JobsOk'
    BY <1>1, <1>10, <2>2 DEF JobsOk
  <2>4. MarkerOk'
    BY <1>1, <2>2, MarkerKept DEF IInv
  <2>5. QuietBackupSound'
    BY <1>1 DEF IInv, QuietBackupSound
  <2> QED
    BY <1>1, <2>3, <2>4, <2>5 DEF IInv
<1> QED
  BY <1>2, <1>3, <1>9, <1>10

LEMMA BackupTarStep == ASSUME IInv, NEW j \in Jobs, BackupTar(j) PROVE IInv'
<1> DEFINE n    == FirstOf(job[j].todo)
           rest == job[j].todo \ {n}
           r    == [job[j] EXCEPT !.data = With(@, n, tree[n]), !.todo = rest,
                                  !.at = IF rest = {} THEN "pack" ELSE "tar"]
<1>1. /\ job[j].kind = "backup" /\ job[j].at = "tar" /\ Started(j)
      /\ DOMAIN job[j] = Fields /\ JobOk(job[j], tree, marker, arch, bin)
      /\ UNCHANGED <<tree, marker, configured, arch, bin, found>>
  BY DEF BackupTar, At, Started, files, IInv, JobsOk
<1>2. CASE End(j, "failed")
  BY <1>1, <1>2, EndStep
<1>3. CASE job' = [job EXCEPT ![j] = r]
  <2>1. /\ job[j].todo # {} /\ DOMAIN job[j].man \subseteq Names
        /\ DOMAIN job[j].data \cup job[j].todo = DOMAIN job[j].man /\ job[j].opt \subseteq Names
        /\ job[j].quiet => ReadsBase(job[j], tree)
    BY <1>1 DEF JobOk, BackupOk
  <2>2. n \in job[j].todo
    BY <2>1, FirstIn
  <2>3. /\ DOMAIN r = Fields /\ r.kind = "backup" /\ r.todo = rest
        /\ r.man = job[j].man /\ r.base = job[j].base /\ r.opt = job[j].opt
        /\ r.data = With(job[j].data, n, tree[n])
        /\ r.at = IF rest = {} THEN "pack" ELSE "tar"
    BY <1>1 DEF Fields
  <2>4. r.quiet = job[j].quiet
    BY <1>1 DEF Fields
  <2> HIDE DEF r, n
  <2>5. /\ DOMAIN r.data = DOMAIN job[j].data \cup {n}
        /\ \A m \in DOMAIN job[j].data : r.data[m] = job[j].data[m]
        /\ n \notin DOMAIN job[j].data => r.data[n] = tree[n]
    BY <2>3 DEF With
  <2>6. DOMAIN r.data \cup rest = DOMAIN r.man
    BY <2>1, <2>2, <2>3, <2>5
  <2> HIDE DEF rest
  <2>7. ASSUME r.quiet PROVE ReadsBase(r, tree)
    <3>1. ReadsBase(job[j], tree)
      BY <2>1, <2>4, <2>7
    <3>2. \A m \in DOMAIN r.data : r.data[m] = tree[m]
      BY <2>5, <3>1 DEF ReadsBase
    <3>3. r.at # "hash"
      BY <2>3
    <3>4. DOMAIN r.man = {m \in r.opt : tree[m] # Absent}
      BY <1>1, <2>3, <3>1 DEF ReadsBase
    <3> QED
      BY <2>3, <3>1, <3>2, <3>3, <3>4 DEF ReadsBase
  <2>8. BackupOk(r, tree)
    <3>1. DOMAIN r.man # {} /\ DOMAIN r.man \subseteq Names /\ r.opt \subseteq Names
      BY <2>1, <2>3
    <3>2. CASE rest = {}
      BY <3>1, <3>2, <2>3, <2>6, <2>7 DEF BackupOk
    <3>3. CASE rest # {}
      BY <3>1, <3>3, <2>3, <2>6, <2>7 DEF BackupOk
    <3> QED
      BY <3>2, <3>3
  <2>9. JobOk(r, tree, marker, arch, bin)
    BY <2>3, <2>8 DEF JobOk, InstallOk, RestoreOk, UpdateOk
  <2> QED
    BY <1>1, <1>3, <2>3, <2>9, OneJob DEF KeepsInstalled
<1> QED
  BY <1>2, <1>3 DEF BackupTar

(* An archive that is packed undisturbed is sound, and any archive holds a   *)
(* file.                                                                     *)
Sound(a) ==
    /\ Inspect(a) <=> a.fits
    /\ DOMAIN a.data = {n \in DOMAIN a.base : a.base[n] # Absent}
    /\ \A n \in DOMAIN a.data : a.data[n] = a.base[n]

LEMMA PackedSound ==
  ASSUME IInv, NEW j \in Jobs, job[j].kind = "backup", job[j].at = "pack", NEW fits
  PROVE LET a == Packed(j, fits)
        IN  /\ Solid(a)
            /\ a.quiet => job[j].quiet /\ ~job[j].mixed
            /\ job[j].quiet /\ a # None => Sound(a)
<1> DEFINE r == job[j]
           a == Packed(j, fits)
<1>1. BackupOk(r, tree)
  BY DEF IInv, JobsOk, JobOk
<1>2. DOMAIN r.man # {} /\ DOMAIN r.man \subseteq Names /\ DOMAIN r.data = DOMAIN r.man
  BY <1>1 DEF BackupOk
<1>3. /\ a.man = r.man /\ a.data = r.data /\ a.base = [n \in r.opt |-> r.base[n]] /\ a.fits = fits
      /\ a.whole <=> \A n \in DOMAIN r.man : SizeOf(r.data[n]) = r.man[n].size
      /\ a.quiet => r.quiet /\ ~r.mixed
  BY DEF Packed, Archive
<1> HIDE DEF a
<1>4. Solid(a)
  BY <1>2, <1>3 DEF Solid
<1>5. ASSUME r.quiet, a # None PROVE Sound(a)
  <2>1. ReadsBase(r, tree)
    BY <1>1, <1>5 DEF BackupOk
  <2>2. \A n \in DOMAIN r.man : r.man[n] = Entry(r.data[n]) /\ r.data[n] = r.base[n]
    BY <1>2, <2>1 DEF ReadsBase
  <2>3. \A n \in DOMAIN r.man : SizeOf(r.data[n]) = r.man[n].size
    <3> TAKE n \in DOMAIN r.man
    <3>1. r.man[n] = Entry(r.data[n])
      BY <2>2
    <3> QED
      BY <3>1 DEF Entry
  <2>4. Inspect(a) <=> a.fits
    <3>1. a.whole
      BY <1>3, <2>3
    <3> QED
      BY <1>2, <1>3, <1>5, <2>2, <3>1 DEF Inspect, Entry
  <2>5. DOMAIN r.man = {n \in r.opt : r.base[n] # Absent}
    BY <2>1 DEF ReadsBase
  <2>6. /\ DOMAIN a.base = r.opt
        /\ \A n \in r.opt : a.base[n] = r.base[n]
    BY <1>3
  <2>7. DOMAIN a.data = {n \in DOMAIN a.base : a.base[n] # Absent}
    BY <1>2, <1>3, <2>5, <2>6
  <2>8. \A n \in DOMAIN a.data : a.data[n] = a.base[n]
    BY <1>2, <1>3, <2>2, <2>5, <2>6
  <2> QED
    BY <2>4, <2>7, <2>8 DEF Sound
<1> QED
  BY <1>3, <1>4, <1>5 DEF a

LEMMA BackupPackStep == ASSUME IInv, NEW j \in Jobs, BackupPack(j) PROVE IInv'
<1>1. /\ job[j].kind = "backup" /\ job[j].at = "pack" /\ Started(j)
      /\ DOMAIN job[j] = Fields /\ JobOk(job[j], tree, marker, arch, bin)
      /\ UNCHANGED <<tree, marker, configured, bin, found>>
  BY DEF BackupPack, At, Started, IInv, JobsOk
<1>2. CASE End(j, "failed") /\ arch' = arch
  BY <1>1, <1>2, EndStep
<1>3. CASE \E fits \in BOOLEAN :
              /\ \/ arch' = Packed(j, fits)
                 \/ job[j].mixed /\ arch' = [Packed(j, fits) EXCEPT !.whole = FALSE]
              /\ End(j, "ok")
  <2> DEFINE e == Ended(job[j], "ok")
  <2>1. PICK fits \in BOOLEAN :
              \/ arch' = Packed(j, fits)
              \/ job[j].mixed /\ arch' = [Packed(j, fits) EXCEPT !.whole = FALSE]
    BY <1>3
  <2> DEFINE a   == Packed(j, fits)
             cut == [a EXCEPT !.whole = FALSE]
  <2>2. cut.data = a.data /\ cut.quiet = a.quiet
    BY DEF Packed, Archive
  <2>3. /\ Solid(a)
        /\ a.quiet => job[j].quiet /\ ~job[j].mixed
        /\ job[j].quiet /\ a # None => Sound(a)
    BY <1>1, PackedSound
  <2> HIDE DEF a
  <2>4. Solid(arch')
    BY <2>1, <2>2, <2>3 DEF Solid, a
  <2>5. QuietBackupSound'
    <3> SUFFICES ASSUME arch' # None, arch'.quiet PROVE Sound(arch')
      BY DEF QuietBackupSound, Sound, Inspect, SizeOf
    <3>1. CASE arch' = a
      BY <3>1, <2>3
    <3>2. CASE job[j].mixed /\ arch' = cut
      BY <3>2, <2>2, <2>3
    <3> QED
      BY <2>1, <3>1, <3>2 DEF a
  <2>6. DOMAIN e = Fields /\ JobOk(e, tree, marker, arch, bin)
    BY <1>1, EndedOk DEF Started
  <2>7. e.kind = "backup"
    BY <1>1, EndedFields
  <2>8. job' = [job EXCEPT ![j] = e]
    BY <1>3 DEF End
  <2> HIDE DEF e
  <2>9. \A k \in Jobs : job'[k] = IF k = j THEN e ELSE job[k]
    BY <2>8 DEF IInv, JobsOk
  <2>10. \A k \in Jobs : DOMAIN job'[k] = Fields /\ JobOk(job'[k], tree, marker, arch', bin)
    BY <2>4, <2>6, <2>9 DEF IInv, JobsOk, JobOk, RestoreOk
  <2>11. JobsOk'
    BY <1>1, <2>8, <2>10 DEF JobsOk, IInv
  <2>12. MarkerOk'
    BY <1>1, <2>7, <2>9, MarkerKept DEF IInv, KeepsInstalled
  <2> QED
    BY <1>1, <2>4, <2>5, <2>11, <2>12 DEF IInv
<1> QED
  BY <1>2, <1>3 DEF BackupPack

-----------------------------------------------------------------------------
(* Restore.                                                                  *)

LEMMA RestoreStartStep == ASSUME IInv, NEW j \in Jobs, RestoreStart(j) PROVE IInv'
<1>1. PICK p \in {Agent, j}, dry \in BOOLEAN, force \in BOOLEAN :
        /\ p = j => dry = ~force
        /\ Start(j, "restore", p,
                 IF configured THEN From("inspect", [dry |-> dry, force |-> force]) ELSE Refuse, tree)
  BY DEF RestoreStart
<1> DEFINE o == IF configured THEN From("inspect", [dry |-> dry, force |-> force]) ELSE Refuse
<1>2. Start(j, "restore", p, o, tree)
  BY <1>1
<1>3. \/ o.at = "inspect" /\ o.out = "none"
      \/ o.at = "done" /\ o.out = "refused"
  <2>1. CASE configured
    BY <2>1 DEF From
  <2>2. CASE ~configured
    BY <2>2 DEF From, Refuse
  <2> QED
    BY <2>1, <2>2
<1> HIDE DEF o
<1>4. StartedAs(job'[j], "restore", o, tree)
  BY <1>2, StartFields
<1>5. RestoreOk(job'[j], tree, arch)
  BY <1>3, <1>4 DEF StartedAs, RestoreOk, Restored
<1>6. JobOk(job'[j], tree, marker, arch, bin)
  BY <1>4, <1>5 DEF StartedAs, JobOk, InstallOk, BackupOk, UpdateOk
<1> QED
  BY <1>2, <1>6, StartStep DEF RestoreStart

LEMMA RestoreInspectStep == ASSUME IInv, NEW j \in Jobs, RestoreInspect(j) PROVE IInv'
<1>1. /\ job[j].kind = "restore" /\ job[j].at = "inspect" /\ Started(j)
      /\ DOMAIN job[j] = Fields /\ JobOk(job[j], tree, marker, arch, bin)
      /\ UNCHANGED <<tree, marker, configured, arch, bin, found>>
  BY DEF RestoreInspect, At, Started, files, IInv, JobsOk
<1> DEFINE r == [job[j] EXCEPT !.at = "open", !.seen = arch]
<1>2. \/ End(j, "refused")
      \/ job[j].opt.dry /\ End(j, "ok")
      \/ Inspect(arch) /\ ~job[j].opt.dry /\ job' = [job EXCEPT ![j] = r]
  BY DEF RestoreInspect
<1>3. job[j].wrote = {} /\ job[j].listed = {}
  BY <1>1 DEF JobOk, RestoreOk
<1>4. CASE End(j, "refused")
  BY <1>1, <1>3, <1>4, EndStep
<1>5. CASE job[j].opt.dry /\ End(j, "ok")
  <2> DEFINE e == Ended(job[j], "ok")
  <2>1. /\ DOMAIN e = Fields /\ e.kind = "restore" /\ e.at = "done" /\ e.out = "ok"
        /\ e.opt = job[j].opt /\ e.wrote = {} /\ e.listed = {}
    BY <1>1, <1>3, EndedFields
  <2> HIDE DEF e
  <2>2. JobOk(e, tree, marker, arch, bin)
    BY <1>5, <2>1 DEF JobOk, InstallOk, BackupOk, RestoreOk, UpdateOk
  <2>3. job' = [job EXCEPT ![j] = e]
    BY <1>5 DEF End, e
  <2> QED
    BY <1>1, <2>1, <2>2, <2>3, OneJob DEF KeepsInstalled
<1>6. CASE Inspect(arch) /\ ~job[j].opt.dry /\ job' = [job EXCEPT ![j] = r]
  <2>1. /\ DOMAIN r = Fields /\ r.kind = "restore" /\ r.at = "open" /\ r.seen = arch
        /\ r.opt = job[j].opt /\ r.wrote = {} /\ r.listed = {} /\ r.out = job[j].out
        /\ r.base = job[j].base
    BY <1>1, <1>3 DEF Fields
  <2>2. r.quiet = job[j].quiet
    BY <1>1 DEF Fields
  <2> HIDE DEF r
  <2>3. Solid(arch)
    BY <1>6 DEF Inspect, IInv
  <2>4. r.quiet => Restored(r, tree)
    <3>1. job[j].quiet => Restored(job[j], tree)
      BY <1>1 DEF JobOk, RestoreOk
    <3> QED
      BY <1>3, <2>1, <2>2, <3>1 DEF Restored
  <2>5. job[j].out = "none"
    BY <1>1 DEF JobOk, RestoreOk
  <2>6. JobOk(r, tree, marker, arch, bin)
    BY <1>6, <2>1, <2>3, <2>4, <2>5 DEF JobOk, InstallOk, BackupOk, RestoreOk, UpdateOk
  <2> QED
    BY <1>1, <1>6, <2>1, <2>6, OneJob DEF KeepsInstalled
<1> QED
  BY <1>2, <1>4, <1>5, <1>6

LEMMA RestoreOpenStep == ASSUME IInv, NEW j \in Jobs, RestoreOpen(j) PROVE IInv'
<1> DEFINE r == [job[j] EXCEPT !.at = "file", !.src = arch, !.todo = DOMAIN arch.data]
<1>1. /\ job[j].kind = "restore" /\ job[j].at = "open"
      /\ DOMAIN job[j] = Fields /\ JobOk(job[j], tree, marker, arch, bin)
      /\ UNCHANGED <<tree, marker, configured, arch, bin, found>>
      /\ job' = [job EXCEPT ![j] = r]
  BY DEF RestoreOpen, At, files, IInv, JobsOk
<1>2. /\ job[j].wrote = {} /\ job[j].listed = {} /\ ~job[j].opt.dry /\ Inspect(job[j].seen)
      /\ Solid(arch) /\ job[j].out = "none" /\ (job[j].quiet => Restored(job[j], tree))
  BY <1>1 DEF JobOk, RestoreOk
<1>3. /\ DOMAIN r = Fields /\ r.kind = "restore" /\ r.at = "file" /\ r.src = arch
      /\ r.todo = DOMAIN arch.data /\ r.seen = job[j].seen /\ r.opt = job[j].opt
      /\ r.wrote = {} /\ r.listed = {} /\ r.out = "none" /\ r.base = job[j].base
  BY <1>1, <1>2 DEF Fields
<1>4. r.quiet = job[j].quiet
  BY <1>1 DEF Fields
<1> HIDE DEF r
<1>5. r.quiet => Restored(r, tree)
  BY <1>2, <1>3, <1>4 DEF Restored
<1>6. RestoreOk(r, tree, arch)
  BY <1>2, <1>3, <1>5 DEF RestoreOk, Solid
<1>7. JobOk(r, tree, marker, arch, bin)
  BY <1>3, <1>6 DEF JobOk, InstallOk, BackupOk, UpdateOk
<1> QED
  BY <1>1, <1>3, <1>7, OneJob DEF KeepsInstalled

LEMMA RestoreFileStep == ASSUME IInv, NEW j \in Jobs, RestoreFile(j) PROVE IInv'
<1> DEFINE n == FirstOf(job[j].todo)
           r == [job[j] EXCEPT !.at = "fill", !.wrote = @ \cup {n}]
<1>1. /\ job[j].kind = "restore" /\ job[j].at = "file" /\ Started(j)
      /\ DOMAIN job[j] = Fields /\ JobOk(job[j], tree, marker, arch, bin)
      /\ UNCHANGED <<marker, configured, arch, bin, found>>
  BY DEF RestoreFile, At, Started, IInv, JobsOk
<1>2. CASE End(j, "failed") /\ tree' = tree
  BY <1>1, <1>2, EndStep
<1>3. CASE tree' = [tree EXCEPT ![n] = Torn] /\ Disturb(j, r)
  <2>1. /\ ~job[j].opt.dry /\ Inspect(job[j].seen) /\ Solid(job[j].src) /\ job[j].todo # {}
        /\ job[j].todo \cup job[j].listed = DOMAIN job[j].src.data
        /\ job[j].todo \cap job[j].listed = {} /\ job[j].wrote = job[j].listed
        /\ job[j].out = "none"
        /\ job[j].quiet => Restored(job[j], tree)
    BY <1>1 DEF JobOk, RestoreOk
  <2>2. job[j].todo \subseteq Names
    BY <2>1 DEF Solid
  <2>3. n \in job[j].todo /\ n \in Names
    BY <2>1, <2>2, FirstIn
  <2>4. /\ DOMAIN r = Fields /\ r.kind = "restore" /\ r.at = "fill" /\ r.src = job[j].src
        /\ r.todo = job[j].todo /\ r.seen = job[j].seen /\ r.opt = job[j].opt
        /\ r.wrote = job[j].wrote \cup {n} /\ r.listed = job[j].listed
        /\ r.out = job[j].out /\ r.base = job[j].base
    BY <1>1 DEF Fields
  <2>5. r.quiet = job[j].quiet
    BY <1>1 DEF Fields
  <2> HIDE DEF r
  <2>6. r.wrote = r.listed \cup {FirstOf(r.todo)}
    BY <2>1, <2>4
  <2> HIDE DEF n
  <2>7. DOMAIN tree' = Names /\ \A m \in Names : tree'[m] = IF m = n THEN Torn ELSE tree[m]
    BY <1>3, <2>3 DEF IInv
  <2>8. ASSUME r.quiet PROVE Restored(r, tree')
    <3>1. Restored(job[j], tree)
      BY <2>1, <2>5, <2>8
    <3>2. \A m \in Names \ r.wrote : tree'[m] = r.base[m]
      BY <2>4, <2>7, <3>1 DEF Restored
    <3>3. job[j].src.whole => \A m \in job[j].listed : tree[m] = job[j].src.data[m]
      BY <1>1, <3>1 DEF Restored
    <3>4. job[j].listed \subseteq Names \ {n}
      BY <2>1, <2>3 DEF Solid
    <3> QED
      BY <2>4, <2>7, <3>2, <3>3, <3>4 DEF Restored
  <2>9. RestoreOk(r, tree', arch)
    BY <2>1, <2>4, <2>6, <2>8 DEF RestoreOk
  <2>10. JobOk(r, tree', marker, arch, bin')
    BY <2>4, <2>9 DEF JobOk, InstallOk, BackupOk, UpdateOk
  <2> QED
    BY <1>1, <1>3, <2>4, <2>7, <2>10, OneWriter DEF KeepsInstalled, IInv
<1> QED
  BY <1>2, <1>3 DEF RestoreFile

(* The files of a restore when one more is filled.                           *)
LEMMA FilledOk ==
  ASSUME IInv, NEW j \in Jobs, job[j].kind = "restore", job[j].at = "fill",
         NEW c, c = job[j].src.data[FirstOf(job[j].todo)] \/ ~job[j].src.whole,
         tree' = [tree EXCEPT ![FirstOf(job[j].todo)] = c],
         job[j].quiet
  PROVE /\ \A m \in Names \ job[j].wrote : tree'[m] = job[j].base[m]
        /\ job[j].src.whole =>
               \A m \in job[j].listed \cup {FirstOf(job[j].todo)} : tree'[m] = job[j].src.data[m]
<1> DEFINE n == FirstOf(job[j].todo)
<1>1. RestoreOk(job[j], tree, arch)
  BY DEF IInv, JobsOk, JobOk
<1>2. /\ Solid(job[j].src) /\ job[j].todo # {}
      /\ job[j].todo \cup job[j].listed = DOMAIN job[j].src.data
      /\ job[j].wrote = job[j].listed \cup {n}
      /\ Restored(job[j], tree)
  BY <1>1 DEF RestoreOk
<1>3. n \in job[j].todo
  <2>1. job[j].todo \subseteq Names
    BY <1>2 DEF Solid
  <2> QED
    BY <1>2, <2>1, FirstIn
<1> HIDE DEF n
<1>4. n \in Names /\ job[j].listed \subseteq Names
  BY <1>2, <1>3 DEF Solid
<1>5. \A m \in Names : tree'[m] = IF m = n THEN c ELSE tree[m]
  BY <1>4 DEF IInv, n
<1>6. \A m \in Names \ job[j].wrote : tree'[m] = job[j].base[m]
  BY <1>2, <1>5 DEF Restored
<1>7. ASSUME job[j].src.whole PROVE \A m \in job[j].listed \cup {n} : tree'[m] = job[j].src.data[m]
  <2>1. \A m \in job[j].listed : tree[m] = job[j].src.data[m]
    BY <1>2, <1>7 DEF Restored
  <2>2. c = job[j].src.data[n]
    BY <1>7 DEF n
  <2> QED
    BY <1>4, <1>5, <2>1, <2>2
<1> QED
  BY <1>6, <1>7 DEF n

LEMMA RestoreFillStep == ASSUME IInv, NEW j \in Jobs, RestoreFill(j) PROVE IInv'
<1> DEFINE n     == FirstOf(job[j].todo)
           rest  == job[j].todo \ {n}
           whole == job[j].src.whole
           r     == [job[j] EXCEPT !.listed = @ \cup {n}, !.todo = rest, !.at = "file"]
           out   == IF whole THEN "ok" ELSE "failed"
           e     == Ended(r, out)
<1>1. /\ job[j].kind = "restore" /\ job[j].at = "fill" /\ Started(j)
      /\ DOMAIN job[j] = Fields /\ JobOk(job[j], tree, marker, arch, bin)
      /\ UNCHANGED <<marker, configured, arch, bin, found>>
  BY DEF RestoreFill, At, Started, IInv, JobsOk
<1>2. CASE End(j, "failed") /\ tree' = tree
  BY <1>1, <1>2, EndStep
<1>3. CASE /\ \E c \in {job[j].src.data[n]} \cup (IF whole THEN {} ELSE {Torn}) :
                  tree' = [tree EXCEPT ![n] = c]
           /\ Disturb(j, IF rest # {} THEN r ELSE e)
  <2>1. /\ ~job[j].opt.dry /\ Inspect(job[j].seen) /\ Solid(job[j].src) /\ job[j].todo # {}
        /\ job[j].todo \cup job[j].listed = DOMAIN job[j].src.data
        /\ job[j].todo \cap job[j].listed = {} /\ job[j].wrote = job[j].listed \cup {n}
        /\ job[j].out = "none"
    BY <1>1 DEF JobOk, RestoreOk
  <2>2. PICK c : /\ c = job[j].src.data[n] \/ ~whole
                 /\ tree' = [tree EXCEPT ![n] = c]
    BY <1>3
  <2>3. job[j].quiet => /\ \A m \in Names \ job[j].wrote : tree'[m] = job[j].base[m]
                        /\ whole => \A m \in job[j].listed \cup {n} : tree'[m] = job[j].src.data[m]
    <3> SUFFICES ASSUME job[j].quiet
                 PROVE /\ \A m \in Names \ job[j].wrote : tree'[m] = job[j].base[m]
                       /\ whole => \A m \in job[j].listed \cup {n} : tree'[m] = job[j].src.data[m]
      OBVIOUS
    <3> QED
      BY <1>1, <2>2, FilledOk
  <2>4. n \in job[j].todo
    <3>1. job[j].todo \subseteq Names
      BY <2>1 DEF Solid
    <3> QED
      BY <2>1, <3>1, FirstIn
  <2>5. /\ DOMAIN r = Fields /\ r.kind = "restore" /\ r.at = "file" /\ r.src = job[j].src
        /\ r.todo = rest /\ r.seen = job[j].seen /\ r.opt = job[j].opt
        /\ r.wrote = job[j].wrote /\ r.listed = job[j].listed \cup {n}
        /\ r.out = job[j].out /\ r.base = job[j].base
    BY <1>1 DEF Fields
  <2>6. r.quiet = job[j].quiet
    BY <1>1 DEF Fields
  <2> HIDE DEF r, n, out
  <2>7. /\ DOMAIN e = Fields /\ e.kind = "restore" /\ e.at = "done" /\ e.out = out
        /\ e.opt = r.opt /\ e.wrote = r.wrote /\ e.listed = r.listed
        /\ out = "ok" => e.src = r.src /\ e.seen = r.seen /\ e.base = r.base
    BY <2>5, EndedFields
  <2>8. e.quiet = job[j].quiet
    <3>1. e.quiet = r.quiet
      BY <2>5, EndedFields
    <3> QED
      BY <2>6, <3>1
  <2> USE DEF out
  <2>9. DOMAIN tree' = Names
    BY <2>2 DEF IInv
  <2>10. rest \cup r.listed = DOMAIN r.src.data /\ rest \cap r.listed = {} /\ r.wrote = r.listed
    BY <2>1, <2>4, <2>5
  <2>11. CASE rest # {}
    <3> HIDE DEF rest, e
    <3>1. r.quiet => Restored(r, tree')
      BY <2>3, <2>5, <2>6 DEF Restored
    <3>2. RestoreOk(r, tree', arch)
      BY <2>1, <2>5, <2>10, <2>11, <3>1 DEF RestoreOk
    <3>3. JobOk(r, tree', marker, arch, bin')
      BY <2>5, <3>2 DEF JobOk, InstallOk, BackupOk, UpdateOk
    <3>4. Disturb(j, r)
      BY <1>3, <2>11
    <3> QED
      BY <1>1, <2>5, <2>9, <3>3, <3>4, OneWriter DEF KeepsInstalled, IInv
  <2>12. CASE rest = {}
    <3> HIDE DEF rest, e
    <3>1. ASSUME e.out = "ok", ~e.opt.dry, e.quiet, e.src = e.seen, NEW m \in Names
          PROVE tree'[m] = IF m \in DOMAIN e.src.man THEN e.src.man[m].sha ELSE e.base[m]
      <4>1. whole /\ job[j].quiet /\ e.src = job[j].src /\ e.base = job[j].base
        BY <2>5, <2>7, <2>8, <3>1
      <4>2. Inspect(job[j].src)
        BY <2>1, <2>5, <2>7, <3>1, <4>1
      <4>3. /\ DOMAIN job[j].src.data = DOMAIN job[j].src.man
            /\ \A k \in DOMAIN job[j].src.man : job[j].src.man[k].sha = job[j].src.data[k]
        <5>1. DOMAIN job[j].src.data = DOMAIN job[j].src.man
          BY <4>2 DEF Inspect
        <5>2. ASSUME NEW k \in DOMAIN job[j].src.man
              PROVE job[j].src.man[k].sha = job[j].src.data[k]
          <6>1. job[j].src.man[k] = [size |-> SizeOf(job[j].src.data[k]), sha |-> job[j].src.data[k]]
            BY <4>2 DEF Inspect
          <6> QED
            BY <6>1
        <5> QED
          BY <5>1, <5>2
      <4>4. DOMAIN job[j].src.data = job[j].listed \cup {n} /\ job[j].wrote = job[j].listed \cup {n}
        BY <2>1, <2>5, <2>10, <2>12
      <4> QED
        BY <2>3, <4>1, <4>3, <4>4
    <3>2. \E k : e.wrote \ e.listed \subseteq {k}
      BY <2>7, <2>10
    <3>3. RestoreOk(e, tree', arch)
      BY <2>1, <2>5, <2>7, <2>10, <3>1, <3>2 DEF RestoreOk
    <3>4. JobOk(e, tree', marker, arch, bin')
      BY <2>7, <3>3 DEF JobOk, InstallOk, BackupOk, UpdateOk
    <3>5. Disturb(j, e)
      BY <1>3, <2>12
    <3> QED
      BY <1>1, <2>7, <2>9, <3>4, <3>5, OneWriter DEF KeepsInstalled, IInv
  <2> QED
    BY <2>11, <2>12
<1> QED
  BY <1>2, <1>3 DEF RestoreFill

-----------------------------------------------------------------------------
(* The server, kills, and every step.                                        *)

LEMMA ServerWriteStep == ASSUME IInv, ServerWrite PROVE IInv'
<1>1. /\ job' = [k \in Jobs |-> IF Started(k) THEN [job[k] EXCEPT !.quiet = FALSE] ELSE job[k]]
      /\ UNCHANGED <<marker, configured, arch, bin, found>>
  BY DEF ServerWrite
<1>2. DOMAIN tree' = Names
  BY DEF ServerWrite, IInv
<1>3. ASSUME NEW k \in Jobs
      PROVE /\ DOMAIN job'[k] = Fields /\ JobOk(job'[k], tree', marker, arch, bin)
            /\ KeepsInstalled(job[k], job'[k])
  <2>1. DOMAIN job[k] = Fields /\ JobOk(job[k], tree, marker, arch, bin)
    BY DEF IInv, JobsOk
  <2>2. CASE Started(k)
    <3> DEFINE d == [job[k] EXCEPT !.quiet = FALSE]
    <3>1. /\ DOMAIN d = Fields /\ JobOk(d, tree', marker, arch, bin)
          /\ d.kind = job[k].kind /\ d.wrote = job[k].wrote /\ d.taken = job[k].taken
      BY <2>1, DisturbedOk
    <3> HIDE DEF d
    <3>2. job'[k] = d
      BY <1>1, <2>2 DEF d
    <3> QED
      BY <3>1, <3>2 DEF KeepsInstalled
  <2>3. CASE ~Started(k)
    <3>1. job'[k] = job[k] /\ job[k].kind = "none"
      BY <1>1, <2>3 DEF Started
    <3> QED
      BY <2>1, <3>1, IdleOk DEF KeepsInstalled
  <2> QED
    BY <2>2, <2>3
<1>4. JobsOk'
  BY <1>1, <1>3 DEF JobsOk
<1>5. MarkerOk'
  BY <1>1, <1>3, MarkerKept DEF IInv
<1>6. QuietBackupSound'
  BY <1>1 DEF IInv, QuietBackupSound
<1> QED
  BY <1>1, <1>2, <1>4, <1>5, <1>6 DEF IInv

LEMMA KillStep == ASSUME IInv, Kill PROVE IInv'
<1>1. /\ UNCHANGED <<tree, marker, configured, arch, bin, found>>
      /\ DOMAIN job' = Jobs
  BY DEF Kill, files
<1>2. ASSUME NEW k \in Jobs
      PROVE /\ DOMAIN job'[k] = Fields /\ JobOk(job'[k], tree, marker, arch, bin)
            /\ KeepsInstalled(job[k], job'[k])
  <2>1. DOMAIN job[k] = Fields /\ JobOk(job[k], tree, marker, arch, bin)
    BY DEF IInv, JobsOk
  <2>2. job'[k] = job[k] \/ (Running(k) /\ job'[k] = Ended(job[k], "killed"))
    BY DEF Kill
  <2>3. CASE job'[k] = job[k]
    BY <2>1, <2>3 DEF KeepsInstalled
  <2>4. CASE Running(k) /\ job'[k] = Ended(job[k], "killed")
    <3>1. job[k].kind # "none" /\ job[k].at # "done"
      BY <2>4 DEF Running, Started
    <3>2. DOMAIN Ended(job[k], "killed") = Fields
          /\ JobOk(Ended(job[k], "killed"), tree, marker, arch, bin)
      BY <2>1, <3>1, EndedOk
    <3>3. KeepsInstalled(job[k], Ended(job[k], "killed"))
      BY <2>1, EndedFields DEF KeepsInstalled
    <3> QED
      BY <2>4, <3>2, <3>3
  <2> QED
    BY <2>2, <2>3, <2>4
<1>3. JobsOk'
  BY <1>1, <1>2 DEF JobsOk
<1>4. MarkerOk'
  BY <1>1, <1>2, MarkerKept DEF IInv
<1>5. QuietBackupSound'
  BY <1>1 DEF IInv, QuietBackupSound
<1> QED
  BY <1>1, <1>3, <1>4, <1>5 DEF IInv

LEMMA InitIInv == Init => IInv
<1> SUFFICES ASSUME Init PROVE IInv
  OBVIOUS
<1>1. DOMAIN tree = Names
  BY RunningAssumption DEF Init
<1>2. JobsOk
  <2>1. DOMAIN Idle = Fields /\ Idle.kind = "none"
    BY DEF Idle, Fields
  <2>2. DOMAIN job = Jobs /\ \A j \in Jobs : job[j] = Idle
    BY DEF Init
  <2> QED
    BY <2>1, <2>2, IdleOk DEF JobsOk
<1>3. MarkerOk
  BY DEF Init, MarkerOk
<1>4. (arch = None \/ Solid(arch)) /\ QuietBackupSound
  <2> DEFINE old == Archive([n \in {1} |-> [size |-> SizeOf(Running0[1]), sha |-> Running0[1]]],
                            [n \in {1} |-> Running0[1]], TRUE, TRUE, FALSE, None)
  <2>1. arch = None \/ arch = old
    BY DEF Init
  <2>2. DOMAIN old.data = {1} /\ ~old.quiet
    BY DEF Archive
  <2>3. 1 \in Names
    BY FilesAssumption DEF Names
  <2> HIDE DEF old
  <2> QED
    BY <2>1, <2>2, <2>3 DEF Solid, QuietBackupSound
<1>5. bin \in Releases \cup {Version0}
  BY DEF Init
<1> QED
  BY <1>1, <1>2, <1>3, <1>4, <1>5 DEF IInv

(* Every step keeps the invariant.                                           *)
LEMMA NextIInv == IInv /\ [Next]_hostVars => IInv'
<1> SUFFICES ASSUME IInv, [Next]_hostVars PROVE IInv'
  OBVIOUS
<1>1. CASE \E j \in Jobs : BackupStep(j)
  BY <1>1, BackupStartStep, BackupHashStep, BackupTarStep, BackupPackStep, RestoreStartStep,
     RestoreInspectStep, RestoreOpenStep, RestoreFileStep, RestoreFillStep DEF BackupStep
<1>2. CASE \E j \in Jobs : InstallStep(j)
  BY <1>2, InstallStartStep, InstallFetchStep, InstallMoveStep, InstallMarkStep,
     InstallFirewallStep, InstallConfigStep, UpdateStartStep, UpdateFetchStep, UpdateSwapStep
     DEF InstallStep
<1>3. CASE ServerWrite
  BY <1>3, ServerWriteStep
<1>4. CASE ConfigSet
  BY <1>4, ConfigSetStep
<1>5. CASE Kill
  BY <1>5, KillStep
<1>6. CASE UNCHANGED hostVars
  BY <1>6 DEF hostVars, files, IInv, JobsOk, MarkerOk, QuietBackupSound
<1> QED
  BY <1>1, <1>2, <1>3, <1>4, <1>5, <1>6 DEF Next

(* In every reachable state the inductive invariant holds.                    *)
LEMMA Invariance == Spec => []IInv
BY InitIInv, NextIInv, PTL DEF Spec

-----------------------------------------------------------------------------
(* Types: what a job has read and is about to write are contents of files.   *)

Values == DOMAIN Size \cup {Absent, Torn}
FilesOf(f) == \A n \in DOMAIN f : f[n] \in Values
ArchiveType(a) == Solid(a) /\ DOMAIN a.man \subseteq Names /\ FilesOf(a.data)

Kinds == {"none", "backup", "restore", "install", "update"}
Walks == {"hash", "tar", "file", "fill", "move"}

JobType(r, a) ==
    /\ r.kind \in Kinds /\ (r.kind = "none" => r.at = "idle")
    /\ r.at \notin Walks => r.todo = {}
    /\ r.todo \cup r.wrote \cup r.listed \cup r.taken \subseteq Names
    /\ r.kind = "backup" /\ r.at # "done" => FilesOf(r.data)
    /\ r.at = "move" => r.src \in Values
    /\ r.at = "open" => ArchiveType(a)
    /\ r.at \in {"file", "fill"} => FilesOf(r.src.data)

TypeInv ==
    /\ tree \in [Names -> Values]
    /\ marker \in BOOLEAN /\ configured \in BOOLEAN /\ writes \in 0..MaxWrites
    /\ arch = None \/ ArchiveType(arch)
    /\ \A j \in Jobs : JobType(job[j], arch)

(* The jobs beside the one that steps keep what their types depend on.       *)
SameType(r, s) ==
    /\ s.kind = r.kind /\ s.at = r.at /\ s.todo = r.todo /\ s.data = r.data /\ s.src = r.src
    /\ s.wrote = r.wrote /\ s.listed = r.listed /\ s.taken = r.taken
OthersSame(j) == \A k \in Jobs \ {j} : SameType(job[k], job'[k])

LEMMA OneSame ==
  ASSUME IInv, NEW j \in Jobs, NEW r, job' = [job EXCEPT ![j] = r]
  PROVE job'[j] = r /\ OthersSame(j)
  BY DEF IInv, JobsOk, OthersSame, SameType

LEMMA DisturbSame ==
  ASSUME IInv, NEW j \in Jobs, NEW r, Disturb(j, r)
  PROVE job'[j] = r /\ OthersSame(j)
<1>1. job'[j] = r
  BY DEF Disturb
<1>2. ASSUME NEW k \in Jobs \ {j} PROVE SameType(job[k], job'[k])
  <2>1. DOMAIN job[k] = Fields
    BY DEF IInv, JobsOk
  <2>2. job'[k] = job[k] \/ job'[k] = [job[k] EXCEPT !.quiet = FALSE]
    BY DEF Disturb
  <2> QED
    BY <2>1, <2>2 DEF Fields, SameType
<1> QED
  BY <1>1, <1>2 DEF OthersSame

LEMMA TypeStep ==
  ASSUME TypeInv, NEW j \in Jobs, OthersSame(j), JobType(job'[j], arch'),
         arch' = arch \/ ArchiveType(arch'), tree' \in [Names -> Values],
         marker' \in BOOLEAN, configured' \in BOOLEAN, writes' = writes
  PROVE TypeInv'
<1>1. ASSUME NEW k \in Jobs PROVE JobType(job'[k], arch')
  <2>1. CASE k = j
    BY <2>1
  <2>2. CASE k # j
    <3>1. SameType(job[k], job'[k]) /\ JobType(job[k], arch)
      BY <2>2 DEF OthersSame, TypeInv
    <3> QED
      BY <3>1 DEF SameType, JobType
  <2> QED
    BY <2>1, <2>2
<1> QED
  BY <1>1 DEF TypeInv

(* A job that ends has nothing left to visit.                                *)
LEMMA EndedType ==
  ASSUME NEW r, DOMAIN r = Fields, NEW a, JobType(r, a), r.kind # "none", NEW out
  PROVE JobType(Ended(r, out), a)
<1>1. LET e == Ended(r, out)
      IN  /\ e.kind = r.kind /\ e.at = "done" /\ e.wrote = r.wrote /\ e.listed = r.listed
          /\ e.taken = r.taken /\ e.todo = {}
  BY EndedFields
<1> QED
  BY <1>1 DEF JobType, Walks

LEMMA EndType ==
  ASSUME IInv, TypeInv, NEW j \in Jobs, NEW out, End(j, out), job[j].kind # "none",
         tree' = tree, marker' = marker, configured' \in BOOLEAN, writes' = writes,
         arch' = arch \/ ArchiveType(arch')
  PROVE TypeInv'
<1>1. DOMAIN job[j] = Fields /\ JobType(job[j], arch)
  BY DEF IInv, JobsOk, TypeInv
<1>2. JobType(Ended(job[j], out), arch)
  BY <1>1, EndedType
<1>3. Ended(job[j], out).at = "done"
  BY <1>1, EndedFields
<1>4. JobType(Ended(job[j], out), arch')
  BY <1>2, <1>3 DEF JobType
<1>5. job'[j] = Ended(job[j], out) /\ OthersSame(j)
  BY OneSame DEF End
<1> QED
  BY <1>4, <1>5, TypeStep DEF TypeInv

LEMMA StartType ==
  ASSUME IInv, TypeInv, NEW j \in Jobs, NEW kind, NEW proc, NEW opt, NEW base,
         Start(j, kind, proc, opt, base), UNCHANGED <<files, writes>>,
         kind \in Kinds \ {"none"}, opt.at \in {"hash", "inspect", "download", "done"},
         opt.todo \subseteq Names, opt.at # "hash" => opt.todo = {}
  PROVE TypeInv'
<1>1. /\ job' = [job EXCEPT ![j] = job'[j]] /\ StartedAs(job'[j], kind, opt, base)
  BY StartFields
<1>2. JobType(job'[j], arch)
  BY <1>1 DEF StartedAs, JobType, Walks, FilesOf
<1>3. OthersSame(j)
  BY <1>1, OneSame
<1> QED
  BY <1>2, <1>3, TypeStep DEF TypeInv, files

LEMMA InstallTypes == ASSUME IInv, TypeInv, NEW j \in Jobs, InstallStep(j) PROVE TypeInv'
<1> DEFINE Moved == [job[j] EXCEPT !.todo = job[j].todo \ {FirstOf(job[j].todo)},
                                   !.wrote = @ \cup {FirstOf(job[j].todo)},
                                   !.at = IF job[j].todo \ {FirstOf(job[j].todo)} = {} THEN "mark" ELSE "move"]
<1>1. /\ DOMAIN job[j] = Fields /\ JobType(job[j], arch) /\ JobOk(job[j], tree, marker, arch, bin)
      /\ marker \in BOOLEAN /\ configured \in BOOLEAN /\ tree \in [Names -> Values]
  BY DEF IInv, JobsOk, TypeInv
<1>2. CASE InstallStart(j)
  <2>1. PICK o \in {From("download", opt) : opt \in [sha : BOOLEAN, firewall : BOOLEAN]}
                   \cup {Refuse} : Start(j, "install", j, o, None)
    BY <1>2 DEF InstallStart
  <2>2. o.at \in {"download", "done"} /\ o.todo = {}
    BY DEF From, Refuse
  <2> QED
    BY <1>2, <2>1, <2>2, StartType DEF InstallStart, Kinds
<1>3. CASE InstallFetch(j)
  <2>1. /\ UNCHANGED <<tree, marker, configured, arch, writes>>
        /\ job[j].kind = "install"
    BY <1>3 DEF InstallFetch, At, files
  <2>2. CASE End(j, "failed")
    BY <1>1, <2>1, <2>2, EndType
  <2>3. CASE ~End(j, "failed")
    <3>1. PICK p \in {Package, Foreign}, root \in Roots :
            job' = [job EXCEPT ![j] = [job[j] EXCEPT !.at = IF root = {} THEN "mark" ELSE "move",
                                                     !.src = p, !.todo = root, !.taken = root]]
      <4>1. {Package} \cup (IF job[j].opt.sha THEN {} ELSE {Foreign}) \subseteq {Package, Foreign}
        OBVIOUS
      <4>2. PICK p \in {Package, Foreign}, root \in Roots :
              job' = [job EXCEPT ![j].at = IF root = {} THEN "mark" ELSE "move",
                                 ![j].src = p, ![j].todo = root, ![j].taken = root]
        BY <1>3, <2>3, <4>1 DEF InstallFetch
      <4> QED
        BY <4>2
    <3> DEFINE r == [job[j] EXCEPT !.at = IF root = {} THEN "mark" ELSE "move",
                                   !.src = p, !.todo = root, !.taken = root]
    <3>2. /\ r.kind = "install" /\ r.at = IF root = {} THEN "mark" ELSE "move"
          /\ r.src = p /\ r.todo = root
          /\ r.wrote = job[j].wrote /\ r.listed = job[j].listed /\ r.taken = root
      BY <1>1, <2>1 DEF Fields
    <3> HIDE DEF r
    <3>3. p \in Values /\ root \subseteq Names
      BY SizeAssumption, NestedAssumption DEF Values, Roots
    <3>4. JobType(r, arch)
      BY <1>1, <3>2, <3>3 DEF JobType, Walks, Kinds
    <3>5. job'[j] = r /\ OthersSame(j)
      BY <3>1, OneSame DEF r
    <3> QED
      BY <1>1, <2>1, <3>4, <3>5, TypeStep
  <2> QED
    BY <2>2, <2>3
<1>4. CASE InstallMove(j)
  <2>1. /\ UNCHANGED <<marker, configured, arch, writes>>
        /\ job[j].kind = "install" /\ job[j].at = "move"
    BY <1>4 DEF InstallMove, At
  <2>2. CASE End(j, "failed") /\ tree' = tree
    BY <1>1, <2>1, <2>2, EndType
  <2>3. CASE tree' = [tree EXCEPT ![FirstOf(job[j].todo)] = job[j].src] /\ Disturb(j, Moved)
    <3> DEFINE n == FirstOf(job[j].todo)
               rest == job[j].todo \ {n}
    <3>1. job[j].todo \subseteq Names /\ job[j].todo # {} /\ job[j].src \in Values
      BY <1>1, <2>1 DEF JobOk, InstallOk, JobType
    <3>2. n \in Names
      BY <3>1, FirstIn
    <3>3. tree' \in [Names -> Values]
      BY <1>1, <2>3, <3>1
    <3>4. /\ Moved.kind = "install" /\ Moved.at = IF rest = {} THEN "mark" ELSE "move"
          /\ Moved.todo = rest /\ Moved.wrote = job[j].wrote \cup {n}
          /\ Moved.listed = job[j].listed /\ Moved.taken = job[j].taken /\ Moved.src = job[j].src
      BY <1>1, <2>1 DEF Fields
    <3>5. job'[j] = Moved /\ OthersSame(j)
      BY <2>3, DisturbSame
    <3> HIDE DEF n, Moved
    <3>6. JobType(Moved, arch)
      BY <1>1, <2>1, <3>1, <3>2, <3>4 DEF JobType, Walks
    <3> QED
      BY <1>1, <2>1, <3>3, <3>5, <3>6, TypeStep
  <2> QED
    BY <1>4, <2>2, <2>3 DEF InstallMove
<1>5. CASE InstallMark(j)
  <2> DEFINE r == [job[j] EXCEPT !.at = "firewall"]
  <2>1. /\ UNCHANGED <<tree, configured, arch, writes>> /\ marker' = TRUE
        /\ job[j].kind = "install" /\ job[j].at = "mark"
        /\ job' = [job EXCEPT ![j] = r]
    BY <1>5 DEF InstallMark, At
  <2>2. /\ r.kind = "install" /\ r.at = "firewall" /\ r.todo = job[j].todo
        /\ r.wrote = job[j].wrote /\ r.listed = job[j].listed /\ r.taken = job[j].taken
    BY <1>1, <2>1 DEF Fields
  <2> HIDE DEF r
  <2>3. JobType(r, arch)
    BY <1>1, <2>1, <2>2 DEF JobType, Walks, Kinds
  <2>4. job'[j] = r /\ OthersSame(j)
    BY <2>1, OneSame
  <2> QED
    BY <1>1, <2>1, <2>3, <2>4, TypeStep
<1>6. CASE InstallFirewall(j)
  <2> DEFINE r == [job[j] EXCEPT !.at = "config"]
  <2>1. /\ UNCHANGED <<tree, marker, configured, arch, writes>>
        /\ job[j].kind = "install" /\ job[j].at = "firewall"
        /\ End(j, "failed") \/ job' = [job EXCEPT ![j] = r]
    BY <1>6 DEF InstallFirewall, At, files
  <2>2. /\ r.kind = "install" /\ r.at = "config" /\ r.todo = job[j].todo
        /\ r.wrote = job[j].wrote /\ r.listed = job[j].listed /\ r.taken = job[j].taken
    BY <1>1, <2>1 DEF Fields
  <2> HIDE DEF r
  <2>3. CASE End(j, "failed")
    BY <1>1, <2>1, <2>3, EndType
  <2>4. CASE job' = [job EXCEPT ![j] = r]
    <3>1. JobType(r, arch)
      BY <1>1, <2>1, <2>2 DEF JobType, Walks, Kinds
    <3>2. job'[j] = r /\ OthersSame(j)
      BY <2>4, OneSame
    <3> QED
      BY <1>1, <2>1, <3>1, <3>2, TypeStep
  <2> QED
    BY <2>1, <2>3, <2>4
<1>7. CASE InstallConfig(j)
  <2>1. /\ UNCHANGED <<tree, marker, arch, writes>> /\ configured' = TRUE
        /\ job[j].kind = "install" /\ End(j, "ok")
    BY <1>7 DEF InstallConfig, At
  <2> QED
    BY <1>1, <2>1, EndType
<1>8. CASE UpdateStart(j)
  <2>1. PICK o, base : /\ Start(j, "update", j, o, base)
                       /\ o.at \in {"download", "done"} /\ o.todo = {}
    <3>1. PICK release \in Announced, check \in BOOLEAN, sources \in Sources :
            Start(j, "update", j,
                  IF IsNewer(release.version, bin) /\ ~check
                  THEN [From("download", release) EXCEPT !.size = sources] ELSE Refuse, bin)
      BY <1>8 DEF UpdateStart
    <3> DEFINE o == IF IsNewer(release.version, bin) /\ ~check
                    THEN [From("download", release) EXCEPT !.size = sources] ELSE Refuse
    <3>2. o.at \in {"download", "done"} /\ o.todo = {}
      BY DEF From, Refuse
    <3>3. Start(j, "update", j, o, bin)
      BY <3>1
    <3> QED
      BY <3>2, <3>3
  <2> QED
    BY <1>8, <2>1, StartType DEF UpdateStart, Kinds
<1>9. CASE UpdateFetch(j)
  <2>1. /\ UNCHANGED <<tree, marker, configured, arch, writes>>
        /\ job[j].kind = "update" /\ job[j].at = "download"
    BY <1>9 DEF UpdateFetch, At, files
  <2>2. CASE End(j, "failed")
    BY <1>1, <2>1, <2>2, EndType
  <2>3. CASE ~End(j, "failed")
    <3>1. PICK r : /\ job' = [job EXCEPT ![j] = r]
                   /\ r.kind = "update" /\ r.at \in {"download", "probe"} /\ r.todo = job[j].todo
                   /\ r.wrote = job[j].wrote /\ r.listed = job[j].listed /\ r.taken = job[j].taken
      <4>1. \/ job' = [job EXCEPT ![j] = [job[j] EXCEPT !.size = @ - 1]]
            \/ job' = [job EXCEPT ![j] = [job[j] EXCEPT !.at = "probe"]]
        BY <1>9, <2>3 DEF UpdateFetch
      <4> QED
        BY <1>1, <2>1, <4>1 DEF Fields
    <3>2. JobType(r, arch)
      BY <1>1, <2>1, <3>1 DEF JobType, Walks, Kinds
    <3>3. job'[j] = r /\ OthersSame(j)
      BY <3>1, OneSame
    <3> QED
      BY <1>1, <2>1, <3>2, <3>3, TypeStep
  <2> QED
    BY <2>2, <2>3
<1>10. CASE UpdateSwap(j)
  <2>1. /\ UNCHANGED <<tree, marker, configured, arch, writes>>
        /\ job[j].kind = "update"
        /\ End(j, "failed") \/ Disturb(j, Ended(job[j], "ok"))
    BY <1>10 DEF UpdateSwap, At
  <2>2. CASE End(j, "failed")
    BY <1>1, <2>1, <2>2, EndType
  <2>3. CASE Disturb(j, Ended(job[j], "ok"))
    BY <1>1, <2>1, <2>3, DisturbSame, EndedType, TypeStep
  <2> QED
    BY <2>1, <2>2, <2>3
<1> QED
  BY <1>2, <1>3, <1>4, <1>5, <1>6, <1>7, <1>8, <1>9, <1>10 DEF InstallStep

(* What a backup reads is a file's content, and its archive has its types.   *)
LEMMA BackupTypes ==
  ASSUME IInv, TypeInv, NEW j \in Jobs,
         BackupStart(j) \/ BackupHash(j) \/ BackupTar(j) \/ BackupPack(j)
  PROVE TypeInv'
<1> DEFINE n    == FirstOf(job[j].todo)
           rest == job[j].todo \ {n}
<1>1. /\ DOMAIN job[j] = Fields /\ JobType(job[j], arch) /\ JobOk(job[j], tree, marker, arch, bin)
      /\ marker \in BOOLEAN /\ configured \in BOOLEAN /\ tree \in [Names -> Values]
  BY DEF IInv, JobsOk, TypeInv
<1>2. CASE BackupStart(j)
  <2>1. PICK p, o : /\ Start(j, "backup", p, o, tree)
                    /\ o.at \in {"hash", "done"} /\ o.todo \subseteq Names /\ (o.at # "hash" => o.todo = {})
    <3>1. PICK p \in {Agent, j}, list \in Lists :
            Start(j, "backup", p,
                  IF configured /\ Listed(list) # {}
                  THEN [From("hash", list) EXCEPT !.todo = Listed(list),
                                                  !.size = SizeOf(tree[FirstOf(Listed(list))])]
                  ELSE Refuse,
                  tree)
      BY <1>2 DEF BackupStart
    <3> DEFINE o == IF configured /\ Listed(list) # {}
                    THEN [From("hash", list) EXCEPT !.todo = Listed(list),
                                                    !.size = SizeOf(tree[FirstOf(Listed(list))])]
                    ELSE Refuse
    <3>2. o.at \in {"hash", "done"} /\ o.todo \subseteq Names /\ (o.at # "hash" => o.todo = {})
      BY DEF From, Refuse, Listed, Present
    <3>3. Start(j, "backup", p, o, tree)
      BY <3>1
    <3> QED
      BY <3>2, <3>3
  <2> QED
    BY <1>2, <2>1, StartType DEF BackupStart, Kinds
<1>3. CASE BackupHash(j)
  <2> DEFINE r  == [job[j] EXCEPT !.man = With(@, n, [size |-> job[j].size, sha |-> tree[n]])]
             r1 == [r EXCEPT !.todo = rest, !.size = SizeOf(tree[FirstOf(rest)])]
             r2 == [r EXCEPT !.at = "tar", !.todo = DOMAIN r.man, !.mixed = Beside(j) # {}]
  <2>1. /\ UNCHANGED <<tree, marker, configured, arch, writes>>
        /\ job[j].kind = "backup" /\ job[j].at = "hash"
    BY <1>3 DEF BackupHash, At, files
  <2>2. \/ End(j, "failed")
        \/ job' = [job EXCEPT ![j] = r1]
        \/ job' = [k \in Jobs |-> IF k = j THEN r2
                                  ELSE [job[k] EXCEPT !.mixed = @ \/ k \in Beside(j)]]
    BY <1>3 DEF BackupHash
  <2>3. CASE End(j, "failed")
    BY <1>1, <2>1, <2>3, EndType
  <2>4. /\ DOMAIN r = Fields /\ r.kind = "backup" /\ r.at = "hash" /\ r.data = job[j].data
        /\ r.man = With(job[j].man, n, [size |-> job[j].size, sha |-> tree[n]])
        /\ r.wrote = job[j].wrote /\ r.listed = job[j].listed /\ r.taken = job[j].taken
    BY <1>1, <2>1 DEF Fields
  <2> HIDE DEF r
  <2>5. /\ r1.kind = "backup" /\ r1.at = "hash" /\ r1.data = job[j].data /\ r1.todo = rest
        /\ r1.wrote = job[j].wrote /\ r1.listed = job[j].listed /\ r1.taken = job[j].taken
    BY <2>4 DEF Fields
  <2>6. /\ r2.kind = "backup" /\ r2.at = "tar" /\ r2.data = job[j].data /\ r2.todo = DOMAIN r.man
        /\ r2.wrote = job[j].wrote /\ r2.listed = job[j].listed /\ r2.taken = job[j].taken
    BY <2>4 DEF Fields
  <2> HIDE DEF r1, r2
  <2>7. CASE job' = [job EXCEPT ![j] = r1]
    <3>1. JobType(r1, arch)
      BY <1>1, <2>1, <2>5 DEF JobType, Walks, Kinds
    <3>2. job'[j] = r1 /\ OthersSame(j)
      BY <2>7, OneSame
    <3> QED
      BY <1>1, <2>1, <3>1, <3>2, TypeStep
  <2>8. CASE job' = [k \in Jobs |-> IF k = j THEN r2
                                    ELSE [job[k] EXCEPT !.mixed = @ \/ k \in Beside(j)]]
    <3>1. DOMAIN r.man \subseteq Names
      <4>1. n \in Names /\ DOMAIN job[j].man \subseteq Names
        BY <1>1, <2>1, FirstIn DEF JobOk, BackupOk
      <4> HIDE DEF n
      <4>2. DOMAIN r.man = DOMAIN job[j].man \cup {n}
        BY <2>4 DEF With
      <4> QED
        BY <4>1, <4>2
    <3>2. JobType(r2, arch)
      BY <1>1, <2>1, <2>6, <3>1 DEF JobType, Walks, Kinds
    <3>3. job'[j] = r2
      BY <2>8
    <3>4. ASSUME NEW k \in Jobs \ {j} PROVE SameType(job[k], job'[k])
      <4>1. PICK x : job'[k] = [job[k] EXCEPT !.mixed = x]
        BY <2>8
      <4>2. DOMAIN job[k] = Fields
        BY DEF IInv, JobsOk
      <4> QED
        BY <4>1, <4>2 DEF Fields, SameType
    <3> QED
      BY <1>1, <2>1, <3>2, <3>3, <3>4, TypeStep DEF OthersSame
  <2> QED
    BY <2>2, <2>3, <2>7, <2>8
<1>4. CASE BackupTar(j)
  <2> DEFINE r == [job[j] EXCEPT !.data = With(@, n, tree[n]), !.todo = rest,
                                 !.at = IF rest = {} THEN "pack" ELSE "tar"]
  <2>1. /\ UNCHANGED <<tree, marker, configured, arch, writes>>
        /\ job[j].kind = "backup" /\ job[j].at = "tar"
        /\ End(j, "failed") \/ job' = [job EXCEPT ![j] = r]
    BY <1>4 DEF BackupTar, At, files
  <2>2. /\ r.kind = "backup" /\ r.at = IF rest = {} THEN "pack" ELSE "tar"
        /\ r.data = With(job[j].data, n, tree[n]) /\ r.todo = rest
        /\ r.wrote = job[j].wrote /\ r.listed = job[j].listed /\ r.taken = job[j].taken
    BY <1>1, <2>1 DEF Fields
  <2> HIDE DEF r
  <2>3. CASE End(j, "failed")
    BY <1>1, <2>1, <2>3, EndType
  <2>4. CASE job' = [job EXCEPT ![j] = r]
    <3>1. n \in Names /\ job[j].todo \subseteq Names
      BY <1>1, <2>1, FirstIn DEF JobOk, BackupOk, JobType
    <3> HIDE DEF n
    <3>2. FilesOf(r.data)
      <4>1. tree[n] \in Values /\ FilesOf(job[j].data)
        BY <1>1, <2>1, <3>1 DEF JobType
      <4> QED
        BY <2>2, <4>1 DEF FilesOf, With
    <3>3. JobType(r, arch)
      BY <1>1, <2>1, <2>2, <3>1, <3>2 DEF JobType, Walks, Kinds
    <3>4. job'[j] = r /\ OthersSame(j)
      BY <2>4, OneSame
    <3> QED
      BY <1>1, <2>1, <3>3, <3>4, TypeStep
  <2> QED
    BY <2>1, <2>3, <2>4
<1>5. CASE BackupPack(j)
  <2>1. /\ UNCHANGED <<tree, marker, configured, writes>>
        /\ job[j].kind = "backup" /\ job[j].at = "pack"
        /\ \/ /\ \E fits \in BOOLEAN : \/ arch' = Packed(j, fits)
                                       \/ arch' = [Packed(j, fits) EXCEPT !.whole = FALSE]
              /\ End(j, "ok")
           \/ arch' = arch /\ End(j, "failed")
    BY <1>5 DEF BackupPack, At
  <2>2. ASSUME NEW fits
        PROVE /\ Packed(j, fits).data = job[j].data /\ Packed(j, fits).man = job[j].man
              /\ [Packed(j, fits) EXCEPT !.whole = FALSE].data = job[j].data
              /\ [Packed(j, fits) EXCEPT !.whole = FALSE].man = job[j].man
    BY DEF Packed, Archive
  <2>3. /\ DOMAIN job[j].man # {} /\ DOMAIN job[j].man \subseteq Names
        /\ DOMAIN job[j].data = DOMAIN job[j].man /\ FilesOf(job[j].data)
    BY <1>1, <2>1 DEF JobOk, BackupOk, JobType
  <2>4. ASSUME NEW fits
        PROVE ArchiveType(Packed(j, fits)) /\ ArchiveType([Packed(j, fits) EXCEPT !.whole = FALSE])
    BY <2>2, <2>3 DEF ArchiveType, Solid
  <2>5. arch' = arch \/ ArchiveType(arch')
    BY <2>1, <2>4
  <2> QED
    BY <1>1, <2>1, <2>5, EndType
<1> QED
  BY <1>2, <1>3, <1>4, <1>5

(* What a restore writes is from the archive it has opened.                  *)
LEMMA RestoreTypes ==
  ASSUME IInv, TypeInv, NEW j \in Jobs,
         RestoreStart(j) \/ RestoreInspect(j) \/ RestoreOpen(j) \/ RestoreFile(j) \/ RestoreFill(j)
  PROVE TypeInv'
<1> DEFINE n    == FirstOf(job[j].todo)
           rest == job[j].todo \ {n}
<1>1. /\ DOMAIN job[j] = Fields /\ JobType(job[j], arch) /\ JobOk(job[j], tree, marker, arch, bin)
      /\ marker \in BOOLEAN /\ configured \in BOOLEAN /\ tree \in [Names -> Values]
  BY DEF IInv, JobsOk, TypeInv
<1>2. CASE RestoreStart(j)
  <2>1. PICK p, o : Start(j, "restore", p, o, tree) /\ o.at \in {"inspect", "done"} /\ o.todo = {}
    <3>1. PICK p \in {Agent, j}, dry \in BOOLEAN, force \in BOOLEAN :
            Start(j, "restore", p,
                  IF configured THEN From("inspect", [dry |-> dry, force |-> force]) ELSE Refuse, tree)
      BY <1>2 DEF RestoreStart
    <3> DEFINE o == IF configured THEN From("inspect", [dry |-> dry, force |-> force]) ELSE Refuse
    <3>2. o.at \in {"inspect", "done"} /\ o.todo = {}
      BY DEF From, Refuse
    <3>3. Start(j, "restore", p, o, tree)
      BY <3>1
    <3> QED
      BY <3>2, <3>3
  <2> QED
    BY <1>2, <2>1, StartType DEF RestoreStart, Kinds
<1>3. CASE RestoreInspect(j)
  <2> DEFINE r == [job[j] EXCEPT !.at = "open", !.seen = arch]
  <2>1. /\ UNCHANGED <<tree, marker, configured, arch, writes>>
        /\ job[j].kind = "restore" /\ job[j].at = "inspect"
        /\ \/ \E out : End(j, out)
           \/ Inspect(arch) /\ job' = [job EXCEPT ![j] = r]
    BY <1>3 DEF RestoreInspect, At, files
  <2>2. /\ r.kind = "restore" /\ r.at = "open" /\ r.todo = job[j].todo
        /\ r.wrote = job[j].wrote /\ r.listed = job[j].listed /\ r.taken = job[j].taken
    BY <1>1, <2>1 DEF Fields
  <2> HIDE DEF r
  <2>3. CASE \E out : End(j, out)
    BY <1>1, <2>1, <2>3, EndType
  <2>4. CASE Inspect(arch) /\ job' = [job EXCEPT ![j] = r]
    <3>1. ArchiveType(arch)
      BY <2>4 DEF TypeInv, Inspect
    <3>2. JobType(r, arch)
      BY <1>1, <2>1, <2>2, <3>1 DEF JobType, Walks, Kinds
    <3>3. job'[j] = r /\ OthersSame(j)
      BY <2>4, OneSame
    <3> QED
      BY <1>1, <2>1, <3>2, <3>3, TypeStep
  <2> QED
    BY <2>1, <2>3, <2>4
<1>4. CASE RestoreOpen(j)
  <2> DEFINE r == [job[j] EXCEPT !.at = "file", !.src = arch, !.todo = DOMAIN arch.data]
  <2>1. /\ UNCHANGED <<tree, marker, configured, arch, writes>>
        /\ job[j].kind = "restore" /\ job[j].at = "open" /\ job' = [job EXCEPT ![j] = r]
    BY <1>4 DEF RestoreOpen, At, files
  <2>2. /\ r.kind = "restore" /\ r.at = "file" /\ r.todo = DOMAIN arch.data /\ r.src = arch
        /\ r.wrote = job[j].wrote /\ r.listed = job[j].listed /\ r.taken = job[j].taken
    BY <1>1, <2>1 DEF Fields
  <2> HIDE DEF r
  <2>3. ArchiveType(arch)
    BY <1>1, <2>1 DEF JobType
  <2>4. JobType(r, arch)
    BY <1>1, <2>1, <2>2, <2>3 DEF JobType, ArchiveType, Solid, Walks, Kinds
  <2>5. job'[j] = r /\ OthersSame(j)
    BY <2>1, OneSame
  <2> QED
    BY <1>1, <2>1, <2>4, <2>5, TypeStep
<1>5. CASE RestoreFile(j)
  <2> DEFINE r == [job[j] EXCEPT !.at = "fill", !.wrote = @ \cup {n}]
  <2>1. /\ UNCHANGED <<marker, configured, arch, writes>>
        /\ job[j].kind = "restore" /\ job[j].at = "file"
        /\ \/ End(j, "failed") /\ tree' = tree
           \/ tree' = [tree EXCEPT ![n] = Torn] /\ Disturb(j, r)
    BY <1>5 DEF RestoreFile, At
  <2>2. CASE End(j, "failed") /\ tree' = tree
    BY <1>1, <2>1, <2>2, EndType
  <2>3. CASE tree' = [tree EXCEPT ![n] = Torn] /\ Disturb(j, r)
    <3>1. n \in Names
      BY <1>1, <2>1, FirstIn DEF JobOk, RestoreOk, JobType
    <3>2. /\ r.kind = "restore" /\ r.at = "fill" /\ r.todo = job[j].todo /\ r.src = job[j].src
          /\ r.wrote = job[j].wrote \cup {n} /\ r.listed = job[j].listed /\ r.taken = job[j].taken
      BY <1>1, <2>1 DEF Fields
    <3>3. job'[j] = r /\ OthersSame(j)
      BY <2>3, DisturbSame
    <3>4. tree' \in [Names -> Values]
      BY <1>1, <2>3 DEF Values
    <3> HIDE DEF n, r
    <3>5. JobType(r, arch)
      BY <1>1, <2>1, <3>1, <3>2 DEF JobType, Walks, Kinds
    <3> QED
      BY <1>1, <2>1, <3>3, <3>4, <3>5, TypeStep
  <2> QED
    BY <2>1, <2>2, <2>3
<1>6. CASE RestoreFill(j)
  <2> DEFINE r == [job[j] EXCEPT !.listed = @ \cup {n}, !.todo = rest, !.at = "file"]
  <2>1. /\ UNCHANGED <<marker, configured, arch, writes>>
        /\ job[j].kind = "restore" /\ job[j].at = "fill"
        /\ \/ End(j, "failed") /\ tree' = tree
           \/ /\ \E c \in {job[j].src.data[n], Torn} : tree' = [tree EXCEPT ![n] = c]
              /\ \/ rest # {} /\ Disturb(j, r)
                 \/ \E out : Disturb(j, Ended(r, out))
    <3>1. /\ UNCHANGED <<marker, configured, arch, writes>>
          /\ job[j].kind = "restore" /\ job[j].at = "fill"
      BY <1>6 DEF RestoreFill, At
    <3>2. \/ End(j, "failed") /\ tree' = tree
          \/ /\ \E c \in {job[j].src.data[n]} \cup (IF job[j].src.whole THEN {} ELSE {Torn}) :
                    tree' = [tree EXCEPT ![n] = c]
             /\ Disturb(j, IF rest # {} THEN r ELSE Ended(r, IF job[j].src.whole THEN "ok" ELSE "failed"))
      BY <1>6 DEF RestoreFill
    <3> HIDE DEF r, n
    <3>3. (\E c \in {job[j].src.data[n]} \cup (IF job[j].src.whole THEN {} ELSE {Torn}) :
                    tree' = [tree EXCEPT ![n] = c])
          => \E c \in {job[j].src.data[n], Torn} : tree' = [tree EXCEPT ![n] = c]
      OBVIOUS
    <3>4. Disturb(j, IF rest # {} THEN r ELSE Ended(r, IF job[j].src.whole THEN "ok" ELSE "failed"))
          => (rest # {} /\ Disturb(j, r)) \/ \E out : Disturb(j, Ended(r, out))
      <4>1. CASE rest # {}
        BY <4>1
      <4>2. CASE rest = {}
        BY <4>2
      <4> QED
        BY <4>1, <4>2
    <3> QED
      BY <3>1, <3>2, <3>3, <3>4
  <2>2. CASE End(j, "failed") /\ tree' = tree
    BY <1>1, <2>1, <2>2, EndType
  <2>3. /\ n \in Names /\ n \in DOMAIN job[j].src.data /\ FilesOf(job[j].src.data)
        /\ job[j].todo # {} /\ job[j].todo \subseteq Names
    BY <1>1, <2>1, FirstIn DEF JobOk, RestoreOk, JobType
  <2>4. /\ DOMAIN r = Fields /\ r.kind = "restore" /\ r.at = "file" /\ r.todo = rest /\ r.src = job[j].src
        /\ r.wrote = job[j].wrote /\ r.listed = job[j].listed \cup {n} /\ r.taken = job[j].taken
    BY <1>1, <2>1 DEF Fields
  <2> HIDE DEF n, r
  <2>5. JobType(r, arch)
    BY <1>1, <2>1, <2>3, <2>4 DEF JobType, Walks, Kinds
  <2>6. CASE /\ \E c \in {job[j].src.data[n], Torn} : tree' = [tree EXCEPT ![n] = c]
             /\ \/ rest # {} /\ Disturb(j, r)
                \/ \E out : Disturb(j, Ended(r, out))
    <3>1. tree' \in [Names -> Values]
      <4>1. job[j].src.data[n] \in Values /\ Torn \in Values
        BY <2>3 DEF FilesOf, Values
      <4> QED
        BY <1>1, <2>6, <4>1
    <3>2. JobType(job'[j], arch) /\ OthersSame(j)
      BY <2>4, <2>5, <2>6, DisturbSame, EndedType
    <3> QED
      BY <1>1, <2>1, <3>1, <3>2, TypeStep
  <2> QED
    BY <2>1, <2>2, <2>6
<1> QED
  BY <1>2, <1>3, <1>4, <1>5, <1>6

(* The server writes contents, the config is set or not, and a kill only     *)
(* ends jobs.                                                                *)
LEMMA OtherTypes == ASSUME IInv, TypeInv, ServerWrite \/ ConfigSet \/ Kill PROVE TypeInv'
<1>1. CASE ServerWrite
  <2>1. /\ UNCHANGED <<marker, configured, arch>> /\ writes < MaxWrites /\ writes' = writes + 1
        /\ job' = [k \in Jobs |-> IF Started(k) THEN [job[k] EXCEPT !.quiet = FALSE] ELSE job[k]]
    BY <1>1 DEF ServerWrite
  <2>2. tree' \in [Names -> Values]
    <3>1. Contents \cup {Absent} \subseteq Values
      BY SizeAssumption DEF Values
    <3> QED
      BY <1>1, <3>1 DEF ServerWrite, TypeInv
  <2>3. ASSUME NEW k \in Jobs PROVE JobType(job'[k], arch)
    <3>1. DOMAIN job[k] = Fields /\ JobType(job[k], arch)
      BY DEF IInv, JobsOk, TypeInv
    <3>2. job'[k] = job[k] \/ job'[k] = [job[k] EXCEPT !.quiet = FALSE]
      BY <2>1
    <3>3. SameType(job[k], job'[k])
      BY <3>1, <3>2 DEF Fields, SameType
    <3> QED
      BY <3>1, <3>3 DEF SameType, JobType
  <2>4. writes' \in 0..MaxWrites
    BY <2>1, WritesAssumption DEF TypeInv
  <2> QED
    BY <2>1, <2>2, <2>3, <2>4 DEF TypeInv
<1>2. CASE Kill
  <2>1. UNCHANGED <<tree, marker, configured, arch, writes>>
    BY <1>2 DEF Kill, files
  <2>2. ASSUME NEW k \in Jobs PROVE JobType(job'[k], arch)
    <3>1. DOMAIN job[k] = Fields /\ JobType(job[k], arch)
      BY DEF IInv, JobsOk, TypeInv
    <3>2. job'[k] = job[k] \/ (job[k].kind # "none" /\ job'[k] = Ended(job[k], "killed"))
      BY <1>2 DEF Kill, Running, Started
    <3> QED
      BY <3>1, <3>2, EndedType
  <2> QED
    BY <2>1, <2>2 DEF TypeInv
<1>3. CASE ConfigSet
  <2>1. /\ UNCHANGED <<tree, marker, arch, job, writes>> /\ configured' \in BOOLEAN
    BY <1>3 DEF ConfigSet
  <2> QED
    BY <2>1 DEF TypeInv
<1> QED
  BY <1>1, <1>2, <1>3

LEMMA InitTypes == Init => TypeInv
<1> SUFFICES ASSUME Init PROVE TypeInv
  OBVIOUS
<1>1. tree \in [Names -> Values]
  BY RunningAssumption DEF Init, Values
<1>2. arch = None \/ ArchiveType(arch)
  <2> DEFINE old == Archive([n \in {1} |-> [size |-> SizeOf(Running0[1]), sha |-> Running0[1]]],
                            [n \in {1} |-> Running0[1]], TRUE, TRUE, FALSE, None)
  <2>1. arch = None \/ arch = old
    BY DEF Init
  <2>2. /\ DOMAIN old.data = {1} /\ DOMAIN old.man = {1} /\ old.data[1] = Running0[1]
    BY DEF Archive
  <2>3. 1 \in Names
    BY FilesAssumption DEF Names
  <2>4. Running0[1] \in Values
    BY <2>3, RunningAssumption DEF Values
  <2> HIDE DEF old
  <2> QED
    BY <2>1, <2>2, <2>3, <2>4 DEF ArchiveType, Solid, FilesOf
<1>3. ASSUME NEW j \in Jobs PROVE JobType(job[j], arch)
  <2>1. job[j] = Idle
    BY DEF Init
  <2>2. Idle.kind = "none" /\ Idle.at = "idle" /\ Idle.todo = {} /\ Idle.wrote = {} /\ Idle.listed = {}
        /\ Idle.taken = Names
    BY DEF Idle
  <2> QED
    BY <2>1, <2>2 DEF JobType, Kinds
<1>4. writes \in 0..MaxWrites /\ marker \in BOOLEAN /\ configured \in BOOLEAN
  BY WritesAssumption DEF Init
<1> QED
  BY <1>1, <1>2, <1>3, <1>4 DEF TypeInv

LEMMA NextTypes == IInv /\ TypeInv /\ [Next]_hostVars => TypeInv'
<1> SUFFICES ASSUME IInv, TypeInv, [Next]_hostVars PROVE TypeInv'
  OBVIOUS
<1>1. CASE \E j \in Jobs : BackupStep(j)
  BY <1>1, BackupTypes, RestoreTypes DEF BackupStep
<1>2. CASE \E j \in Jobs : InstallStep(j)
  BY <1>2, InstallTypes
<1>3. CASE ServerWrite \/ ConfigSet \/ Kill
  BY <1>3, OtherTypes
<1>4. CASE UNCHANGED hostVars
  BY <1>4 DEF hostVars, files, TypeInv
<1> QED
  BY <1>1, <1>2, <1>3, <1>4 DEF Next

(* Whatever the jobs do to each other, a job in progress has files left to   *)
(* visit and none that is not of the installation, and every file, archive   *)
(* and version is one the host may have.                                     *)
THEOREM TypesHold == Spec => []TypeOK
<1>1. IInv /\ TypeInv => TypeOK
  <2> SUFFICES ASSUME IInv, TypeInv PROVE TypeOK
    OBVIOUS
  <2>1. arch # None => DOMAIN arch.data \subseteq Names /\ DOMAIN arch.man \subseteq Names
    BY DEF TypeInv, ArchiveType, Solid
  <2>2. ASSUME NEW j \in Jobs
        PROVE /\ job[j].at \in Walks <=> job[j].todo # {}
              /\ job[j].todo \cup job[j].wrote \cup job[j].listed \cup job[j].taken \subseteq Names
              /\ job[j].at = "pack" => DOMAIN job[j].data = DOMAIN job[j].man
              /\ job[j].at \in {"file", "fill"} =>
                     Inspect(job[j].seen) /\ DOMAIN job[j].src.data \subseteq Names
    <3>1. JobType(job[j], arch) /\ JobOk(job[j], tree, marker, arch, bin)
      BY DEF IInv, JobsOk, TypeInv
    <3>2. /\ job[j].at \in {"hash", "tar", "pack"} => job[j].kind = "backup"
          /\ job[j].at \in {"file", "fill"} => job[j].kind = "restore"
          /\ job[j].at = "move" => job[j].kind = "install"
      BY <3>1 DEF JobType, JobOk, InstallOk, BackupOk, RestoreOk, UpdateOk, Kinds
    <3>3. job[j].at \in Walks => job[j].todo # {}
      BY <3>1, <3>2 DEF Walks, JobOk, InstallOk, BackupOk, RestoreOk
    <3> QED
      BY <3>1, <3>2, <3>3 DEF JobType, JobOk, BackupOk, RestoreOk, Solid
  <2>3. bin \in Releases \cup {Version0}
    BY DEF IInv
  <2> QED
    BY <2>1, <2>2, <2>3 DEF TypeInv, TypeOK, Values, Walks
<1>2. Spec => []TypeInv
  BY Invariance, InitTypes, NextTypes, PTL DEF Spec
<1> QED
  BY Invariance, <1>1, <1>2, PTL

-----------------------------------------------------------------------------
(* However many backups, restores, installations and updates run side by     *)
(* side, with a server that writes and processes that are killed: an archive *)
(* that nobody disturbed holds the files of its include list, and passes     *)
(* inspection unless its manifest has more than 1 MiB                        *)
(* (createBackupArchive()).                                                  *)
THEOREM QuietBackups == Spec => []QuietBackupSound
<1>1. IInv => QuietBackupSound
  BY DEF IInv
<1> QED
  BY Invariance, <1>1, PTL

(* A restore that succeeds leaves the files of the archive it inspected over *)
(* those that were there (restoreBackupArchive()).                           *)
THEOREM RestoresExactly == Spec => []RestoreExact
<1>1. IInv => RestoreExact
  BY DEF IInv, JobsOk, JobOk, RestoreOk, RestoreExact
<1> QED
  BY Invariance, <1>1, PTL

(* A restore that ended reports what it did, but for one file at most.       *)
LEMMA Accounts == ASSUME IInv PROVE RestoreAccounts
<1> SUFFICES ASSUME NEW j \in Jobs, job[j].kind = "restore", job[j].at = "done"
             PROVE LET more == job[j].wrote \ job[j].listed
                   IN  /\ job[j].listed \subseteq job[j].wrote
                       /\ job[j].out = "refused" \/ job[j].opt.dry => job[j].wrote = {}
                       /\ job[j].out = "ok" => more = {}
                       /\ Cardinality(more) <= 1
  BY DEF RestoreAccounts
<1> DEFINE more == job[j].wrote \ job[j].listed
<1>1. RestoreOk(job[j], tree, arch)
  BY DEF IInv, JobsOk, JobOk
<1>2. /\ job[j].listed \subseteq job[j].wrote
      /\ job[j].out = "refused" \/ job[j].opt.dry => job[j].wrote = {}
      /\ job[j].out = "ok" => more = {}
  BY <1>1 DEF RestoreOk
<1>3. PICK n : more \subseteq {n}
  BY <1>1 DEF RestoreOk
<1>4. more = {} \/ more = {n}
  BY <1>3
<1> HIDE DEF more
<1>5. Cardinality(more) <= 1
  <2>1. Cardinality({}) = 0
    BY FS_EmptySet
  <2>2. Cardinality({n}) = 1
    BY FS_Singleton
  <2> QED
    BY <1>4, <2>1, <2>2
<1> QED
  BY <1>2, <1>5 DEF more

(* What a restore reports is what it did, wherever it failed or was killed.  *)
THEOREM RestoresReport == Spec => []RestoreAccounts
BY Invariance, Accounts, PTL

(* The marker means that an installation moved all it took from its archive, *)
(* and a success that it did so and left the marker, wherever one was killed *)
(* (installer.ts, install.ts).                                               *)
THEOREM MarkersMeanInstalled == Spec => []MarkerMeansInstalled
<1>1. IInv => MarkerMeansInstalled
  BY DEF IInv, JobsOk, JobOk, InstallOk, MarkerOk, MarkerMeansInstalled
<1> QED
  BY Invariance, <1>1, PTL

(* An update replaces the executable by the later release it announced, or   *)
(* leaves it as it was (update.ts).                                          *)
THEOREM UpdatesAreWhole == Spec => []UpdateKeepsOrReplaces
<1>1. ASSUME IInv PROVE UpdateKeepsOrReplaces
  <2> SUFFICES ASSUME NEW j \in Jobs, job[j].kind = "update", job[j].quiet
               PROVE IF job[j].out = "ok"
                     THEN bin = job[j].opt.version /\ IsNewer(bin, job[j].base)
                     ELSE bin = job[j].base
    BY DEF UpdateKeepsOrReplaces
  <2>1. UpdateOk(job[j], bin)
    BY <1>1 DEF IInv, JobsOk, JobOk
  <2> QED
    BY <2>1 DEF UpdateOk
<1> QED
  BY Invariance, <1>1, PTL
=============================================================================
