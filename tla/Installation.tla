----------------------------- MODULE Installation -----------------------------
(***************************************************************************)
(* Installation of the server (installer.ts, install.ts) and the update of *)
(* the manager's own executable (update.ts).  Both download, verify and    *)
(* unpack into a directory of their own, which nobody else sees, before    *)
(* they change a file of the host.                                         *)
(***************************************************************************)
EXTENDS HostFiles, Sequences

CONSTANTS
    Releases,   \* versions, as sequences of numbers
    Mispacked,  \* releases whose executable reports another version
    MaxSources  \* bound: the mirrors and the origin a download tries

ASSUME ReleaseAssumption == \A v \in Releases : v \in Seq(Nat)
ASSUME SourceAssumption == MaxSources \in Nat \ {0}

-----------------------------------------------------------------------------
(* runInstall(): refused in a directory that is not empty unless forced.     *)

InstallStart(j) ==
    /\ \E force, sha, firewall \in BOOLEAN :
           LET opt == [sha |-> sha, firewall |-> firewall]
           IN  Start(j, "install", j,
                     IF force \/ (Present = {} /\ ~marker) THEN From("download", opt) ELSE Refuse,
                     None)
    /\ UNCHANGED <<files, writes, found>>

(* findExtractedRoot(): the entries of an archive with one directory are     *)
(* those of the directory, whatever lies beside it; of one with none or with *)
(* several, all of them.                                                     *)
Roots == {Names, Nested}

(* The download may fail or bring another archive, which a configured digest *)
(* finds out; tar may fail.                                                  *)
InstallFetch(j) ==
    /\ At(j, "install", "download")
    /\ \/ End(j, "failed")
       \/ \E p \in {Package} \cup (IF job[j].opt.sha THEN {} ELSE {Foreign}), root \in Roots :
              job' = [job EXCEPT ![j].at = IF root = {} THEN "mark" ELSE "move",
                                 ![j].src = p, ![j].todo = root, ![j].taken = root]
    /\ UNCHANGED <<files, writes, found>>

(* Mutant: the marker is written before the files are moved.                 *)
InstallMoveMarked(j) ==
    LET n    == FirstOf(job[j].todo)
        rest == job[j].todo \ {n}
    IN  /\ At(j, "install", "move")
        /\ tree' = [tree EXCEPT ![n] = job[j].src]
        /\ Disturb(j, [job[j] EXCEPT !.todo = rest, !.wrote = @ \cup {n},
                                     !.at = IF rest = {} THEN "mark" ELSE "move"])
        /\ marker' = TRUE
        /\ UNCHANGED <<configured, arch, bin, writes, found>>

(* One entry is renamed into its place; a directory does not replace one     *)
(* that is not empty.                                                        *)
InstallMove(j) ==
    LET n    == FirstOf(job[j].todo)
        rest == job[j].todo \ {n}
    IN  /\ At(j, "install", "move")
        /\ \/ n \in Dirs /\ tree[n] # Absent /\ End(j, "failed") /\ UNCHANGED tree
           \/ /\ n \in Dirs => tree[n] = Absent
              /\ tree' = [tree EXCEPT ![n] = job[j].src]
              /\ Disturb(j, [job[j] EXCEPT !.todo = rest, !.wrote = @ \cup {n},
                                           !.at = IF rest = {} THEN "mark" ELSE "move"])
        /\ UNCHANGED <<marker, configured, arch, bin, writes, found>>

InstallMark(j) ==
    /\ At(j, "install", "mark")
    /\ marker' = TRUE
    /\ job' = [job EXCEPT ![j].at = "firewall"]
    /\ UNCHANGED <<tree, configured, arch, bin, writes, found>>

(* A rule that is refused is only logged, a command that hangs fails.        *)
InstallFirewall(j) ==
    /\ At(j, "install", "firewall")
    /\ \/ job[j].opt.firewall /\ End(j, "failed")
       \/ job' = [job EXCEPT ![j].at = "config"]
    /\ UNCHANGED <<files, writes, found>>

InstallConfig(j) ==
    /\ At(j, "install", "config")
    /\ configured' = TRUE
    /\ End(j, "ok")
    /\ UNCHANGED <<tree, marker, arch, bin, writes, found>>

(* An administrator sets ts3.installPath, before or after an installation,   *)
(* or takes it out (config set).                                             *)
ConfigSet ==
    /\ configured' = ~configured
    /\ UNCHANGED <<tree, marker, arch, bin, job, writes, found>>

-----------------------------------------------------------------------------
(* Self-update.                                                              *)

(* isNewerVersion(): the first number that differs, a missing one being 0.   *)
IsNewer(v, w) ==
    LET Part(u, i) == IF i \in DOMAIN u THEN u[i] ELSE 0
        Parts == DOMAIN v \cup DOMAIN w
    IN  \E i \in Parts : /\ Part(v, i) > Part(w, i)
                         /\ \A k \in Parts : k < i => Part(v, k) = Part(w, k)

(* The latest release, or the pinned one, with or without a digest.          *)
Announced == [version : Releases, digest : BOOLEAN]

(* A download tries the mirrors one after another, and then the origin.      *)
Sources == 1..MaxSources

(* runUpdate(): the release is compared with the version that runs.          *)
UpdateStart(j) ==
    /\ bin # Torn
    /\ \E release \in Announced, check \in BOOLEAN, sources \in Sources :
           Start(j, "update", j,
                 IF IsNewer(release.version, bin) /\ ~check
                 THEN [From("download", release) EXCEPT !.size = sources] ELSE Refuse,
                 bin)
    /\ UNCHANGED <<files, writes, found>>

(* downloadWithMirror(): the next source is tried when one fails, not when   *)
(* it brings another archive; that, or a release with no digest, ends the    *)
(* update.                                                                   *)
UpdateFetch(j) ==
    /\ At(j, "update", "download")
    /\ \/ job[j].size > 1 /\ job' = [job EXCEPT ![j].size = @ - 1]
       \/ End(j, "failed")
       \/ job[j].opt.digest /\ job' = [job EXCEPT ![j].at = "probe"]
    /\ UNCHANGED <<files, writes, found>>

(* Mutant: the executable is copied over the old one and probed there.       *)
UpdateSwapInPlace(j) ==
    LET v == job[j].opt.version
    IN  /\ At(j, "update", "probe")
        /\ \/ /\ bin # Torn /\ bin' = Torn
              /\ Disturb(j, job[j])
           \/ /\ bin = Torn /\ bin' = v
              /\ Disturb(j, Ended(job[j], IF v \in Mispacked THEN "failed" ELSE "ok"))
        /\ UNCHANGED <<tree, marker, configured, arch, writes, found>>

(* installUpdateArchive(): the unpacked executable, asked for its version,   *)
(* names the release.                                                        *)
Reports(v) == v \notin Mispacked

(* swapBinarySafely(): the candidate beside the executable is verified, and  *)
(* renamed if it is the right one.                                           *)
UpdateSwap(j) ==
    LET v == job[j].opt.version
    IN  /\ At(j, "update", "probe")
        /\ \/ End(j, "failed") /\ UNCHANGED bin
           \/ /\ Reports(v) /\ bin' = v
              /\ Disturb(j, Ended(job[j], "ok"))
        /\ UNCHANGED <<tree, marker, configured, arch, writes, found>>

InstallStep(j) ==
    \/ InstallStart(j) \/ InstallFetch(j) \/ InstallMove(j) \/ InstallMark(j)
    \/ InstallFirewall(j) \/ InstallConfig(j)
    \/ UpdateStart(j) \/ UpdateFetch(j) \/ UpdateSwap(j)

-----------------------------------------------------------------------------
(* On a host that had none, the marker says that some installation moved all *)
(* it took from its archive, and an installation that reports success has    *)
(* done so and left the marker: no kill and no failure in between leaves one *)
(* without the other.  With nothing else writing, what an installation took, *)
(* forced or not, is of one package.  The files beside an archive's only     *)
(* directory are not taken, and the config may name a place without marker.  *)
MarkerMeansInstalled ==
    LET Moved(j) == job[j].kind = "install" /\ job[j].wrote = job[j].taken
    IN  /\ marker /\ ~found => \E j \in Jobs : Moved(j)
        /\ \A j \in Jobs : job[j].kind = "install" /\ job[j].out = "ok" => marker /\ Moved(j)
        /\ \A j \in Jobs : Moved(j) /\ job[j].quiet
                           => \A n \in job[j].taken : tree[n] = job[j].src

(* With nothing else writing, an update that succeeds leaves the release it  *)
(* announced, which is later than the one that ran; one that fails, is not   *)
(* needed or is killed leaves the executable as it was (update.ts:222).      *)
UpdateKeepsOrReplaces ==
    \A j \in Jobs : job[j].kind = "update" /\ job[j].quiet =>
        IF job[j].out = "ok" THEN bin = job[j].opt.version /\ IsNewer(bin, job[j].base)
                             ELSE bin = job[j].base
=============================================================================
