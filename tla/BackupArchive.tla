---------------------------- MODULE BackupArchive ----------------------------
(***************************************************************************)
(* Backup and restore (backupEngine.ts, backupCmd.ts and the maintenance   *)
(* handlers of the agent).  All backups write one archive, which all       *)
(* restores read; a read of one file counts as one step, so a file that    *)
(* changes under the reader is a file with another content.                *)
(***************************************************************************)
EXTENDS HostFiles

(* The process of the agent; a command has the process of its job.           *)
Agent == 0

(* The archive: its manifest, its entries, whether tar and gzip can be read  *)
(* to the end, and whether the manifest has at most 1 MiB; and as history    *)
(* whether its backup was disturbed, and which files of the include list the *)
(* installation held at its start.  A path stands for any number of files,   *)
(* so every manifest may be too large.                                       *)
Archive(man, data, whole, fits, quiet, base) ==
    [man |-> man, data |-> data, whole |-> whole, fits |-> fits, quiet |-> quiet, base |-> base]

(* inspectBackupArchive(): both ends readable, the manifest not too large,   *)
(* and manifest and entries agree in names, sizes and digests.               *)
Inspect(a) ==
    /\ a # None /\ a.whole /\ a.fits
    /\ DOMAIN a.data = DOMAIN a.man
    /\ \A n \in DOMAIN a.man : a.man[n] = [size |-> SizeOf(a.data[n]), sha |-> a.data[n]]

-----------------------------------------------------------------------------
(* createBackupArchive(): the files are listed, then sized and digested one  *)
(* by one, then copied one by one into a temporary tar, which is compressed  *)
(* and renamed.  The agent takes the default include list.  A file that is   *)
(* too large, cannot be read or has an impossible name, a full disk or a     *)
(* file that is gone ends the backup.                                        *)

BackupStart(j) ==
    /\ \E p \in {Agent, j}, list \in Lists :
           /\ p = Agent => list = Included
           /\ Start(j, "backup", p,
                    IF configured /\ Listed(list) # {}
                    THEN [From("hash", list) EXCEPT !.todo = Listed(list),
                                                    !.size = SizeOf(tree[FirstOf(Listed(list))])]
                    ELSE Refuse,
                    tree)
    /\ UNCHANGED <<files, writes, found>>

(* The backups of one process share the names of their temporary files, from *)
(* the manifest on.                                                          *)
Packing(j) == job[j].kind = "backup" /\ job[j].at \in {"tar", "pack"}
Beside(j) == {k \in Jobs \ {j} : Packing(k) /\ job[k].proc = job[j].proc}

(* The digest of one file, with the size taken before the await, and the     *)
(* size of the next one.                                                     *)
BackupHash(j) ==
    LET n    == FirstOf(job[j].todo)
        rest == job[j].todo \ {n}
        r    == [job[j] EXCEPT !.man = With(@, n, [size |-> job[j].size, sha |-> tree[n]])]
    IN  /\ At(j, "backup", "hash")
        /\ \/ End(j, "failed")
           \/ /\ tree[n] # Absent /\ rest # {} /\ tree[FirstOf(rest)] # Absent
              /\ job' = [job EXCEPT ![j] = [r EXCEPT !.todo = rest, !.size = SizeOf(tree[FirstOf(rest)])]]
           \/ /\ tree[n] # Absent /\ rest = {}
              /\ job' = [k \in Jobs |->
                           IF k = j THEN [r EXCEPT !.at = "tar", !.todo = DOMAIN r.man, !.mixed = Beside(j) # {}]
                           ELSE [job[k] EXCEPT !.mixed = @ \/ k \in Beside(j)]]
        /\ UNCHANGED <<files, writes, found>>

(* Mutant: the last entry is left out.                                       *)
BackupTarShort(j) ==
    LET n    == FirstOf(job[j].todo)
        rest == job[j].todo \ {n}
    IN  /\ At(j, "backup", "tar")
        /\ job' = [job EXCEPT ![j] = [@ EXCEPT !.data = With(@, n, tree[n]), !.todo = rest,
                                     !.at = IF Cardinality(rest) <= 1 THEN "pack" ELSE "tar"]]
        /\ UNCHANGED <<files, writes, found>>

(* One entry of the tar, with the size of the manifest in its header: one of *)
(* another length shifts all that follows, and the tar counts as unreadable. *)
BackupTar(j) ==
    LET n    == FirstOf(job[j].todo)
        rest == job[j].todo \ {n}
        r    == [job[j] EXCEPT !.data = With(@, n, tree[n]), !.todo = rest,
                               !.at = IF rest = {} THEN "pack" ELSE "tar"]
    IN  /\ At(j, "backup", "tar")
        /\ \/ End(j, "failed")
           \/ tree[n] # Absent /\ job' = [job EXCEPT ![j] = r]
        /\ UNCHANGED <<files, writes, found>>

Packed(j, fits) ==
    LET r == job[j]
    IN  Archive(r.man, r.data, \A n \in DOMAIN r.man : SizeOf(r.data[n]) = r.man[n].size, fits,
                r.quiet /\ ~r.mixed, [n \in r.opt |-> r.base[n]])

(* Mutant: the archive is compressed into its place.                         *)
BackupPackInPlace(j) ==
    /\ At(j, "backup", "pack")
    /\ \E fits \in BOOLEAN :
           \/ arch' = [Packed(j, fits) EXCEPT !.whole = FALSE] /\ UNCHANGED job
           \/ arch' = Packed(j, fits) /\ End(j, "ok")
    /\ UNCHANGED <<tree, marker, configured, bin, writes, found>>

(* The rename.  Of two backups with the same temporary names each may have   *)
(* overwritten or removed those of the other.  Nobody looks how large the    *)
(* manifest is.                                                              *)
BackupPack(j) ==
    /\ At(j, "backup", "pack")
    /\ \/ End(j, "failed") /\ UNCHANGED arch
       \/ \E fits \in BOOLEAN :
              /\ \/ arch' = Packed(j, fits)
                 \/ job[j].mixed /\ arch' = [Packed(j, fits) EXCEPT !.whole = FALSE]
              /\ End(j, "ok")
    /\ UNCHANGED <<tree, marker, configured, bin, writes, found>>

-----------------------------------------------------------------------------
(* restoreBackupArchive(): the archive is inspected, opened again and        *)
(* unpacked over the installation, file by file.  The command runs dry       *)
(* unless forced; a request to the agent may ask for neither.  A dry run     *)
(* fails when the target is missing or cannot be written.                    *)

RestoreStart(j) ==
    /\ \E p \in {Agent, j}, dry, force \in BOOLEAN :
           /\ p = j => dry = ~force
           /\ Start(j, "restore", p,
                    IF configured THEN From("inspect", [dry |-> dry, force |-> force])
                                  ELSE Refuse,
                    tree)
    /\ UNCHANGED <<files, writes, found>>

(* Mutant: a dry run goes on when it is forced.                              *)
RestoreInspectForced(j) ==
    /\ At(j, "restore", "inspect")
    /\ IF ~Inspect(arch) THEN End(j, "refused")
       ELSE IF ~job[j].opt.force THEN End(j, IF job[j].opt.dry THEN "ok" ELSE "refused")
       ELSE job' = [job EXCEPT ![j].at = "open", ![j].seen = arch]
    /\ UNCHANGED <<files, writes, found>>

RestoreInspect(j) ==
    /\ At(j, "restore", "inspect")
    /\ IF ~Inspect(arch) THEN End(j, "refused")
       ELSE IF job[j].opt.dry THEN End(j, "ok") \/ End(j, "refused")
       ELSE IF ~job[j].opt.force THEN End(j, "refused")
       ELSE job' = [job EXCEPT ![j].at = "open", ![j].seen = arch]
    /\ UNCHANGED <<files, writes, found>>

(* The second reading of the archive, which may be another one by then.      *)
RestoreOpen(j) ==
    /\ At(j, "restore", "open")
    /\ job' = [job EXCEPT ![j].at = "file", ![j].src = arch, ![j].todo = DOMAIN arch.data]
    /\ UNCHANGED <<files, writes, found>>

(* The next file is emptied, or it or the archive cannot be opened.          *)
RestoreFile(j) ==
    LET n == FirstOf(job[j].todo)
    IN  /\ At(j, "restore", "file")
        /\ \/ End(j, "failed") /\ UNCHANGED tree
           \/ /\ tree' = [tree EXCEPT ![n] = Torn]
              /\ Disturb(j, [job[j] EXCEPT !.at = "fill", !.wrote = @ \cup {n}])
        /\ UNCHANGED <<marker, configured, arch, bin, writes, found>>

(* Mutant: an error while a file is filled skips the file.                   *)
RestoreFillSkips(j) ==
    LET n    == FirstOf(job[j].todo)
        rest == job[j].todo \ {n}
        r    == [job[j] EXCEPT !.todo = rest, !.at = "file"]
    IN  /\ At(j, "restore", "fill")
        /\ \/ UNCHANGED tree /\ job' = [job EXCEPT ![j] = IF rest = {} THEN Ended(r, "ok") ELSE r]
           \/ /\ tree' = [tree EXCEPT ![n] = job[j].src.data[n]]
              /\ Disturb(j, [IF rest = {} THEN Ended(r, "ok") ELSE r EXCEPT !.listed = @ \cup {n}])
        /\ UNCHANGED <<marker, configured, arch, bin, writes, found>>

(* The file is filled and reported, or the write or the archive fails in the *)
(* middle.  An entry of another length than its header says fills the file   *)
(* with something else, and the archive cannot be read to its end.           *)
RestoreFill(j) ==
    LET n     == FirstOf(job[j].todo)
        rest  == job[j].todo \ {n}
        whole == job[j].src.whole
        r     == [job[j] EXCEPT !.listed = @ \cup {n}, !.todo = rest, !.at = "file"]
    IN  /\ At(j, "restore", "fill")
        /\ \/ End(j, "failed") /\ UNCHANGED tree
           \/ /\ \E c \in {job[j].src.data[n]} \cup (IF whole THEN {} ELSE {Torn}) :
                     tree' = [tree EXCEPT ![n] = c]
              /\ Disturb(j, IF rest # {} THEN r ELSE Ended(r, IF whole THEN "ok" ELSE "failed"))
        /\ UNCHANGED <<marker, configured, arch, bin, writes, found>>

BackupStep(j) ==
    \/ BackupStart(j) \/ BackupHash(j) \/ BackupTar(j) \/ BackupPack(j)
    \/ RestoreStart(j) \/ RestoreInspect(j) \/ RestoreOpen(j) \/ RestoreFile(j) \/ RestoreFill(j)

-----------------------------------------------------------------------------
(* An archive that was written while nobody changed a file and no other      *)
(* backup used its temporary names holds what the installation held of the   *)
(* files of the include list, and passes inspection if its manifest has at   *)
(* most 1 MiB - from the moment it is in its place, whatever process is      *)
(* killed where.  One with a larger manifest was reported as a success too   *)
(* and holds the same, but no restore accepts it (backupEngine.ts:420).      *)
QuietBackupSound ==
    arch # None /\ arch.quiet =>
        /\ Inspect(arch) <=> arch.fits
        /\ DOMAIN arch.data = {n \in DOMAIN arch.base : arch.base[n] # Absent}
        /\ \A n \in DOMAIN arch.data : arch.data[n] = arch.base[n]

(* A restore that reports success, and reads the archive it has inspected,   *)
(* leaves the files of the archive over those that were there, as long as    *)
(* nobody else changes one.                                                  *)
RestoreExact ==
    \A j \in Jobs :
        /\ job[j].kind = "restore" /\ job[j].out = "ok" /\ ~job[j].opt.dry
        /\ job[j].quiet /\ job[j].src = job[j].seen
        => \A n \in Names : tree[n] = IF n \in DOMAIN job[j].src.man THEN job[j].src.man[n].sha
                                      ELSE job[j].base[n]

(* What a restore reports is what it did: a refused or dry one has changed   *)
(* nothing, a successful one exactly what it lists, and a failed one at most *)
(* one file more, the one it failed in.                                      *)
RestoreAccounts ==
    \A j \in Jobs : job[j].kind = "restore" /\ job[j].at = "done" =>
        LET more == job[j].wrote \ job[j].listed
        IN  /\ job[j].listed \subseteq job[j].wrote
            /\ job[j].out = "refused" \/ job[j].opt.dry => job[j].wrote = {}
            /\ job[j].out = "ok" => more = {}
            /\ Cardinality(more) <= 1
=============================================================================
