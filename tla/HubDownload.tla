---------------------------- MODULE HubDownload ----------------------------
(***************************************************************************)
(* HubState: downloads of one GGUF variant, shard after shard, into files  *)
(* that every download of the variant shares: X.part while it is written,  *)
(* then X, and at the end the variant's manifest.  Each download is a task *)
(* of its own that a cancel stops at its next look at the flag.  A file is *)
(* an inode, known by the download that created it, and the two names are  *)
(* links to inodes: a task goes on writing its inode wherever the name     *)
(* points by then.  The repository moves to new revisions meanwhile.       *)
(***************************************************************************)
EXTENDS Naturals, Sequences, FiniteSets

CONSTANTS HubDownloads,   \* download tasks, all of one variant
          NoDownload,
          HubRevisions,   \* bound: revisions of the repository, 1 first
          Siblings,       \* files of the repository: [base, shard, kind]
          HubVariant,     \* the base name the downloads ask for
          ShardSizes,     \* sizes a shard may be listed with, in chunks; 0: not known
          MaxChunks,      \* bound: chunks of a shard whose size is not known
          HubCrashes      \* bound: exits of the application

ASSUME HubAssumption ==
    /\ NoDownload \notin HubDownloads /\ HubRevisions \in Nat \ {0}
    /\ MaxChunks \in Nat /\ HubCrashes \in Nat
    /\ ShardSizes \subseteq Nat /\ IsFiniteSet(Siblings)

VARIABLES hubSize,               \* revision -> shard -> size
          repoRev, detail,       \* the revision of the repository; of the cached detail
          dlPc, dlRev, dlStatus, dlShard, dlCreated,
          written,               \* the length of each inode
          part, target,          \* what the two names of a shard link to
          manifest, cancelled, cancelPc,
          shared,                \* two downloads were under way at once (history)
          hubCrashes

hubVars == <<hubSize, repoRev, detail, dlPc, dlRev, dlStatus, dlShard, dlCreated, written,
             part, target, manifest, cancelled, cancelPc, shared, hubCrashes>>
taskVars == <<dlPc, dlRev, dlStatus, dlShard, dlCreated>>
repoVars == <<hubSize, repoRev, detail>>

\* group_variants: the GGUF files of one base name in the order of their paths;
\* projectors are companions of every variant, and belong to none.
VariantShards == {s.shard : s \in {f \in Siblings : f.kind = "gguf" /\ f.base = HubVariant}}
Shards == 1..Cardinality(VariantShards)

Revisions == 1..HubRevisions
Links == HubDownloads \cup {NoDownload}
Ended == {"idle", "over"}

HubTypeOK ==
    /\ hubSize \in [Revisions -> [Shards -> ShardSizes]]
    /\ repoRev \in Revisions /\ detail \in Revisions \cup {0} /\ manifest \in Revisions \cup {0}
    /\ dlPc \in [HubDownloads -> {"idle", "queued", "next", "stream", "manifest", "cancelled", "error",
                                  "over"}]
    /\ dlRev \in [HubDownloads -> Revisions \cup {0}] /\ dlShard \in [HubDownloads -> 0..Cardinality(Shards) + 1]
    /\ dlStatus \in [HubDownloads -> {"none", "queued", "downloading", "canceling", "cancelled", "error", "complete"}]
    /\ cancelled \subseteq HubDownloads
    /\ dlCreated \in [HubDownloads -> SUBSET Shards]
    /\ \A d \in HubDownloads : \A s \in Shards : written[d][s] \in Nat
    /\ part \in [Shards -> Links] /\ target \in [Shards -> Links]
    /\ cancelPc \in [HubDownloads -> {"idle", "stored", "done"}]
    /\ shared \in BOOLEAN /\ hubCrashes \in 0..HubCrashes

HubInit ==
    /\ hubSize \in [Revisions -> [Shards -> ShardSizes]]
    /\ repoRev = 1 /\ detail = 0 /\ manifest = 0
    /\ dlPc = [d \in HubDownloads |-> "idle"] /\ dlRev = [d \in HubDownloads |-> 0]
    /\ dlStatus = [d \in HubDownloads |-> "none"] /\ dlShard = [d \in HubDownloads |-> 0]
    /\ dlCreated = [d \in HubDownloads |-> {}]
    /\ written = [d \in HubDownloads |-> [s \in Shards |-> 0]]
    /\ part = [s \in Shards |-> NoDownload] /\ target = [s \in Shards |-> NoDownload]
    /\ cancelled = {} /\ cancelPc = [d \in HubDownloads |-> "idle"]
    /\ shared = FALSE /\ hubCrashes = 0

----------------------------------------------------------------------------
(* The repository.                                                         *)

RepoMoves ==
    /\ repoRev < HubRevisions /\ repoRev' = repoRev + 1
    /\ UNCHANGED <<hubSize, detail, taskVars, written, part, target, manifest, cancelled, cancelPc, shared, hubCrashes>>

----------------------------------------------------------------------------
(* A download.                                                             *)

\* The revision the user saw must be that of the detail, which comes from the
\* cache, or from the repository when the cached one is older than its limit.
StartDownload(d) ==
    /\ dlPc[d] = "idle"
    /\ detail' \in {repoRev, detail} \ {0}
    /\ dlPc' = [dlPc EXCEPT ![d] = "queued"] /\ dlRev' = [dlRev EXCEPT ![d] = detail']
    /\ dlStatus' = [dlStatus EXCEPT ![d] = "queued"]
    /\ shared' = (shared \/ \E e \in HubDownloads \ {d} : dlPc[e] \notin Ended)
    /\ UNCHANGED <<hubSize, repoRev, dlShard, dlCreated, written, part, target, manifest, cancelled, cancelPc, hubCrashes>>

BeginDownload(d) ==
    /\ dlPc[d] = "queued" /\ dlPc' = [dlPc EXCEPT ![d] = "next"]
    /\ dlShard' = [dlShard EXCEPT ![d] = 1]
    /\ dlStatus' = [dlStatus EXCEPT ![d] = "downloading"]
    /\ UNCHANGED <<repoVars, dlRev, dlCreated, written, part, target, manifest, cancelled, cancelPc, shared,
                   hubCrashes>>

Size(d) == hubSize[dlRev[d]][dlShard[d]]
FileLength(s) == written[target[s]][s]
Goes(d, pc) == dlPc' = [dlPc EXCEPT ![d] = pc]

\* The flag is seen: the .part goes when one is being written, and every
\* file this download has created, whatever these names link to by now.
Cancelled(d) ==
    /\ d \in cancelled /\ dlPc[d] \in {"next", "stream"} /\ Goes(d, "cancelled")
    /\ part' = IF dlPc[d] = "stream" THEN [part EXCEPT ![dlShard[d]] = NoDownload] ELSE part
    /\ target' = [s \in Shards |-> IF s \in dlCreated[d] THEN NoDownload ELSE target[s]]
    /\ UNCHANGED <<repoVars, dlRev, dlStatus, dlShard, dlCreated, written, manifest, cancelled, cancelPc,
                   shared, hubCrashes>>

\* A file of the right length is taken for the shard.
SkipShard(d) ==
    /\ dlPc[d] = "next" /\ d \notin cancelled /\ dlShard[d] \in Shards
    /\ target[dlShard[d]] # NoDownload /\ FileLength(dlShard[d]) = Size(d)
    /\ dlShard' = [dlShard EXCEPT ![d] = @ + 1]
    /\ UNCHANGED <<repoVars, dlPc, dlRev, dlStatus, dlCreated, written, part, target, manifest, cancelled,
                   cancelPc, shared, hubCrashes>>

\* A file of another length, or any refused call.
DownloadFails(d) ==
    /\ d \notin cancelled
    /\ dlPc[d] \in {"next", "stream"}
    /\ dlPc[d] = "next" /\ dlShard[d] \in Shards /\ target[dlShard[d]] # NoDownload
          => FileLength(dlShard[d]) # Size(d)
    /\ Goes(d, "error")
    /\ UNCHANGED <<repoVars, dlRev, dlStatus, dlShard, dlCreated, written, part, target, manifest, cancelled,
                   cancelPc, shared, hubCrashes>>

CreatePart(d) ==
    /\ dlPc[d] = "next" /\ d \notin cancelled /\ dlShard[d] \in Shards /\ target[dlShard[d]] = NoDownload
    /\ Goes(d, "stream")
    /\ part' = [part EXCEPT ![dlShard[d]] = d]
    /\ UNCHANGED <<repoVars, dlRev, dlStatus, dlShard, dlCreated, written, target, manifest, cancelled,
                   cancelPc, shared, hubCrashes>>

WriteChunk(d) ==
    /\ dlPc[d] = "stream" /\ d \notin cancelled
    /\ written[d][dlShard[d]] < IF Size(d) = 0 THEN MaxChunks ELSE Size(d)
    /\ written' = [written EXCEPT ![d][dlShard[d]] = @ + 1]
    /\ UNCHANGED <<repoVars, taskVars, part, target, manifest, cancelled, cancelPc, shared, hubCrashes>>

\* The rename moves whatever the .part name links to.
RenamePart(d) ==
    LET s == dlShard[d]
    IN  /\ target' = [target EXCEPT ![s] = part[s]] /\ part' = [part EXCEPT ![s] = NoDownload]
        /\ dlCreated' = [dlCreated EXCEPT ![d] = @ \cup {s}]
        /\ dlShard' = [dlShard EXCEPT ![d] = s + 1]
        /\ Goes(d, "next")

\* A mutation: the size is not checked.
StreamEnds_AnySize(d) ==
    /\ dlPc[d] = "stream" /\ d \notin cancelled /\ part[dlShard[d]] # NoDownload
    /\ RenamePart(d)
    /\ UNCHANGED <<repoVars, dlRev, dlStatus, written, manifest, cancelled, cancelPc, shared, hubCrashes>>

\* The stream may end early: its length is checked against the size, if that is known.
StreamEnds(d) ==
    /\ dlPc[d] = "stream" /\ d \notin cancelled /\ part[dlShard[d]] # NoDownload
    /\ Size(d) # 0 => written[d][dlShard[d]] = Size(d)
    /\ RenamePart(d)
    /\ UNCHANGED <<repoVars, dlRev, dlStatus, written, manifest, cancelled, cancelPc, shared, hubCrashes>>

WriteManifest(d) ==
    /\ dlPc[d] = "next" /\ d \notin cancelled /\ dlShard[d] \notin Shards
    /\ Goes(d, "manifest") /\ manifest' = dlRev[d]
    /\ UNCHANGED <<repoVars, dlRev, dlStatus, dlShard, dlCreated, written, part, target, cancelled, cancelPc,
                   shared, hubCrashes>>

\* How the download ended, once its body has returned; with that its flag is
\* out of reach of a cancel.
Outcome(d) ==
    /\ \/ dlPc[d] = "manifest" /\ dlStatus' = [dlStatus EXCEPT ![d] = "complete"]
       \/ dlPc[d] = "cancelled" /\ dlStatus' = [dlStatus EXCEPT ![d] = "cancelled"]
       \/ dlPc[d] = "error" /\ dlStatus' = [dlStatus EXCEPT ![d] = "error"]
    /\ Goes(d, "over")
    /\ UNCHANGED <<repoVars, dlRev, dlShard, dlCreated, written, part, target, manifest, cancelled, cancelPc,
                   shared, hubCrashes>>

----------------------------------------------------------------------------
(* cancel_download: looks at the status, sets the flag, shows "canceling". *)

CancelDownload(d) ==
    /\ cancelPc[d] = "idle" /\ dlStatus[d] \in {"queued", "downloading"}
    /\ cancelPc' = [cancelPc EXCEPT ![d] = "stored"] /\ cancelled' = cancelled \cup {d}
    /\ UNCHANGED <<repoVars, taskVars, written, part, target, manifest, shared, hubCrashes>>

ShowCanceling(d) ==
    /\ cancelPc[d] = "stored" /\ cancelPc' = [cancelPc EXCEPT ![d] = "done"]
    /\ dlStatus' = [dlStatus EXCEPT ![d] = "canceling"]
    /\ UNCHANGED <<repoVars, dlPc, dlRev, dlShard, dlCreated, written, part, target, manifest, cancelled,
                   shared, hubCrashes>>

\* The application exits: its downloads are gone, the files are not.
HubExit ==
    /\ hubCrashes < HubCrashes /\ hubCrashes' = hubCrashes + 1
    /\ dlPc' = [d \in HubDownloads |-> IF dlPc[d] = "idle" THEN "idle" ELSE "over"]
    /\ dlStatus' = [d \in HubDownloads |-> "none"]
    /\ dlCreated' = [d \in HubDownloads |-> {}]
    /\ detail' = 0 /\ cancelPc' = [d \in HubDownloads |-> IF cancelPc[d] = "idle" THEN "idle" ELSE "done"]
    /\ UNCHANGED <<hubSize, repoRev, dlRev, dlShard, written, part, target, manifest, cancelled, shared>>

HubNext ==
    \/ RepoMoves \/ HubExit
    \/ \E d \in HubDownloads :
          \/ StartDownload(d) \/ BeginDownload(d) \/ Cancelled(d) \/ SkipShard(d) \/ DownloadFails(d) \/ CreatePart(d)
          \/ WriteChunk(d) \/ StreamEnds(d) \/ WriteManifest(d) \/ Outcome(d)
          \/ CancelDownload(d) \/ ShowCanceling(d)

HubSpec == HubInit /\ [][HubNext]_hubVars

----------------------------------------------------------------------------
\* A manifest stands for whole files: whatever was cancelled, failed or cut
\* off before, every shard of a variant with a manifest is there, and in full
\* where the repository gave its size; a shard of unknown size is taken at any
\* length (hub.rs:436).  Two downloads under way at once escape: one renames
\* what the other is still writing (hub.rs:439), or a cancel of one removes it
\* (hub.rs:481).
ManifestWhole ==
    manifest # 0 /\ ~shared =>
        \A s \in Shards :
            /\ target[s] # NoDownload
            /\ hubSize[dlRev[target[s]]][s] \in {0, FileLength(s)}

\* A download that shows as cancelled has left neither a .part nor any of the
\* files it created, whenever the flag was set (hub.rs:418, hub.rs:443).
CancelLeavesNothing ==
    ~shared => \A d \in HubDownloads : dlStatus[d] = "cancelled" =>
        \A s \in Shards : part[s] # d /\ target[s] # d
=============================================================================
