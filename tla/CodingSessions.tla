---------------------------- MODULE CodingSessions ----------------------------
(***************************************************************************)
(* The file of one desktop coding session, its mirror in the cloud, and    *)
(* the tasks that change them: local turns, compactions, changes of the    *)
(* approval mode, the transcript written back after a web turn, the        *)
(* backfill at startup and the deletion.  Every section under chat_lock is *)
(* one step; between its sections a task keeps a copy of the session.      *)
(* Messages are numbered as they are created, so that a transcript, which  *)
(* is kept in that order on either side, is a set of numbers.              *)
(***************************************************************************)
EXTENDS Naturals, FiniteSets

CONSTANTS Sends, Compactions, PolicyEdits, WebTurns, Backfills, Deletions,   \* the tasks
          Recent,            \* RECENT_CONTEXT_MESSAGES
          NoSession,         \* no file, no mirror, no copy
          SyncFaults         \* bound: calls to the cloud that fail

Editors == Sends \cup Compactions \cup PolicyEdits \cup WebTurns \cup Backfills \cup Deletions
MaxMsgs == 2 * Cardinality(Sends) + 2 * Cardinality(WebTurns)

\* A task performs one operation, and is counted once.
ASSUME SessionsAssumption ==
    /\ Recent \in Nat \ {0} /\ SyncFaults \in Nat
    /\ IsFiniteSet(Sends) /\ IsFiniteSet(WebTurns)
    /\ Sends \cap (Compactions \cup PolicyEdits \cup WebTurns \cup Backfills \cup Deletions) = {}
    /\ WebTurns \cap (Compactions \cup PolicyEdits \cup Backfills \cup Deletions) = {}
    /\ Compactions \cap (PolicyEdits \cup Backfills \cup Deletions) = {}

VARIABLES file, mirror, syncPc, copy, stamp, syncFaults

sessionVars == <<file, mirror, syncPc, copy, stamp, syncFaults>>

\* through is summarized_through_message_id, 0 before the first checkpoint; mcp stands
\* for the settings that are kept on this machine only.
Session == [msgs : SUBSET (1..MaxMsgs), policy : {"plan", "auto"}, mcp : BOOLEAN,
            through : 0..MaxMsgs, remote : BOOLEAN]
Mirror == [msgs : SUBSET (1..MaxMsgs), policy : {"plan", "auto"}]

SessionsTypeOK ==
    /\ file \in Session \cup {NoSession} /\ mirror \in Mirror \cup {NoSession}
    /\ syncPc \in [Editors -> {"idle", "turn", "summary", "push", "remote", "unmirror", "rows", "ended"}]
    /\ copy \in [Editors -> Session \cup Mirror \cup {NoSession}]
    /\ stamp \in 0..MaxMsgs /\ syncFaults \in 0..SyncFaults

\* coding_local_create_session has saved the empty session; its push may have failed.
\* Of the tasks, those in T will run.
SessionsStart(T) ==
    /\ \E synced \in BOOLEAN :
          /\ file = [msgs |-> {}, policy |-> "plan", mcp |-> FALSE, through |-> 0, remote |-> synced]
          /\ mirror = IF synced THEN [msgs |-> {}, policy |-> "plan"] ELSE NoSession
    /\ syncPc = [t \in Editors |-> IF t \in T THEN "idle" ELSE "ended"]
    /\ copy = [t \in Editors |-> NoSession]
    /\ stamp = 0 /\ syncFaults = 0
SessionsInit == \E T \in SUBSET Editors : SessionsStart(T)

SyncAt(t, at) == syncPc' = [syncPc EXCEPT ![t] = at]
Keeps(t, session) == copy' = [copy EXCEPT ![t] = session]
SyncEnd(t) == SyncAt(t, "ended") /\ Keeps(t, NoSession)

\* The load of a session that is gone is the end of the command.
Gone(t) ==
    /\ syncPc[t] = "idle" /\ file = NoSession /\ SyncEnd(t)
    /\ UNCHANGED <<file, mirror, stamp, syncFaults>>

-----------------------------------------------------------------------------
(* send: the user's message first, the answer when the turn is over.       *)

SendSave(t) ==
    /\ t \in Sends /\ syncPc[t] = "idle" /\ file # NoSession
    /\ stamp' = stamp + 1
    /\ file' = [file EXCEPT !.msgs = @ \cup {stamp'}]
    /\ Keeps(t, file') /\ SyncAt(t, "turn")
    /\ UNCHANGED <<mirror, syncFaults>>

\* No model, no workspace, a full context, an error of the turn.
SendFails(t) ==
    /\ t \in Sends /\ syncPc[t] = "turn" /\ SyncEnd(t)
    /\ UNCHANGED <<file, mirror, stamp, syncFaults>>

Answered(session) == [session EXCEPT !.msgs = @ \cup {stamp + 1}]

\* Mutant: the answer is added to the session as it was when the turn began.
SendStore_Stale(t) ==
    /\ t \in Sends /\ syncPc[t] = "turn"
    /\ stamp' = stamp + 1 /\ file' = Answered(copy[t])
    /\ Keeps(t, file') /\ SyncAt(t, "push")
    /\ UNCHANGED <<mirror, syncFaults>>

\* The session as it is now, or the turn's copy when there is none any more.
SendStore(t) ==
    /\ t \in Sends /\ syncPc[t] = "turn"
    /\ stamp' = stamp + 1
    /\ file' = Answered(IF file # NoSession THEN file ELSE copy[t])
    /\ Keeps(t, file') /\ SyncAt(t, "push")
    /\ UNCHANGED <<mirror, syncFaults>>

-----------------------------------------------------------------------------
(* push_to_cloud, of a task's copy.                                        *)

\* coding-sync: rows are upserted by message id, the rest is overwritten.
PushOk(t) ==
    /\ syncPc[t] = "push"
    /\ mirror' = [msgs |-> copy[t].msgs \cup (IF mirror = NoSession THEN {} ELSE mirror.msgs),
                  policy |-> copy[t].policy]
    /\ IF copy[t].remote THEN SyncEnd(t) ELSE SyncAt(t, "remote") /\ UNCHANGED copy
    /\ UNCHANGED <<file, stamp, syncFaults>>

PushFails(t) ==
    /\ syncPc[t] = "push" /\ syncFaults < SyncFaults /\ syncFaults' = syncFaults + 1
    /\ SyncEnd(t)
    /\ UNCHANGED <<file, mirror, stamp>>

\* The ids of a first push, into the session as it is now.
StoreRemote(t) ==
    /\ syncPc[t] = "remote"
    /\ file' = IF file = NoSession THEN file ELSE [file EXCEPT !.remote = TRUE]
    /\ SyncEnd(t)
    /\ UNCHANGED <<mirror, stamp, syncFaults>>

BackfillLoad(t) ==
    /\ t \in Backfills /\ syncPc[t] = "idle" /\ file # NoSession
    /\ IF file.remote THEN SyncEnd(t) ELSE Keeps(t, file) /\ SyncAt(t, "push")
    /\ UNCHANGED <<file, mirror, stamp, syncFaults>>

SetPolicy(t, policy) ==
    /\ t \in PolicyEdits /\ syncPc[t] = "idle" /\ file # NoSession
    /\ file' = [file EXCEPT !.policy = policy]
    /\ Keeps(t, file') /\ SyncAt(t, "push")
    /\ UNCHANGED <<mirror, stamp, syncFaults>>

\* MCP tools on or off, the reasoning effort: saved, and never pushed.
SetLocal(t) ==
    /\ t \in PolicyEdits /\ syncPc[t] = "idle" /\ file # NoSession
    /\ file' = [file EXCEPT !.mcp = TRUE] /\ SyncEnd(t)
    /\ UNCHANGED <<mirror, stamp, syncFaults>>

-----------------------------------------------------------------------------
(* compact_internal.                                                       *)

\* All but the most recent messages; those of them the checkpoint does not end after.
Older(msgs) == {m \in msgs : Cardinality({n \in msgs : n > m}) >= Recent}
Unsummarized(session) ==
    {m \in Older(session.msgs) : session.through \in session.msgs => m > session.through}

\* Without chat_lock: save replaces the file in one rename.
CompactRead(t) ==
    /\ t \in Compactions /\ syncPc[t] = "idle" /\ file # NoSession
    /\ IF Unsummarized(file) = {} THEN SyncEnd(t) ELSE Keeps(t, file) /\ SyncAt(t, "summary")
    /\ UNCHANGED <<file, mirror, stamp, syncFaults>>

Checkpointed(session, read) ==
    [session EXCEPT !.through = CHOOSE m \in Older(read.msgs) : \A n \in Older(read.msgs) : n <= m]

\* Mutant: the model's answer is stored over whatever checkpoint is there by now.
CompactStore_Unchecked(t) ==
    /\ t \in Compactions /\ syncPc[t] = "summary" /\ file # NoSession
    /\ file' = Checkpointed(file, copy[t])
    /\ Keeps(t, file') /\ SyncAt(t, "push")
    /\ UNCHANGED <<mirror, stamp, syncFaults>>

CompactStore(t) ==
    /\ t \in Compactions /\ syncPc[t] = "summary"
    /\ file # NoSession /\ file.through = copy[t].through
    /\ file' = Checkpointed(file, copy[t])
    /\ Keeps(t, file') /\ SyncAt(t, "push")
    /\ UNCHANGED <<mirror, stamp, syncFaults>>

\* Changed meanwhile, deleted meanwhile, or no usable checkpoint in the model's answer.
CompactFails(t) ==
    /\ t \in Compactions /\ syncPc[t] = "summary" /\ SyncEnd(t)
    /\ UNCHANGED <<file, mirror, stamp, syncFaults>>

-----------------------------------------------------------------------------
(* A web turn on the mirror, and write_back_to_disk.                       *)

WebTurn(t) ==
    /\ t \in WebTurns /\ syncPc[t] = "idle" /\ mirror # NoSession
    /\ stamp' = stamp + 2
    /\ mirror' = [mirror EXCEPT !.msgs = @ \cup {stamp + 1, stamp + 2}]
    /\ SyncAt(t, "turn")
    /\ UNCHANGED <<file, copy, syncFaults>>

FetchRows(t) ==
    /\ t \in WebTurns /\ syncPc[t] = "turn"
    /\ IF mirror = NoSession THEN SyncEnd(t) ELSE Keeps(t, mirror) /\ SyncAt(t, "rows")
    /\ UNCHANGED <<file, mirror, stamp, syncFaults>>

WriteBack(t) ==
    /\ t \in WebTurns /\ syncPc[t] = "rows"
    /\ file' = IF file = NoSession THEN file ELSE [file EXCEPT !.msgs = copy[t].msgs]
    /\ SyncEnd(t)
    /\ UNCHANGED <<mirror, stamp, syncFaults>>

-----------------------------------------------------------------------------
(* coding_local_delete_session and delete_from_cloud.                      *)

DeleteFile(t) ==
    /\ t \in Deletions /\ syncPc[t] = "idle" /\ file # NoSession
    /\ file' = NoSession /\ SyncAt(t, "unmirror")
    /\ UNCHANGED <<mirror, copy, stamp, syncFaults>>

DeleteMirror(t) ==
    /\ t \in Deletions /\ syncPc[t] = "unmirror" /\ SyncEnd(t)
    /\ \/ mirror' = NoSession /\ UNCHANGED syncFaults
       \/ syncFaults < SyncFaults /\ syncFaults' = syncFaults + 1 /\ UNCHANGED mirror
    /\ UNCHANGED <<file, stamp>>

-----------------------------------------------------------------------------

Edit(t) ==
    \/ Gone(t) \/ SendSave(t) \/ SendFails(t) \/ SendStore(t)
    \/ PushOk(t) \/ PushFails(t) \/ StoreRemote(t) \/ BackfillLoad(t)
    \/ SetLocal(t) \/ \E policy \in {"plan", "auto"} : SetPolicy(t, policy)
    \/ CompactRead(t) \/ CompactStore(t) \/ CompactFails(t)
    \/ WebTurn(t) \/ FetchRows(t) \/ WriteBack(t)
    \/ DeleteFile(t) \/ DeleteMirror(t)

SessionsNext == \E t \in Editors : Edit(t)

SessionsSpec == SessionsInit /\ [][SessionsNext]_sessionVars

-----------------------------------------------------------------------------
(* Properties.                                                             *)

\* What is saved stays saved while the session is there, whatever tasks overlap: only a
\* change of the mode or of a setting changes it, and but for the write-back of a web
\* turn no task drops a message.
EditKept ==
    (file # NoSession /\ file' # NoSession) =>
        /\ file'.policy # file.policy => \E t \in PolicyEdits : syncPc[t] = "idle" /\ syncPc'[t] = "push"
        /\ file'.mcp # file.mcp => \E t \in PolicyEdits : syncPc[t] = "idle" /\ syncPc'[t] = "ended"
        /\ file.msgs \subseteq file'.msgs \/ \E t \in WebTurns : syncPc[t] = "rows" /\ syncPc'[t] = "ended"
EditsKept == [][EditKept]_sessionVars

\* The boundary of the checkpoint moves forward, whatever compactions overlap: it goes
\* back only when a compaction stores what it made of a transcript that had lost the
\* message the boundary stood at (compact_internal then starts from the first message).
BoundaryKept ==
    (file # NoSession /\ file' # NoSession) =>
        \/ file'.through >= file.through
        \/ \E t \in Compactions : /\ syncPc[t] = "summary" /\ syncPc'[t] = "push"
                                   /\ copy[t].through \notin copy[t].msgs \cup {0}
CompactionAdvances == [][BoundaryKept]_sessionVars

\* The claim of write_back_to_disk that a full replace of the transcript is safe.
ReplaceIsSafe ==
    [][(file # NoSession /\ file' # NoSession) => file.msgs \subseteq file'.msgs]_sessionVars
=============================================================================
