--------------------------- MODULE CodingPreview ---------------------------
(***************************************************************************)
(* PreviewManager, for one coding session: tools that open the preview's   *)
(* window and start or stop the session's development server, the user who *)
(* closes the window, and the handler its closing runs.  The entry of the  *)
(* session is created by whoever needs it first and removed by a close, so *)
(* that one session id has one entry after another; the window keeps the   *)
(* set of origins of the entry it was built under.                         *)
(***************************************************************************)
EXTENDS Naturals, FiniteSets

CONSTANTS PvStarts,    \* dev_server_start calls, one process each
          PvOpens,     \* web_preview_open calls
          PvClosers,   \* dev_server_stop calls, closes of the preview, close handlers
          Origins,     \* loopback origins
          MaxEntries,  \* bound: entries of the session, one after another
          NoProc

ASSUME PreviewAssumption == MaxEntries \in Nat \ {0} /\ NoProc \notin PvStarts /\ PvStarts \cap PvClosers = {}

VARIABLES entry, entries,         \* the entry of the session, 0 when none; entries so far
          allowed,                \* entry -> authorized_origins
          slot, ready,            \* the server of the entry
          proc,                   \* the processes
          hand,                   \* task -> the server it has taken and kills
          startPc, openPc, openAt, openEntry, closerPc,
          pvWindow, page,         \* the entry the window was built under, 0 when none; its page
          closeDue,               \* a close of the window whose handler has not run
          approved,               \* origins the user has approved (history)
          startsOverlapped              \* a start began before another had stored its server (history)

pvVars == <<entry, entries, allowed, slot, ready, proc, hand, startPc, openPc, openAt, openEntry, closerPc,
            pvWindow, page, closeDue, approved, startsOverlapped>>
entryVars == <<entry, entries, allowed>>
serverVars == <<slot, ready, proc, hand, startPc, startsOverlapped>>
windowVars == <<pvWindow, page, closeDue>>
openVars == <<openPc, openAt, openEntry, approved>>

NoPage == "none"
EntryIds == 1..MaxEntries

PreviewTypeOK ==
    /\ entry \in 0..MaxEntries /\ entries \in 0..MaxEntries /\ allowed \in [EntryIds -> SUBSET Origins]
    /\ slot \in PvStarts \cup {NoProc} /\ ready \in BOOLEAN /\ (entry = 0 => slot = NoProc)
    /\ proc \in [PvStarts -> {"none", "running", "left", "replaced", "exited"}]
    /\ hand \in [PvStarts \cup PvClosers -> PvStarts \cup {NoProc}]
    /\ startPc \in [PvStarts -> {"idle", "stopping", "spawn", "spawned", "polling", "giving_up", "serving", "over"}]
    /\ openPc \in [PvOpens -> {"idle", "gate", "open", "window", "build", "over", "panicked"}]
    /\ openAt \in [PvOpens -> Origins \cup {NoPage}] /\ openEntry \in [PvOpens -> 0..MaxEntries]
    /\ closerPc \in [PvClosers -> {"idle", "killing", "closing", "over"}]
    /\ pvWindow \in 0..MaxEntries /\ page \in Origins \cup {NoPage} /\ closeDue \in BOOLEAN
    /\ approved \subseteq Origins /\ startsOverlapped \in BOOLEAN

PreviewInit ==
    /\ entry = 0 /\ entries = 0 /\ allowed = [e \in EntryIds |-> {}]
    /\ slot = NoProc /\ ready = FALSE /\ proc = [t \in PvStarts |-> "none"]
    /\ hand = [t \in PvStarts \cup PvClosers |-> NoProc]
    /\ startPc = [t \in PvStarts |-> "idle"] /\ closerPc = [x \in PvClosers |-> "idle"]
    /\ openPc = [o \in PvOpens |-> "idle"] /\ openAt = [o \in PvOpens |-> NoPage]
    /\ openEntry = [o \in PvOpens |-> 0]
    /\ pvWindow = 0 /\ page = NoPage /\ closeDue = FALSE
    /\ approved = {} /\ startsOverlapped = FALSE

----------------------------------------------------------------------------
\* entry().or_insert_with(PreviewSession::new), and what it then authorizes.
Ensure(more) ==
    LET e == IF entry = 0 THEN entries + 1 ELSE entry
    IN  /\ e <= MaxEntries
        /\ entry' = e /\ entries' = IF entry = 0 THEN e ELSE entries
        /\ allowed' = [allowed EXCEPT ![e] = @ \cup more]

\* The server leaves the entry for the hands of a task.
Take(t) == hand' = [hand EXCEPT ![t] = slot] /\ slot' = NoProc /\ ready' = FALSE

\* A server runs as a shell and what the shell started, one process group.  While the
\* shell is there it is "running"; of a server whose shell ended by itself the rest may be
\* "left"; of one whose shell alone was killed, with its handle, the rest may go on as
\* "replaced".  (The shell may also have become the server, and then nothing is left.)

\* kill_process_tree: the whole group, up to three seconds, with no lock held.  (Of a
\* group whose shell ends at the SIGTERM, a process that ignores it escapes the SIGKILL
\* that only a surviving shell is sent; servers here do not ignore it.)
Kill(t) ==
    /\ proc' = [q \in PvStarts |-> IF q = hand[t] THEN "exited" ELSE proc[q]]
    /\ hand' = [hand EXCEPT ![t] = NoProc]

ProcessExits(t) ==
    /\ \/ proc[t] \in {"running", "left", "replaced"} /\ proc' = [proc EXCEPT ![t] = "exited"]
       \/ proc[t] = "running" /\ proc' = [proc EXCEPT ![t] = "left"]
    /\ UNCHANGED <<entryVars, slot, ready, hand, startPc, startsOverlapped, openVars, closerPc, windowVars>>

----------------------------------------------------------------------------
(* start_server: stop what is there, spawn, put it into the entry, poll.   *)

At(t, from, to) == startPc[t] = from /\ startPc' = [startPc EXCEPT ![t] = to]

\* Between its look at what is there and the store of its own server.
Starting == {"stopping", "spawn", "spawned"}

StartStops(t) ==
    /\ At(t, "idle", "stopping") /\ Take(t)
    /\ startsOverlapped' = (startsOverlapped \/ \E u \in PvStarts : startPc[u] \in Starting)
    /\ UNCHANGED <<entryVars, proc, openVars, closerPc, windowVars>>

StartKilled(t) ==
    /\ At(t, "stopping", "spawn") /\ Kill(t)
    /\ UNCHANGED <<entryVars, slot, ready, startsOverlapped, openVars, closerPc, windowVars>>

\* The shell may not start; its log buffer is the entry's.
SpawnServer(t) ==
    /\ \/ At(t, "spawn", "over") /\ UNCHANGED <<proc, entryVars>>
       \/ At(t, "spawn", "spawned") /\ proc' = [proc EXCEPT ![t] = "running"] /\ Ensure({})
    /\ UNCHANGED <<slot, ready, hand, startsOverlapped, openVars, closerPc, windowVars>>

\* A mutation: the handle of the old server does not kill its shell.
StoreServer_KeepsOld(t) ==
    /\ At(t, "spawned", "polling") /\ Ensure({})
    /\ slot' = t /\ ready' = FALSE
    /\ UNCHANGED <<proc, hand, startsOverlapped, openVars, closerPc, windowVars>>

\* The handle of a server that was put there meanwhile is dropped, which kills its shell
\* (kill_on_drop) and not its group.
StoreServer(t) ==
    /\ At(t, "spawned", "polling") /\ Ensure({})
    /\ slot' = t /\ ready' = FALSE
    /\ \E fate \in {"exited", "replaced"} :
          proc' = [q \in PvStarts |-> IF q = slot /\ proc[q] = "running" THEN fate ELSE proc[q]]
    /\ UNCHANGED <<hand, startsOverlapped, openVars, closerPc, windowVars>>

\* Something answers at the URL: the server in the entry, whichever it is by
\* now, counts as ready, and a monitor watches it.
ProbeAnswered(t) ==
    /\ At(t, "polling", "serving")
    /\ ready' = (slot # NoProc)
    /\ UNCHANGED <<entryVars, slot, proc, hand, startsOverlapped, openVars, closerPc, windowVars>>

\* The server in the entry has exited, or the deadline has passed: the server
\* in the entry is stopped and the call fails.
GiveUp(t) ==
    /\ At(t, "polling", "giving_up") /\ Take(t)
    /\ UNCHANGED <<entryVars, proc, startsOverlapped, openVars, closerPc, windowVars>>

GivenUp(t) ==
    /\ At(t, "giving_up", "over") /\ Kill(t)
    /\ UNCHANGED <<entryVars, slot, ready, startsOverlapped, openVars, closerPc, windowVars>>

\* The monitor of a start: it ends with the entry or its server's shell.
MonitorEnds(t) ==
    /\ At(t, "serving", "over")
    /\ slot # NoProc => proc[slot] # "running"
    /\ slot' = NoProc /\ ready' = FALSE
    /\ UNCHANGED <<entryVars, proc, hand, startsOverlapped, openVars, closerPc, windowVars>>

----------------------------------------------------------------------------
(* web_preview_open: the gate of the tool loop, then open.                 *)

IsAllowed(o) == entry # 0 /\ openAt'[o] \in allowed[entry]

AskOrigin(o) ==
    /\ openPc[o] = "idle"
    /\ \E a \in Origins : openAt' = [openAt EXCEPT ![o] = a]
    /\ openPc' = [openPc EXCEPT ![o] = IF IsAllowed(o) THEN "open" ELSE "gate"]
    /\ UNCHANGED <<entryVars, serverVars, openEntry, approved, closerPc, windowVars>>

Authorize(o) ==
    /\ openPc[o] = "gate" /\ openPc' = [openPc EXCEPT ![o] = "open"]
    /\ approved' = approved \cup {openAt[o]} /\ Ensure({openAt[o]})
    /\ UNCHANGED <<serverVars, openAt, openEntry, closerPc, windowVars>>

OriginDenied(o) ==
    /\ openPc[o] = "gate" /\ openPc' = [openPc EXCEPT ![o] = "over"]
    /\ UNCHANGED <<entryVars, serverVars, openAt, openEntry, approved, closerPc, windowVars>>

\* A close since the gate leaves an entry, perhaps a new one, without the origin.
OpenLooks(o) ==
    /\ openPc[o] = "open" /\ Ensure({})
    /\ openPc' = [openPc EXCEPT ![o] = IF openAt[o] \in allowed'[entry'] THEN "window" ELSE "over"]
    /\ UNCHANGED <<serverVars, openAt, openEntry, approved, closerPc, windowVars>>

\* The hook of the window decides where it may go, by the set it was built with.
Visit(w, a) == IF a \in allowed[w] THEN a ELSE page

\* Without a window the entry is looked up again: a close in between leaves
\* nothing to unwrap, and the task of the turn panics.
OpenFinds(o) ==
    /\ openPc[o] = "window"
    /\ openPc' = [openPc EXCEPT ![o] = IF pvWindow # 0 THEN "over" ELSE IF entry = 0 THEN "panicked" ELSE "build"]
    /\ openEntry' = [openEntry EXCEPT ![o] = IF pvWindow = 0 THEN entry ELSE 0]
    /\ page' = IF pvWindow # 0 THEN Visit(pvWindow, openAt[o]) ELSE page
    /\ UNCHANGED <<entryVars, serverVars, openAt, approved, closerPc, pvWindow, closeDue>>

\* One window has the label: a second build is refused.
OpenBuilds(o) ==
    /\ openPc[o] = "build" /\ openPc' = [openPc EXCEPT ![o] = "over"]
    /\ IF pvWindow = 0
         THEN pvWindow' = openEntry[o] /\ page' = Visit(openEntry[o], openAt[o])
         ELSE UNCHANGED <<pvWindow, page>>
    /\ UNCHANGED <<entryVars, serverVars, openAt, openEntry, approved, closerPc, closeDue>>

\* A click, a key or a script of the page.
PageNavigates ==
    /\ pvWindow # 0 /\ \E a \in Origins : page' = Visit(pvWindow, a)
    /\ UNCHANGED <<entryVars, serverVars, openVars, closerPc, pvWindow, closeDue>>

----------------------------------------------------------------------------
(* Stops and closes.                                                       *)

StopServer(x) ==
    /\ closerPc[x] = "idle" /\ closerPc' = [closerPc EXCEPT ![x] = "killing"]
    /\ Take(x)
    /\ UNCHANGED <<entryVars, proc, startPc, startsOverlapped, openVars, windowVars>>

StopKilled(x) ==
    /\ closerPc[x] = "killing" /\ closerPc' = [closerPc EXCEPT ![x] = "over"]
    /\ Kill(x)
    /\ UNCHANGED <<entryVars, slot, ready, startPc, startsOverlapped, openVars, windowVars>>

\* A mutation: the server stays behind when the entry goes.
CloseSession_KeepsServer(x) ==
    /\ closerPc[x] = "idle" /\ closerPc' = [closerPc EXCEPT ![x] = "closing"]
    /\ entry' = 0
    /\ UNCHANGED <<entries, allowed, serverVars, openVars, windowVars>>

\* close_session: the entry goes first, then its server, then the window.
CloseSession(x) ==
    /\ closerPc[x] = "idle" /\ closerPc' = [closerPc EXCEPT ![x] = "closing"]
    /\ Take(x) /\ entry' = 0
    /\ UNCHANGED <<entries, allowed, proc, startPc, startsOverlapped, openVars, windowVars>>

\* A window that is told to close runs the handler of its closing as well.
CloseKilled(x) ==
    /\ closerPc[x] = "closing" /\ closerPc' = [closerPc EXCEPT ![x] = "over"]
    /\ Kill(x)
    /\ pvWindow' = 0 /\ page' = NoPage /\ closeDue' = (closeDue \/ pvWindow # 0)
    /\ UNCHANGED <<entryVars, slot, ready, startPc, startsOverlapped, openVars>>

UserCloses ==
    /\ pvWindow # 0 /\ pvWindow' = 0 /\ page' = NoPage /\ closeDue' = TRUE
    /\ UNCHANGED <<entryVars, serverVars, openVars, closerPc>>

\* The handler closes the entry that has the window's label by then, if any.
WindowHandler(x) ==
    /\ closeDue /\ closeDue' = FALSE
    /\ closerPc[x] = "idle" /\ closerPc' = [closerPc EXCEPT ![x] = "killing"]
    /\ Take(x) /\ entry' = 0
    /\ UNCHANGED <<entries, allowed, proc, startPc, startsOverlapped, openVars, pvWindow, page>>

PreviewNext ==
    \/ \E t \in PvStarts :
          \/ ProcessExits(t) \/ StartStops(t) \/ StartKilled(t) \/ SpawnServer(t) \/ StoreServer(t)
          \/ ProbeAnswered(t) \/ GiveUp(t) \/ GivenUp(t) \/ MonitorEnds(t)
    \/ \E o \in PvOpens :
          AskOrigin(o) \/ Authorize(o) \/ OriginDenied(o) \/ OpenLooks(o) \/ OpenFinds(o) \/ OpenBuilds(o)
    \/ \E x \in PvClosers :
          StopServer(x) \/ StopKilled(x) \/ CloseSession(x) \/ CloseKilled(x) \/ WindowHandler(x)
    \/ PageNavigates \/ UserCloses

PreviewSpec == PreviewInit /\ [][PreviewNext]_pvVars

----------------------------------------------------------------------------
\* No development server outlives its owner: one whose shell runs is the server of
\* the session's entry, about to become it, or in the hands of a task that kills its
\* group, whatever starts, stops, closes and handlers overlap; and one start after
\* another leaves nothing of the server before.  (Two starts that overlap may, since
\* the handle of the replaced server kills the shell only, and so may a server whose
\* shell ends before it does.)
ServersOwned ==
    \A t \in PvStarts :
        /\ proc[t] = "running" =>
              \/ slot = t \/ startPc[t] = "spawned"
              \/ \E x \in PvStarts \cup PvClosers : hand[x] = t
        /\ proc[t] = "replaced" => startsOverlapped

\* The window shows only origins the user has approved (preview.rs:2), also
\* when it outlives the entry it was built under.
PageApproved == page # NoPage => page \in approved
=============================================================================
