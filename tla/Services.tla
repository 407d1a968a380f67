------------------------------ MODULE Services ------------------------------
(***************************************************************************)
(* The services beside the turns: the joins on the realtime socket, the    *)
(* agent's self-update, the downloads of a model and the preview of a      *)
(* coding session.  They share no state in the models, so a behaviour      *)
(* moves one of them.                                                      *)
(***************************************************************************)
EXTENDS RealtimeHandle, AgentUpdate, HubDownload, CodingPreview

CONSTANT Listings        \* the sizes a repository may show, as values of hubSize

VARIABLE service
services == <<service, rtVars, auVars, hubVars, pvVars>>

ServicesInit ==
    /\ service \in {"realtime", "update", "hub", "preview"}
    /\ RtInit /\ UpdateInit /\ HubInit /\ PreviewInit
    \* which of them it shows matters to the hub only
    /\ hubSize \in IF service = "hub" THEN Listings ELSE {CHOOSE sizes \in Listings : TRUE}

RealtimeService == service = "realtime" /\ RtNext /\ UNCHANGED <<service, auVars, hubVars, pvVars>>
UpdateService == service = "update" /\ UpdateNext /\ UNCHANGED <<service, rtVars, hubVars, pvVars>>
HubService == service = "hub" /\ HubNext /\ UNCHANGED <<service, rtVars, auVars, pvVars>>
PreviewService == service = "preview" /\ PreviewNext /\ UNCHANGED <<service, rtVars, auVars, hubVars>>

ServicesNext == RealtimeService \/ UpdateService \/ HubService \/ PreviewService
ServicesSpec == ServicesInit /\ [][ServicesNext]_services

-----------------------------------------------------------------------------
(* Properties.                                                             *)

\* The type invariants of the four modules.
ServicesTypeOK == RtTypeOK /\ UpdateTypeOK /\ HubTypeOK /\ PreviewTypeOK

\* What an update or a download leaves under its final name is whole, as far as
\* its size is known, and what a cancelled download leaves is nothing.
FilesWhole == ExecutableWhole /\ ManifestWhole /\ CancelLeavesNothing

\* The preview shows what was approved, and leaves no server behind but where two
\* starts overlapped.
PreviewsKept == ServersOwned /\ PageApproved
=============================================================================
