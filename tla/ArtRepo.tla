------------------------------ MODULE ArtRepo -------------------------------
(***************************************************************************)
(* The clone of the art repository (internal/art/repo.go) and the catalog  *)
(* made from it (internal/art/catalog.go), over restarts of the process:   *)
(* the clone is on a disk, the catalog in memory.  Bot.Run first brings    *)
(* the clone up to date, then makes the catalog, then starts the updater.  *)
(*                                                                         *)
(* git is external: a clone or pull succeeds, fails, or is killed with the *)
(* process and leaves a clone that later pulls may or may not repair.      *)
(***************************************************************************)
EXTENDS FiniteSets

CONSTANT File   \* paths of art files

VARIABLES
    remote,    \* files of the remote repository
    clone,     \* the local path: "absent", "whole" or "broken"
    disk,      \* files in the local path
    repo,      \* "init", "refresh", "run" (updater) or "off" (Init failed)
    catalog,   \* Catalog.entries
    pulled     \* history: the updater changed the disk

diskVars == <<clone, disk>>
artVars  == <<remote, diskVars, repo, catalog, pulled>>

ArtInit ==
    /\ remote \in SUBSET File
    /\ clone = "absent" /\ disk = {}
    /\ repo = "init" /\ catalog = {}
    /\ pulled = FALSE

Push ==
    /\ remote' \in SUBSET File
    /\ UNCHANGED <<diskVars, repo, catalog, pulled>>

(* git pull --ff-only.                                                     *)
GitPull ==
    \/ clone' = "whole" /\ disk' = remote
    \/ UNCHANGED diskVars

-----------------------------------------------------------------------------
(* Repo.Init.  A path that is there is taken for a clone.                  *)
InitClone ==
    /\ repo = "init" /\ clone = "absent"
    /\ \/ clone' = "whole" /\ disk' = remote /\ repo' = "refresh"
       \/ repo' = "off" /\ UNCHANGED diskVars
    /\ UNCHANGED <<remote, catalog, pulled>>

\* Faulty variant: the catalog is made before the pull.
InitPullLate ==
    /\ repo = "init" /\ clone # "absent"
    /\ catalog' = disk
    /\ GitPull
    /\ repo' = "run"
    /\ UNCHANGED <<remote, pulled>>

InitPull ==
    /\ repo = "init" /\ clone # "absent"
    /\ GitPull
    /\ repo' = "refresh"
    /\ UNCHANGED <<remote, catalog, pulled>>

(* Catalog.Refresh, with no pull under way.                                *)
Refresh ==
    /\ repo = "refresh"
    /\ catalog' = disk
    /\ repo' = "run"
    /\ UNCHANGED <<remote, diskVars, pulled>>

(* Pull by the updater: the catalog is not made anew.                      *)
Pull ==
    /\ repo = "run"
    /\ GitPull
    /\ pulled' = (pulled \/ disk' # disk)
    /\ UNCHANGED <<remote, repo, catalog>>

(* The process ends and starts again.  A git killed on the way leaves some *)
(* of the old files and some of the new ones.                              *)
Restart ==
    /\ \/ UNCHANGED diskVars
       \/ /\ repo \in {"init", "run"}
          /\ clone' = "broken"
          /\ disk' \in SUBSET (disk \cup remote)
    /\ repo' = "init" /\ catalog' = {} /\ pulled' = FALSE
    /\ UNCHANGED remote

ArtNext ==
    \/ Push
    \/ InitClone
    \/ InitPull
    \/ Refresh
    \/ Pull
=============================================================================
