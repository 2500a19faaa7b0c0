------------------------------ MODULE StaticSite -------------------------------
(***************************************************************************)
(* pipeline/present.py: presentation_once builds the site into dist/ and   *)
(* deploys dist/ to the published directory.  It runs under the pipeline   *)
(* lock, so there is one presentation at a time; it may stop at any system *)
(* call, by an exception (the run is recorded as failed) or by a crash.    *)
(*                                                                         *)
(* A build is named by its number.  A file is abstracted to the number of  *)
(* the build it comes from: single files are replaced atomically           *)
(* (_write_public_bytes: temporary file, fsync, rename).                   *)
(***************************************************************************)
EXTENDS Naturals, Sequences

CONSTANTS
    Stories,    \* stories, each a page of its own
    Styles,     \* fingerprinted stylesheet and script paths
    Archive,    \* 404.html and archive/index.html: they sort before assets/
    Home,       \* index.html
    MaxBuilds   \* bound on the number of builds

Files == Stories \cup Styles \cup {Archive, Home}

ASSUME StaticSiteAssumption ==
    /\ Stories \cap Styles = {}
    /\ {Archive, Home} \cap (Stories \cup Styles) = {} /\ Archive # Home
    /\ MaxBuilds \in Nat

VARIABLES
    index,      \* what the next build renders: active stories, asset version
    builds,     \* builds[n]: what build n rendered
    dist,       \* the build in dist/, 0 if there is no such directory
    backups,    \* builds in .dist-backup-* directories
    public,     \* public[f]: the build the published file f is from, 0 if absent
    manifest,   \* the paths in .news-tldr-managed.json
    pc,         \* where the presentation is
    aside,      \* the build it has moved aside, 0 if none
    publish,    \* whether it deploys
    todo,       \* files it still has to copy or to look at
    status,     \* the last presentation's row in the runs table
    tried,      \* history variable: builds whose deployment has begun
    recorded,   \* history variable: builds whose deployment wrote its manifest
    served      \* history variable: builds with a home or story page ever public

vars == <<index, builds, dist, backups, public, manifest, pc, aside, publish, todo,
          status, tried, recorded, served>>
history == <<tried, recorded, served>>

Contents == [stories : SUBSET Stories, style : Styles]
Numbers == 1 .. Len(builds)
Phases == {"idle", "render", "move", "install", "discard", "read",
           "copy", "prune", "home", "manifest", "finish"}

TypeOK ==
    /\ index \in Contents
    /\ builds \in Seq(Contents)
    /\ dist \in Numbers \cup {0} /\ aside \in Numbers \cup {0}
    /\ backups \subseteq Numbers
    /\ public \in [Files -> Numbers \cup {0}]
    /\ manifest \subseteq Files /\ todo \subseteq Files
    /\ pc \in Phases
    /\ publish \in BOOLEAN
    /\ status \in {"none", "running", "failed", "success"}
    /\ served \subseteq tried /\ recorded \subseteq tried /\ tried \subseteq Numbers

Init ==
    /\ index \in Contents
    /\ builds = <<>>
    /\ dist = 0 /\ aside = 0 /\ backups = {}
    /\ public = [f \in Files |-> 0]
    /\ manifest = {} /\ todo = {}
    /\ pc = "idle" /\ publish = FALSE /\ status = "none"
    /\ tried = {} /\ recorded = {} /\ served = {}

\* The editorial stage writes another index, or an upgrade changes the assets.
Edit ==
    /\ pc = "idle"
    /\ index' \in Contents \ {index}
    /\ UNCHANGED <<builds, dist, backups, public, manifest, pc, aside, publish, todo, status, history>>

-----------------------------------------------------------------------------
(* build_static_site.                                                      *)

Begin ==
    /\ pc = "idle" /\ Len(builds) < MaxBuilds
    /\ pc' = "render"
    /\ publish' \in BOOLEAN
    /\ status' = "running"
    /\ UNCHANGED <<index, builds, dist, backups, public, manifest, aside, todo, history>>

\* _write_site_files fills a temporary sibling directory.
Render ==
    /\ pc = "render"
    /\ builds' = Append(builds, index)
    /\ pc' = "move"
    /\ UNCHANGED <<index, dist, backups, public, manifest, aside, publish, todo, status, history>>

Newest == Len(builds)

DropFirst ==
    /\ pc = "move"
    /\ dist' = 0
    /\ pc' = "install"
    /\ UNCHANGED <<index, builds, backups, aside, public, manifest, publish, todo, status, history>>
\* _replace_generated_directory: two renames, then the backup is deleted.
MoveAside ==
    /\ pc = "move"
    /\ aside' = dist
    /\ backups' = IF dist = 0 THEN backups ELSE backups \cup {dist}
    /\ dist' = 0
    /\ pc' = "install"
    /\ UNCHANGED <<index, builds, public, manifest, publish, todo, status, history>>

Install ==
    /\ pc = "install"
    /\ dist' = Newest
    /\ pc' = "discard"
    /\ UNCHANGED <<index, builds, backups, public, manifest, aside, publish, todo, status, history>>

Discard ==
    /\ pc = "discard"
    /\ backups' = backups \ {aside}
    /\ aside' = 0
    /\ pc' = IF publish THEN "read" ELSE "finish"
    /\ UNCHANGED <<index, builds, dist, public, manifest, publish, todo, status, history>>

-----------------------------------------------------------------------------
(* deploy_static_site.                                                     *)

SourceFiles(n) == builds[n].stories \cup {builds[n].style, Archive, Home}
AllManaged == manifest
StaleFiles == manifest \ SourceFiles(dist)

\* Paths are copied in sorted order: archive/ before assets/ before stories/.
SortsBefore(f, g) ==
    \/ f = Archive /\ g # Archive
    \/ f \in Styles /\ g \in Stories

CopiedFirst == SourceFiles(dist) \ {Home}

ReadFiles ==
    /\ pc = "read"
    /\ todo' = CopiedFirst
    /\ tried' = tried \cup {dist}
    /\ pc' = "copy"
    /\ UNCHANGED <<index, builds, dist, backups, public, manifest, aside, publish, status, recorded, served>>

Put(f) ==
    /\ public' = [public EXCEPT ![f] = dist]
    /\ served' = IF f \in Stories \cup {Home} THEN served \cup {dist} ELSE served

\* _copy_public_file, one path after the other.
Copy(f) ==
    /\ pc = "copy"
    /\ f \in todo /\ \A g \in todo : ~SortsBefore(g, f)
    /\ Put(f)
    /\ todo' = todo \ {f}
    /\ UNCHANGED <<index, builds, dist, backups, manifest, pc, aside, publish, status, tried, recorded>>

Copied ==
    /\ pc = "copy" /\ todo = {}
    /\ todo' = StaleFiles
    /\ pc' = "prune"
    /\ UNCHANGED <<index, builds, dist, backups, public, manifest, aside, publish, status, history>>

NothingRetained(f) == FALSE
\* VERSIONED_SITE_ASSET_PATTERN and LEGACY_SITE_ASSET_PATHS.
RetainedAsset(f) == f \in Styles /\ public[f] # 0

PruneIfPossible(f) ==
    /\ pc = "prune" /\ f \in todo
    /\ public' \in {public, IF RetainedAsset(f) THEN public ELSE [public EXCEPT ![f] = 0]}
    /\ todo' = todo \ {f}
    /\ UNCHANGED <<index, builds, dist, backups, manifest, pc, aside, publish, status, history>>
\* A stale path is kept, when it is an asset, or unlinked.
Prune(f) ==
    /\ pc = "prune" /\ f \in todo
    /\ public' = IF RetainedAsset(f) THEN public ELSE [public EXCEPT ![f] = 0]
    /\ todo' = todo \ {f}
    /\ UNCHANGED <<index, builds, dist, backups, manifest, pc, aside, publish, status, history>>

Pruned ==
    /\ pc = "prune" /\ todo = {}
    /\ pc' = "home"
    /\ UNCHANGED <<index, builds, dist, backups, public, manifest, aside, publish, todo, status, history>>

PublishHome ==
    /\ pc = "home"
    /\ Put(Home)
    /\ pc' = "manifest"
    /\ UNCHANGED <<index, builds, dist, backups, manifest, aside, publish, todo, status, tried, recorded>>

Managed == SourceFiles(dist) \cup {f \in StaleFiles : RetainedAsset(f)}

WriteManifest ==
    /\ pc = "manifest"
    /\ manifest' = Managed
    /\ recorded' = recorded \cup {dist}
    /\ pc' = "finish"
    /\ UNCHANGED <<index, builds, dist, backups, public, aside, publish, todo, status, tried, served>>

-----------------------------------------------------------------------------
Finish ==
    /\ pc = "finish"
    /\ pc' = "idle"
    /\ status' = "success"
    /\ UNCHANGED <<index, builds, dist, backups, public, manifest, aside, publish, todo, history>>

\* An exception: the run is recorded as failed.  When the second rename of
\* _replace_generated_directory fails, the first one is undone.
Fail ==
    /\ pc # "idle"
    /\ pc' = "idle"
    /\ status' = "failed"
    /\ IF pc = "install" /\ aside # 0
          THEN dist' = aside /\ backups' = backups \ {aside}
          ELSE UNCHANGED <<dist, backups>>
    /\ aside' = 0 /\ todo' = {}
    /\ UNCHANGED <<index, builds, public, manifest, publish, history>>

\* A kill or a power failure: the row of the run stays "running".
Crash ==
    /\ pc # "idle"
    /\ pc' = "idle"
    /\ aside' = 0 /\ todo' = {}
    /\ UNCHANGED <<index, builds, dist, backups, public, manifest, publish, status, history>>

Next ==
    \/ Edit \/ Begin \/ Render \/ MoveAside \/ Install \/ Discard
    \/ ReadFiles \/ (\E f \in Files : Copy(f)) \/ Copied
    \/ (\E f \in Files : Prune(f)) \/ Pruned
    \/ PublishHome \/ WriteManifest
    \/ Finish \/ Fail \/ Crash

Spec == Init /\ [][Next]_vars

-----------------------------------------------------------------------------
(* Properties.                                                             *)

\* README.md, "replaces index.html last": whatever deployment was interrupted,
\* every story the published homepage links to has its page, from the same
\* build or a later one, unless a deployment that has begun since dropped it.
HomeNeverAhead ==
    public[Home] # 0 =>
        \A s \in builds[public[Home]].stories :
            \/ public[s] >= public[Home]
            \/ \E n \in tried : n > public[Home] /\ s \notin builds[n].stories

\* README.md, "preserves prior and legacy CSS/JavaScript paths for cached
\* pages": the assets of every home or story page that was ever public are
\* there, while the page is, and for the caches that still hold it.
CachedPagesStyled == \A n \in served : public[builds[n].style] # 0

\* A story page is in the manifest, so that a later deployment removes it when
\* its story is dropped, unless the deployment it is from was interrupted.
OrphansOnlyByInterruption ==
    \A s \in Stories : public[s] # 0 /\ s \notin manifest => public[s] \notin recorded

\* A build that has been installed is not lost while the next one replaces it:
\* some complete build is in dist/ or in a backup.
LastGoodKept == [][dist # 0 \/ backups # {} => (dist # 0 \/ backups # {})']_vars
=============================================================================
