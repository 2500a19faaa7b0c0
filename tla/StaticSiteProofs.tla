--------------------------- MODULE StaticSiteProofs ----------------------------
(***************************************************************************)
(* What StaticSite promises, for any stories, styles and number of builds, *)
(* through failures and crashes at every step.                             *)
(***************************************************************************)
EXTENDS StaticSite, TLAPS

(***************************************************************************)
(* The inductive invariant: what every file and every phase knows.         *)
(***************************************************************************)
Deploying == pc \in {"copy", "prune", "home", "manifest"}

\* A build that is not deployed yet has no file in public.
Unpublished == pc \in {"move", "install", "discard", "read"} => Newest # 0 /\ Newest \notin tried

\* From the second rename on, dist/ is the build of this presentation.
InPlace == pc \in {"discard", "read"} \/ Deploying => dist = Newest

\* A deployment has begun and not written its manifest; its homepage comes last.
Begun ==
    Deploying =>
        /\ dist # 0 /\ dist \in tried /\ dist \notin recorded
        /\ pc # "manifest" => public[Home] # dist

\* A published file is one its build rendered, and that build was deployed.
Rendered == \A f \in Files : public[f] # 0 => public[f] \in tried /\ f \in SourceFiles(public[f])

\* What the copying has done, all of it before anything is removed.
Copying ==
    Deploying =>
        /\ pc = "copy" => todo \subseteq CopiedFirst
        /\ \A f \in CopiedFirst : public[f] = dist \/ (pc = "copy" /\ f \in todo)

\* What the pruning has done, all of it before the homepage is published.
Pruning ==
    pc \in {"prune", "home", "manifest"} =>
        /\ pc = "prune" => todo \subseteq StaleFiles
        /\ \A f \in StaleFiles : RetainedAsset(f) \/ public[f] = 0 \/ (pc = "prune" /\ f \in todo)

Phased == Unpublished /\ InPlace /\ Begun /\ Rendered /\ Copying /\ Pruning
Promised == HomeNeverAhead /\ CachedPagesStyled /\ OrphansOnlyByInterruption
SiteInv == TypeOK /\ Phased /\ Promised

USE StaticSiteAssumption

--------------------------------------------------------------------------------
LEMMA InitKeeps == ASSUME Init PROVE SiteInv
<1>1. TypeOK
  <2>1. builds \in Seq(Contents) /\ Len(builds) = 0
    BY DEF Init
  <2> QED
    BY <2>1 DEF Init, TypeOK, Phases
<1>2. Phased
  BY DEF Init, Phased, Unpublished, InPlace, Deploying, Begun, Rendered, Copying, Pruning
<1>3. Promised
  BY DEF Init, Promised, HomeNeverAhead, CachedPagesStyled, OrphansOnlyByInterruption, Files
<1> QED
  BY <1>1, <1>2, <1>3 DEF SiteInv

\* What a file is from has been rendered.
LEMMA FileFacts ==
    ASSUME TypeOK, NEW n \in Numbers
    PROVE  /\ builds[n].stories \subseteq Stories /\ builds[n].style \in Styles
           /\ SourceFiles(n) \subseteq Files
           /\ n \in 1 .. Newest /\ Newest \in Nat
<1>1. builds[n] \in Contents /\ Len(builds) \in Nat
  BY DEF TypeOK, Numbers
<1> QED
  BY <1>1 DEF Numbers, Contents, SourceFiles, Files, Newest

\* Rendering one more build leaves the earlier ones as they are.
LEMMA EarlierBuilds ==
    ASSUME TypeOK, NEW c \in Contents, builds' = Append(builds, c)
    PROVE  /\ builds' \in Seq(Contents)
           /\ Newest' = Newest + 1 /\ Newest \in Nat
           /\ Numbers \subseteq Numbers'
           /\ \A n \in Numbers : builds'[n] = builds[n] /\ SourceFiles(n)' = SourceFiles(n)
<1>1. /\ builds' \in Seq(Contents) /\ Len(builds') = Len(builds) + 1 /\ Len(builds) \in Nat
      /\ \A n \in 1 .. Len(builds) : builds'[n] = builds[n]
  BY DEF TypeOK
<1> QED
  BY <1>1 DEF Numbers, Newest, SourceFiles

\* A step that publishes, removes and records nothing keeps every promise.
LEMMA QuietStep ==
    ASSUME Promised, Rendered, UNCHANGED <<builds, public, manifest, history>>
    PROVE  Promised' /\ Rendered'
BY DEF Promised, Rendered, HomeNeverAhead, CachedPagesStyled, OrphansOnlyByInterruption,
       SourceFiles, history

\* Before it renders and after it has deployed, a presentation owes nothing.
LEMMA QuietPhase ==
    ASSUME pc' \in {"idle", "render", "finish"}, Rendered'
    PROVE  Phased'
BY DEF Phased, Unpublished, InPlace, Deploying, Begun, Copying, Pruning

--------------------------------------------------------------------------------
(* The steps: building.                                                      *)

LEMMA EditKeeps == ASSUME SiteInv, Edit PROVE SiteInv'
<1>1. TypeOK'
  BY DEF SiteInv, TypeOK, Edit, history, Numbers
<1>2. Promised' /\ Rendered'
  BY QuietStep DEF SiteInv, Phased, Edit
<1>3. Phased'
  BY <1>2, QuietPhase DEF Edit
<1> QED
  BY <1>1, <1>2, <1>3 DEF SiteInv

LEMMA BeginKeeps == ASSUME SiteInv, Begin PROVE SiteInv'
<1>1. TypeOK'
  BY DEF SiteInv, TypeOK, Begin, history, Numbers, Phases
<1>2. Promised' /\ Rendered'
  BY QuietStep DEF SiteInv, Phased, Begin
<1>3. Phased'
  BY <1>2, QuietPhase DEF Begin
<1> QED
  BY <1>1, <1>2, <1>3 DEF SiteInv

LEMMA RenderKeeps == ASSUME SiteInv, Render PROVE SiteInv'
<1>1. /\ builds' \in Seq(Contents)
      /\ Newest' = Newest + 1 /\ Newest \in Nat
      /\ Numbers \subseteq Numbers'
      /\ \A n \in Numbers : builds'[n] = builds[n] /\ SourceFiles(n)' = SourceFiles(n)
  BY EarlierBuilds DEF SiteInv, TypeOK, Render
<1>2. TypeOK'
  <2>1. \A f \in Files : public[f] \in Numbers' \cup {0}
    BY <1>1 DEF SiteInv, TypeOK
  <2> QED
    BY <1>1, <2>1 DEF SiteInv, TypeOK, Render, history, Phases
<1>3. Rendered'
  BY <1>1 DEF SiteInv, Phased, Rendered, Render, history, TypeOK
<1>4. Phased'
  <2>1. Unpublished'
    BY <1>1 DEF SiteInv, TypeOK, Unpublished, Render, history, Numbers, Newest
  <2> QED
    BY <1>3, <2>1 DEF Phased, InPlace, Deploying, Begun, Copying, Pruning, Render
<1>5. HomeNeverAhead'
  <2>1. public[Home] \in Numbers \cup {0}
    BY DEF SiteInv, TypeOK, Files
  <2> QED
    BY <1>1, <2>1 DEF SiteInv, Promised, HomeNeverAhead, Render, history, TypeOK
<1>6. CachedPagesStyled'
  BY <1>1 DEF SiteInv, Promised, CachedPagesStyled, Render, history, TypeOK
<1>7. OrphansOnlyByInterruption'
  BY DEF SiteInv, Promised, OrphansOnlyByInterruption, Render, history
<1> QED
  BY <1>2, <1>4, <1>5, <1>6, <1>7 DEF SiteInv, Promised

LEMMA MoveAsideKeeps == ASSUME SiteInv, MoveAside PROVE SiteInv'
<1>1. TypeOK'
  BY DEF SiteInv, TypeOK, MoveAside, history, Numbers, Phases
<1>2. Promised' /\ Rendered'
  BY QuietStep DEF SiteInv, Phased, MoveAside
<1>3. Phased'
  BY <1>2 DEF SiteInv, Phased, Unpublished, InPlace, Deploying, Begun, Copying, Pruning,
              MoveAside, Newest, history
<1> QED
  BY <1>1, <1>2, <1>3 DEF SiteInv

LEMMA InstallKeeps == ASSUME SiteInv, Install PROVE SiteInv'
<1>1. Newest \in Numbers
  BY DEF SiteInv, TypeOK, Phased, Unpublished, Install, Numbers, Newest
<1>2. TypeOK'
  BY <1>1 DEF SiteInv, TypeOK, Install, history, Numbers, Phases
<1>3. Promised' /\ Rendered'
  BY QuietStep DEF SiteInv, Phased, Install
<1>4. Phased'
  BY <1>3 DEF SiteInv, Phased, Unpublished, InPlace, Deploying, Begun, Copying, Pruning,
              Install, Newest, history
<1> QED
  BY <1>2, <1>3, <1>4 DEF SiteInv

LEMMA DiscardKeeps == ASSUME SiteInv, Discard PROVE SiteInv'
<1>1. TypeOK'
  BY DEF SiteInv, TypeOK, Discard, history, Numbers, Phases
<1>2. Promised' /\ Rendered'
  BY QuietStep DEF SiteInv, Phased, Discard
<1>3. Phased'
  BY <1>2 DEF SiteInv, Phased, Unpublished, InPlace, Deploying, Begun, Copying, Pruning,
              Discard, Newest, history
<1> QED
  BY <1>1, <1>2, <1>3 DEF SiteInv

--------------------------------------------------------------------------------
(* The steps: deploying.                                                     *)

\* While it deploys, nothing in public is from a later build than dist/.
LEMMA DeployFacts ==
    ASSUME SiteInv, pc = "read" \/ Deploying
    PROVE  /\ dist \in Numbers /\ dist = Newest /\ dist \in Nat \ {0}
           /\ SourceFiles(dist) \subseteq Files
           /\ builds[dist].stories \subseteq CopiedFirst /\ builds[dist].style \in CopiedFirst
           /\ \A f \in Files : public[f] \in 0 .. dist
<1>1. dist = Newest /\ dist # 0 /\ dist \in Numbers
  BY DEF SiteInv, TypeOK, Phased, Unpublished, InPlace, Begun, Numbers, Newest
<1>2. /\ dist \in 1 .. Newest /\ Newest \in Nat /\ SourceFiles(dist) \subseteq Files
      /\ builds[dist].stories \subseteq Stories /\ builds[dist].style \in Styles
  BY <1>1, FileFacts DEF SiteInv
<1>3. \A f \in Files : public[f] \in 0 .. dist
  BY <1>1, <1>2 DEF SiteInv, TypeOK, Numbers, Newest
<1> QED
  BY <1>1, <1>2, <1>3 DEF CopiedFirst, SourceFiles

LEMMA ReadFilesKeeps == ASSUME SiteInv, ReadFiles PROVE SiteInv'
<1> USE DEF ReadFiles, Deploying
<1>1. /\ dist \in Numbers /\ dist = Newest /\ dist # 0
      /\ SourceFiles(dist) \subseteq Files
  BY DeployFacts
<1>2. TypeOK'
  BY <1>1 DEF SiteInv, TypeOK, Numbers, Phases, CopiedFirst
<1>3. Rendered'
  BY DEF SiteInv, Phased, Rendered, SourceFiles
<1>4. Begun'
  <2>1. dist \notin tried
    BY <1>1 DEF SiteInv, Phased, Unpublished
  <2>2. public[Home] # dist
    BY <1>1, <2>1 DEF SiteInv, Phased, Rendered, Files
  <2> QED
    BY <1>1, <2>1, <2>2 DEF SiteInv, TypeOK, Begun
<1>5. Copying'
  BY DEF Copying, CopiedFirst, SourceFiles
<1>6. Phased'
  BY <1>1, <1>3, <1>4, <1>5 DEF Phased, Unpublished, InPlace, Pruning, Newest
<1>7. Promised'
  BY DEF SiteInv, Promised, HomeNeverAhead, CachedPagesStyled, OrphansOnlyByInterruption
<1> QED
  BY <1>2, <1>6, <1>7 DEF SiteInv

LEMMA CopyKeeps == ASSUME SiteInv, NEW f \in Files, Copy(f) PROVE SiteInv'
<1> USE DEF Copy, Put, Deploying
<1>1. /\ dist \in Numbers /\ dist = Newest /\ dist \in Nat \ {0}
      /\ SourceFiles(dist) \subseteq Files
      /\ builds[dist].style \in CopiedFirst
      /\ \A g \in Files : public[g] \in 0 .. dist
  BY DeployFacts
<1>2. f \in CopiedFirst /\ f \in SourceFiles(dist) /\ f # Home
  BY DEF SiteInv, Phased, Copying, CopiedFirst
<1>3. dist \in tried /\ dist \notin recorded /\ public[Home] # dist
  BY DEF SiteInv, Phased, Begun
<1>4. public \in [Files -> Numbers \cup {0}] /\ public' = [public EXCEPT ![f] = dist]
  BY DEF SiteInv, TypeOK
<1>5. TypeOK'
  BY <1>1, <1>3, <1>4 DEF SiteInv, TypeOK, Numbers
<1>6. Rendered'
  BY <1>1, <1>2, <1>3, <1>4 DEF SiteInv, Phased, Rendered, SourceFiles
<1>7. Copying'
  BY <1>1, <1>4 DEF SiteInv, Phased, Copying, CopiedFirst, SourceFiles
<1>8. Phased'
  BY <1>1, <1>2, <1>3, <1>4, <1>6, <1>7
     DEF SiteInv, Phased, Unpublished, InPlace, Begun, Pruning, Newest, Files
<1>9. HomeNeverAhead'
  <2>1. public'[Home] = public[Home] /\ public[Home] \in 0 .. dist
    BY <1>1, <1>2, <1>4 DEF Files
  <2>2. \A s \in Files : public'[s] = dist \/ public'[s] = public[s]
    BY <1>4
  <2>3. ASSUME public[Home] # 0 PROVE builds[public[Home]].stories \subseteq Files
    <3>1. public[Home] \in Numbers
      BY <2>3, <1>4 DEF Files
    <3> QED
      BY <3>1, FileFacts DEF SiteInv, Files
  <2> QED
    BY <1>1, <2>1, <2>2, <2>3 DEF SiteInv, Promised, HomeNeverAhead
<1>10. CachedPagesStyled'
  <2>1. ASSUME NEW n \in served PROVE public'[builds[n].style] # 0
    <3>1. builds[n].style \in Files /\ public[builds[n].style] # 0
      BY FileFacts DEF SiteInv, TypeOK, Promised, CachedPagesStyled, Files
    <3> QED
      BY <1>1, <1>4, <3>1
  <2>2. ASSUME f \in Stories PROVE public'[builds[dist].style] # 0
    <3>1. builds[dist].style \in Styles /\ builds[dist].style \in Files
      BY <1>1, FileFacts DEF SiteInv, Files
    <3>2. builds[dist].style \notin todo
      BY <3>1, <2>2 DEF SortsBefore
    <3>3. public[builds[dist].style] = dist
      BY <1>1, <3>2 DEF SiteInv, Phased, Copying
    <3> QED
      BY <1>1, <1>4, <3>1, <3>3
  <2> QED
    BY <1>2, <2>1, <2>2 DEF CachedPagesStyled
<1>11. OrphansOnlyByInterruption'
  BY <1>3, <1>4 DEF SiteInv, Promised, OrphansOnlyByInterruption, Files
<1> QED
  BY <1>5, <1>8, <1>9, <1>10, <1>11 DEF SiteInv, Promised

LEMMA CopiedKeeps == ASSUME SiteInv, Copied PROVE SiteInv'
<1> USE DEF Copied, Deploying
<1>1. TypeOK'
  BY DEF SiteInv, TypeOK, history, Numbers, Phases, StaleFiles
<1>2. Promised' /\ Rendered'
  BY QuietStep DEF SiteInv, Phased
<1>3. Copying' /\ Pruning'
  BY DEF SiteInv, Phased, Copying, Pruning, CopiedFirst, StaleFiles, SourceFiles
<1>4. Phased'
  BY <1>2, <1>3 DEF SiteInv, Phased, Unpublished, InPlace, Begun, Newest, history
<1> QED
  BY <1>1, <1>2, <1>4 DEF SiteInv

LEMMA PruneKeeps == ASSUME SiteInv, NEW f \in Files, Prune(f) PROVE SiteInv'
<1> USE DEF Prune, Deploying
<1>1. /\ dist \in Numbers /\ dist = Newest /\ dist \in Nat \ {0}
      /\ \A g \in Files : public[g] \in 0 .. dist
  BY DeployFacts
<1>2. f \in manifest /\ f \notin SourceFiles(dist) /\ f # Home
  BY DEF SiteInv, Phased, Pruning, StaleFiles, SourceFiles
<1>3. dist \in tried /\ dist \notin recorded /\ public[Home] # dist
  BY DEF SiteInv, Phased, Begun
<1>4. /\ public' \in [Files -> Numbers \cup {0}]
      /\ \A g \in Files : g # f => public'[g] = public[g]
      /\ IF RetainedAsset(f) THEN public'[f] = public[f] ELSE public'[f] = 0
  BY DEF SiteInv, TypeOK
<1>5. TypeOK'
  BY <1>4 DEF SiteInv, TypeOK, Numbers, history
<1>6. Rendered'
  BY <1>4 DEF SiteInv, Phased, Rendered, SourceFiles, history
<1>7. Copying'
  <2>1. CopiedFirst \subseteq Files /\ f \notin CopiedFirst
    BY <1>1, <1>2, FileFacts DEF SiteInv, CopiedFirst
  <2> QED
    BY <1>4, <2>1 DEF SiteInv, Phased, Copying, CopiedFirst, SourceFiles
<1>8. Pruning'
  <2>1. StaleFiles \subseteq Files
    BY DEF SiteInv, TypeOK, StaleFiles
  <2>2. \A g \in StaleFiles \ {f} : public'[g] = public[g] /\ RetainedAsset(g)' = RetainedAsset(g)
    BY <1>4, <2>1 DEF RetainedAsset
  <2>3. RetainedAsset(f)' \/ public'[f] = 0
    BY <1>4 DEF RetainedAsset
  <2>4. StaleFiles' = StaleFiles
    BY DEF StaleFiles, SourceFiles
  <2> QED
    BY <2>2, <2>3, <2>4 DEF SiteInv, Phased, Pruning
<1>9. Phased'
  BY <1>1, <1>2, <1>3, <1>4, <1>6, <1>7, <1>8
     DEF SiteInv, Phased, Unpublished, InPlace, Begun, Newest, Files, history
<1>10. HomeNeverAhead'
  <2>1. public'[Home] = public[Home] /\ public[Home] \in 0 .. dist
    BY <1>1, <1>2, <1>4 DEF Files
  <2>2. dist > public[Home] /\ f \notin builds[dist].stories
    BY <1>1, <1>2, <1>3, <2>1 DEF SourceFiles
  <2>3. ASSUME public[Home] # 0 PROVE builds[public[Home]].stories \subseteq Files
    <3>1. public[Home] \in Numbers
      BY <2>3 DEF SiteInv, TypeOK, Files
    <3> QED
      BY <3>1, FileFacts DEF SiteInv, Files
  <2> QED
    BY <1>3, <1>4, <2>1, <2>2, <2>3 DEF SiteInv, Promised, HomeNeverAhead, history
<1>11. CachedPagesStyled'
  <2>1. SUFFICES ASSUME NEW n \in served PROVE public'[builds[n].style] # 0
    BY DEF CachedPagesStyled, history
  <2>2. /\ builds[n].style \in Styles /\ builds[n].style \in Files
        /\ public[builds[n].style] # 0
    BY FileFacts DEF SiteInv, TypeOK, Promised, CachedPagesStyled, Files
  <2> QED
    BY <1>4, <2>2 DEF RetainedAsset
<1>12. OrphansOnlyByInterruption'
  BY <1>4 DEF SiteInv, Promised, OrphansOnlyByInterruption, Files, history
<1> QED
  BY <1>5, <1>9, <1>10, <1>11, <1>12 DEF SiteInv, Promised

LEMMA PrunedKeeps == ASSUME SiteInv, Pruned PROVE SiteInv'
<1> USE DEF Pruned, Deploying
<1>1. TypeOK'
  BY DEF SiteInv, TypeOK, history, Numbers, Phases
<1>2. Promised' /\ Rendered'
  BY QuietStep DEF SiteInv, Phased
<1>3. Copying' /\ Pruning'
  BY DEF SiteInv, Phased, Copying, Pruning, CopiedFirst, StaleFiles, SourceFiles, RetainedAsset
<1>4. Phased'
  BY <1>2, <1>3 DEF SiteInv, Phased, Unpublished, InPlace, Begun, Newest, history
<1> QED
  BY <1>1, <1>2, <1>4 DEF SiteInv

LEMMA PublishHomeKeeps == ASSUME SiteInv, PublishHome PROVE SiteInv'
<1> USE DEF PublishHome, Put, Deploying
<1>1. /\ dist \in Numbers /\ dist = Newest /\ dist \in Nat \ {0}
      /\ SourceFiles(dist) \subseteq Files
      /\ builds[dist].stories \subseteq CopiedFirst /\ builds[dist].style \in CopiedFirst
  BY DeployFacts
<1>2. dist \in tried /\ dist \notin recorded
  BY DEF SiteInv, Phased, Begun
<1>3. \A f \in CopiedFirst : f \in Files /\ f # Home /\ public[f] = dist
  BY <1>1 DEF SiteInv, Phased, Copying, CopiedFirst
<1>4. /\ public' \in [Files -> Numbers \cup {0}] /\ public'[Home] = dist
      /\ \A f \in Files : f # Home => public'[f] = public[f]
  BY <1>1 DEF SiteInv, TypeOK, Files
<1>5. TypeOK'
  BY <1>1, <1>2, <1>4 DEF SiteInv, TypeOK, Numbers, Phases
<1>6. Rendered'
  BY <1>2, <1>4 DEF SiteInv, Phased, Rendered, SourceFiles
<1>7. Copying'
  BY <1>3, <1>4 DEF Copying, CopiedFirst, SourceFiles
<1>8. Pruning'
  <2>1. StaleFiles \subseteq Files \ {Home} /\ StaleFiles' = StaleFiles
    BY DEF SiteInv, TypeOK, StaleFiles, SourceFiles
  <2> QED
    BY <1>4, <2>1 DEF SiteInv, Phased, Pruning, RetainedAsset
<1>9. Phased'
  BY <1>1, <1>2, <1>6, <1>7, <1>8
     DEF SiteInv, Phased, Unpublished, InPlace, Begun, Newest
<1>10. HomeNeverAhead'
  BY <1>1, <1>3, <1>4 DEF HomeNeverAhead
<1>11. CachedPagesStyled'
  <2>1. \A n \in served : builds[n].style \in Files \ {Home} /\ public[builds[n].style] # 0
    BY FileFacts DEF SiteInv, TypeOK, Promised, CachedPagesStyled, Files
  <2> QED
    BY <1>1, <1>3, <1>4, <2>1 DEF CachedPagesStyled
<1>12. OrphansOnlyByInterruption'
  BY <1>4 DEF SiteInv, Promised, OrphansOnlyByInterruption, Files
<1> QED
  BY <1>5, <1>9, <1>10, <1>11, <1>12 DEF SiteInv, Promised

LEMMA WriteManifestKeeps == ASSUME SiteInv, WriteManifest PROVE SiteInv'
<1> USE DEF WriteManifest, Deploying
<1>1. dist \in Numbers /\ SourceFiles(dist) \subseteq Files /\ dist \in tried
  BY DeployFacts DEF SiteInv, Phased, Begun
<1>2. TypeOK'
  BY <1>1 DEF SiteInv, TypeOK, Numbers, Phases, Managed, StaleFiles
<1>3. Rendered'
  BY DEF SiteInv, Phased, Rendered, SourceFiles
<1>4. Phased'
  BY <1>3, QuietPhase
<1>5. HomeNeverAhead' /\ CachedPagesStyled'
  BY DEF SiteInv, Promised, HomeNeverAhead, CachedPagesStyled
<1>6. OrphansOnlyByInterruption'
  <2>1. SUFFICES ASSUME NEW s \in Stories, public[s] # 0, s \notin Managed
                 PROVE  public[s] \notin recorded \cup {dist}
    BY DEF OrphansOnlyByInterruption
  <2>2. s \in Files /\ ~RetainedAsset(s) /\ s \notin SourceFiles(dist)
    BY <2>1 DEF Files, RetainedAsset, Managed
  <2>3. public[s] # dist
    BY <2>1, <2>2 DEF SiteInv, Phased, Rendered
  <2>4. s \notin manifest
    BY <2>1, <2>2 DEF SiteInv, Phased, Pruning, StaleFiles
  <2> QED
    BY <2>1, <2>3, <2>4 DEF SiteInv, Promised, OrphansOnlyByInterruption
<1> QED
  BY <1>2, <1>4, <1>5, <1>6 DEF SiteInv, Promised

--------------------------------------------------------------------------------
(* The end of a presentation, however it comes.                              *)

LEMMA EndKeeps == ASSUME SiteInv, Finish \/ Fail \/ Crash PROVE SiteInv'
<1>1. TypeOK'
  <2>1. CASE Finish \/ Crash
    BY <2>1 DEF SiteInv, TypeOK, Finish, Crash, history, Numbers, Phases
  <2>2. CASE Fail
    BY <2>2 DEF SiteInv, TypeOK, Fail, history, Numbers, Phases
  <2> QED
    BY <2>1, <2>2
<1>2. Promised' /\ Rendered'
  BY QuietStep DEF SiteInv, Phased, Finish, Fail, Crash
<1>3. Phased'
  BY <1>2, QuietPhase DEF Finish, Fail, Crash
<1> QED
  BY <1>1, <1>2, <1>3 DEF SiteInv

LEMMA StutterKeeps == ASSUME SiteInv, UNCHANGED vars PROVE SiteInv'
<1>1. TypeOK'
  BY DEF SiteInv, TypeOK, vars, Numbers
<1>2. Promised' /\ Rendered'
  BY QuietStep DEF SiteInv, Phased, vars, history
<1>3. Phased'
  BY <1>2 DEF SiteInv, Phased, Unpublished, InPlace, Deploying, Begun, Copying, Pruning,
              CopiedFirst, StaleFiles, SourceFiles, RetainedAsset, Newest, vars
<1> QED
  BY <1>1, <1>2, <1>3 DEF SiteInv

LEMMA StepKeeps == ASSUME SiteInv, [Next]_vars PROVE SiteInv'
BY EditKeeps, BeginKeeps, RenderKeeps, MoveAsideKeeps, InstallKeeps, DiscardKeeps,
   ReadFilesKeeps, CopyKeeps, CopiedKeeps, PruneKeeps, PrunedKeeps, PublishHomeKeeps,
   WriteManifestKeeps, EndKeeps, StutterKeeps DEF Next

--------------------------------------------------------------------------------
(* The theorems.                                                             *)

\* What a presentation knows at each of its steps, and with it every promise,
\* after any builds, failures and crashes (presentation_once).
THEOREM SiteInvariant == Spec => []SiteInv
<1>1. Init => SiteInv
  BY InitKeeps
<1>2. SiteInv /\ [Next]_vars => SiteInv'
  BY StepKeeps
<1> QED
  BY <1>1, <1>2, PTL DEF Spec

\* The variables keep their types.
THEOREM TypeCorrect == Spec => []TypeOK
<1>1. SiteInv => TypeOK
  BY DEF SiteInv
<1> QED
  BY <1>1, SiteInvariant, PTL

\* A homepage never links to a story page that is missing or older than itself,
\* unless a later deployment has begun to take the story away: pages are copied
\* before index.html, and removed after it was rendered without them.
THEOREM HomeFollows == Spec => []HomeNeverAhead
<1>1. SiteInv => HomeNeverAhead
  BY DEF SiteInv, Promised
<1> QED
  BY <1>1, SiteInvariant, PTL

\* A page that was ever public finds its stylesheets: they are copied before it
\* and never pruned.
THEOREM CachesStyled == Spec => []CachedPagesStyled
<1>1. SiteInv => CachedPagesStyled
  BY DEF SiteInv, Promised
<1> QED
  BY <1>1, SiteInvariant, PTL

\* No completed deployment leaves a story page that later ones cannot remove.
THEOREM OrphansInterrupted == Spec => []OrphansOnlyByInterruption
<1>1. SiteInv => OrphansOnlyByInterruption
  BY DEF SiteInv, Promised
<1> QED
  BY <1>1, SiteInvariant, PTL

\* The last good build survives its replacement, whichever of the two renames,
\* the removal of the backup or the repair after a failure is interrupted.
THEOREM BuildSurvives == Spec => LastGoodKept
<1>1. SiteInv /\ [Next]_vars => [dist # 0 \/ backups # {} => (dist # 0 \/ backups # {})']_vars
  <2>1. SUFFICES ASSUME SiteInv, Next, dist # 0 \/ backups # {}
                 PROVE  dist' # 0 \/ backups' # {}
    OBVIOUS
  <2>2. CASE MoveAside
    BY <2>1, <2>2 DEF MoveAside
  <2>3. CASE Install
    BY <2>1, <2>3 DEF SiteInv, Phased, Unpublished, Install
  <2>4. CASE Discard
    BY <2>1, <2>4 DEF SiteInv, Phased, Unpublished, InPlace, Discard
  <2>5. CASE Fail
    BY <2>1, <2>5 DEF Fail
  <2> QED
    BY <2>1, <2>2, <2>3, <2>4, <2>5
       DEF Next, Edit, Begin, Render, ReadFiles, Copy, Copied, Prune, Pruned, PublishHome,
           WriteManifest, Finish, Crash
<1> QED
  BY <1>1, SiteInvariant, PTL DEF Spec, LastGoodKept
================================================================================
