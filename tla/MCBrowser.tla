----------------------------- MODULE MCBrowser -----------------------------
(***************************************************************************)
(* What runs in the browser: the page and its adapters (Workspace), who is *)
(* heard (MediaArbiter), the documents inside the two frames               *)
(* (LyricSession, MotionSession) and the Chrome extension (ExtensionJobs). *)
(* The modules describe these at different depths and share no variable,   *)
(* so a behaviour follows one of them and the others rest.                 *)
(***************************************************************************)
EXTENDS MediaArbiter, TLC

CONSTANTS Songs, NoSong, LinkSongs, MaxRequests, MaxReports, MaxGestures,
          NoText, MaxLoads, MaxWrites, MaxSaves,
          NoDraft, MaxOpens, MaxChanges, MaxQueues,
          Clips, SongOf, NoClip, MaxAsks, MaxJobs, MaxFiles, MaxAlarms, MaxDeaths,
          MaxDisturbances

VARIABLES
  concern,  \* what a behaviour is about: one of the modules
  \* Workspace
  signedIn, active, page, hash, turned, adapter, doc, reports, requests, gestures,
  \* LyricSession
  server, held, known, cache, drafts, current, text, opened, dirty, past, future,
  loads, timer, saving, writes, saves,
  \* MotionSession
  remote, had, kept, selected, design, changed, opens, due, sending, audioOf,
  running, queues, encoded, changes,
  \* ExtensionJobs
  store, records, items, news, drawn, orders, loop, again, sweep, asks, alarms,
  deaths, orphans

Pages == INSTANCE Workspace
Lyrics == INSTANCE LyricSession
Motion == INSTANCE MotionSession WITH shown <- design
Extension == INSTANCE ExtensionJobs

soundVars == vars
siteVars == <<signedIn, active, page, hash, turned, adapter, doc, reports, requests, gestures>>
lyricVars == <<server, held, known, cache, drafts, current, text, opened, dirty, past,
               future, loads, timer, saving, writes, saves>>
motionVars == <<remote, had, kept, selected, design, changed, opens, due, sending, audioOf,
                running, queues, encoded, changes>>
extensionVars == <<store, records, items, news, drawn, orders, loop, again, sweep, asks,
                   alarms, deaths, orphans>>

\* The bounds are numbers, and what stands for nothing is nothing else.
ASSUME BrowserAssumption ==
  /\ MaxRequests \in Nat /\ MaxReports \in Nat /\ MaxGestures \in Nat
  /\ MaxLoads \in Nat /\ MaxWrites \in Nat /\ MaxSaves \in Nat
  /\ MaxOpens \in Nat /\ MaxChanges \in Nat /\ MaxQueues \in Nat
  /\ MaxAsks \in Nat /\ MaxJobs \in Nat /\ MaxFiles \in Nat
  /\ MaxAlarms \in Nat /\ MaxDeaths \in Nat
  /\ NoSong \notin Songs /\ NoClip \notin Clips /\ LinkSongs \subseteq Songs

\* All clips are of one song.
OneSong == [c \in Clips |-> "song"]

SongsInterchangeable == Permutations(Songs)

BrowserInit ==
  /\ concern \in {"page", "sound", "lyric", "motion", "exports", "extension"}
  /\ Init /\ Pages!Init /\ Lyrics!Init /\ Motion!Init /\ Extension!Init

Page == concern = "page"
Sound == concern = "sound"
Lyric == concern = "lyric"
Studio == concern \in {"motion", "exports"}
Worker == concern = "extension"

\* The modules a behaviour does not follow rest.
PageOnly == UNCHANGED <<concern, soundVars, lyricVars, motionVars, extensionVars>>
SoundOnly == UNCHANGED <<concern, siteVars, lyricVars, motionVars, extensionVars>>
LyricOnly == UNCHANGED <<concern, siteVars, soundVars, motionVars, extensionVars>>
StudioOnly == UNCHANGED <<concern, siteVars, soundVars, lyricVars, extensionVars>>
WorkerOnly == UNCHANGED <<concern, siteVars, soundVars, lyricVars, motionVars>>

\* The export queue is followed with a single edit, to bound the run.
Editing == Studio /\ (concern = "exports" => changes = 0)
Exporting == Studio /\ concern = "exports"

\* Clicks, alarms and ends of the extension's worker are bounded together too.
Disturbing == Worker /\ asks + alarms + deaths < MaxDisturbances

\* The last download of the three is left to a second RETRY_DOWNLOAD.
Making == Worker /\ Len(items) < 2

\* The last load of a run is followed without Undo, Redo or a closed window,
\* and the page is asked to navigate among the first two gestures: both bound
\* the run.
Returning == Lyric /\ Len(loads) < MaxLoads
Navigating == Page /\ gestures < 2

Loads == 1..Len(loads)
Opens == 1..Len(opens)
Queues == 1..Len(queues)
Files == 1..MaxFiles
Sweeps == 1..MaxAlarms
Jobs == 1..MaxJobs
Asked == Extension!Doors \X Clips
Hashes == [page : Pages!Pages, song : LinkSongs \cup {NoSong}]

BrowserNext ==
  \/ Navigating /\ \E s \in Studios, song \in Pages!SongOrNone : Pages!OpenFromPage(s, song) /\ PageOnly
  \/ Page /\ Pages!HashChange /\ PageOnly
  \/ Navigating /\ \E h \in Hashes : Pages!ChooseHash(h) /\ PageOnly
  \/ Page /\ \E s \in Studios : Pages!RetryLoad(s) /\ PageOnly
  \/ Page /\ \E s \in Studios : Pages!Timeout(s) /\ PageOnly
  \/ Page /\ \E s \in Studios : Pages!Boot(s) /\ PageOnly
  \/ Page /\ Pages!Fetch /\ PageOnly
  \/ Page /\ \E s \in Studios, draft \in BOOLEAN : Pages!Loaded(s, draft) /\ PageOnly
  \/ Page /\ \E s \in Studios : Pages!LoadFails(s) /\ PageOnly
  \/ Page /\ \E s \in Studios : Pages!Edit(s) /\ PageOnly
  \/ Page /\ Pages!Refresh /\ PageOnly
  \/ Page /\ \E s \in Studios : Pages!Save(s) /\ PageOnly
  \/ Page /\ \E s \in Studios, newer \in BOOLEAN : Pages!Receipt(s, newer) /\ PageOnly
  \/ Page /\ \E s \in Studios : Pages!SaveFails(s) /\ PageOnly
  \/ Page /\ \E s \in Studios, song \in Songs : Pages!Pick(s, song) /\ PageOnly
  \/ Page /\ \E s \in Studios : Pages!Cross(s) /\ PageOnly
  \/ Page /\ \E s \in Studios : Pages!Deliver(s) /\ PageOnly
  \/ Page /\ \E s \in Studios : Pages!DeliverSwitch(s) /\ PageOnly
  \/ Page /\ Pages!Logout /\ PageOnly
  \/ Page /\ Pages!Login /\ PageOnly
  \/ Sound /\ \E s \in Studios : Play(s) /\ SoundOnly
  \/ Sound /\ \E s \in Studios : Stop(s) /\ SoundOnly
  \/ Sound /\ \E s \in Studios : Obey(s) /\ SoundOnly
  \/ Sound /\ \E s \in Studios : Reload(s) /\ SoundOnly
  \/ Sound /\ \E s \in Studios : Hear(s) /\ SoundOnly
  \/ Sound /\ \E s \in Studios \cup {NoOne} : Show(s) /\ SoundOnly
  \/ Sound /\ SongChanged /\ SoundOnly
  \/ Lyric /\ \E s \in Songs : Lyrics!LoadSong(s) /\ LyricOnly
  \/ Lyric /\ \E l \in Loads : Lyrics!InfoArrives(l) /\ LyricOnly
  \/ Lyric /\ \E l \in Loads : Lyrics!InfoFails(l) /\ LyricOnly
  \/ Lyric /\ \E l \in Loads : Lyrics!CacheAnswers(l) /\ LyricOnly
  \/ Lyric /\ \E l \in Loads : Lyrics!ServerReads(l) /\ LyricOnly
  \/ Lyric /\ \E l \in Loads : Lyrics!Arrives(l) /\ LyricOnly
  \/ Lyric /\ \E l \in Loads : Lyrics!FetchFails(l) /\ LyricOnly
  \/ Lyric /\ \E l \in Loads : Lyrics!DraftAnswers(l) /\ LyricOnly
  \/ Lyric /\ Lyrics!Edit /\ LyricOnly
  \/ Returning /\ Lyrics!Undo /\ LyricOnly
  \/ Returning /\ Lyrics!Redo /\ LyricOnly
  \/ Lyric /\ Lyrics!TimerFires /\ LyricOnly
  \/ Lyric /\ Lyrics!Save /\ LyricOnly
  \/ Lyric /\ Lyrics!ServerSaves /\ LyricOnly
  \/ Lyric /\ Lyrics!Receipt /\ LyricOnly
  \/ Lyric /\ Lyrics!SaveFails /\ LyricOnly
  \/ Returning /\ \E crash \in BOOLEAN : Lyrics!Close(crash) /\ LyricOnly
  \/ Studio /\ \E s \in Songs : Motion!Load(s) /\ StudioOnly
  \/ Studio /\ \E l \in Opens : Motion!ServerReads(l) /\ StudioOnly
  \/ Studio /\ \E l \in Opens : Motion!ProjectArrives(l) /\ StudioOnly
  \/ Studio /\ \E l \in Opens : Motion!ProjectLate(l) /\ StudioOnly
  \/ Studio /\ \E l \in Opens : Motion!LoadFails(l) /\ StudioOnly
  \/ Studio /\ \E l \in Opens, fails \in BOOLEAN : Motion!AudioArrives(l, fails) /\ StudioOnly
  \/ Editing /\ \E p \in Motion!Parts : Motion!Change(p) /\ StudioOnly
  \/ Studio /\ Motion!KeepDraft /\ StudioOnly
  \/ Studio /\ Motion!SaveAll /\ StudioOnly
  \/ Studio /\ \E p \in Motion!Parts : Motion!ServerSaves(p) /\ StudioOnly
  \/ Studio /\ \E p \in Motion!Parts : Motion!Receipt(p) /\ StudioOnly
  \/ Studio /\ \E p \in Motion!Parts : Motion!PartFails(p) /\ StudioOnly
  \/ Studio /\ Motion!SaveEnds /\ StudioOnly
  \/ Exporting /\ Motion!Export /\ StudioOnly
  \/ Studio /\ \E q \in Queues : Motion!ExportStarts(q) /\ StudioOnly
  \/ Studio /\ \E q \in Queues : Motion!PriceAnswers(q) /\ StudioOnly
  \/ Studio /\ \E q \in Queues : Motion!Encode(q) /\ StudioOnly
  \/ Studio /\ \E q \in Queues : Motion!ExportEnds(q) /\ StudioOnly
  \/ Studio /\ \E crash \in BOOLEAN : Motion!Close(crash) /\ StudioOnly
  \/ Worker /\ \E f \in Files, outcome \in Extension!Over : Extension!FileEnds(f, outcome) /\ WorkerOnly
  \/ Worker /\ \E f \in Files : Extension!Hear(f) /\ WorkerOnly
  \/ Disturbing /\ \E f \in Files : Extension!Retry(f) /\ WorkerOnly
  \/ Worker /\ \E a \in Sweeps, f \in Files : Extension!SweepFile(a, f) /\ WorkerOnly
  \/ Disturbing /\ \E torn \in SUBSET news : Extension!Die(torn) /\ WorkerOnly
  \/ Worker /\ \E i \in Jobs : Extension!AlignWaits(i) /\ WorkerOnly
  \/ Worker /\ \E i \in Jobs : Extension!Aligned(i) /\ WorkerOnly
  \/ Making /\ \E i \in Jobs : Extension!Encode(i) /\ WorkerOnly
  \/ Worker /\ \E i \in Jobs : Extension!EncodeFails(i) /\ WorkerOnly
  \/ Worker /\ \E i \in Jobs : Extension!SaveEncoded(i) /\ WorkerOnly
  \/ Worker /\ \E i \in Jobs : Extension!Post(i) /\ WorkerOnly
  \/ Worker /\ \E i \in Jobs : Extension!RenderWaits(i) /\ WorkerOnly
  \/ Worker /\ \E i \in Jobs : Extension!Rendered(i) /\ WorkerOnly
  \/ Making /\ \E i \in Jobs : Extension!Fetch(i) /\ WorkerOnly
  \/ Worker /\ \E i \in Jobs : Extension!Track(i) /\ WorkerOnly
  \/ Worker /\ \E i \in Jobs : Extension!Search(i) /\ WorkerOnly
  \/ Worker /\ \E i \in Jobs : Extension!Mark(i) /\ WorkerOnly
  \/ Worker /\ \E i \in Jobs : Extension!Trouble(i) /\ WorkerOnly
  \/ Worker /\ \E i \in Jobs : Extension!GiveUp(i) /\ WorkerOnly
  \/ Worker /\ \E i \in Jobs : Extension!Fails(i) /\ WorkerOnly
  \/ Disturbing /\ \E i \in Jobs : Extension!Resume(i) /\ WorkerOnly
  \/ Disturbing /\ \E c \in Clips : Extension!Order(c) /\ WorkerOnly
  \/ Worker /\ \E o \in Asked : Extension!Read(o) /\ WorkerOnly
  \/ Worker /\ \E o \in Asked : Extension!SaveNew(o) /\ WorkerOnly
  \/ Worker /\ \E o \in Asked : Extension!Published(o) /\ WorkerOnly
  \/ Worker /\ \E o \in Asked : Extension!Refused(o) /\ WorkerOnly
  \/ Worker /\ \E f \in Files : Extension!RetryTrack(f) /\ WorkerOnly
  \/ Worker /\ \E f \in Files : Extension!RetrySearch(f) /\ WorkerOnly
  \/ Worker /\ \E f \in Files : Extension!RetryMark(f) /\ WorkerOnly
  \/ Disturbing /\ Extension!Alarm /\ WorkerOnly
  \/ Worker /\ \E a \in Sweeps : \E entry \in sweep[a].jobs : Extension!SweepJob(a, entry) /\ WorkerOnly

BrowserSpec ==
  BrowserInit /\
  [][BrowserNext]_<<concern, siteVars, soundVars, lyricVars, motionVars, extensionVars>>

\* The types of the five modules.
BrowserTypeOK ==
  CASE concern = "page" -> Pages!TypeOK
    [] concern = "sound" -> TypeOK
    [] concern = "lyric" -> Lyrics!TypeOK
    [] concern = "extension" -> Extension!TypeOK
    [] OTHER -> Motion!TypeOK

\* The page: a lyric draft is known to it or about to be.
DraftsAreReported == Pages!DraftsAreReported

\* The page: an editor is ready only once its document has opened a song.
ReadyMeansOpened == Pages!ReadyMeansOpened

\* The page: a draft it knows is never navigated away.
DraftsAreNotReplaced == Pages!DraftsAreNotReplaced

\* In both documents, what is shown as saved is what the server has had for
\* that song, whatever loads and receipts came late.
SavedMeansStored == Lyrics!CleanMeansHeld /\ Motion!CleanMeansHad

\* In both documents, what the server never had of the song on the screen is in
\* the draft of that song, or about to be.
UnsavedWorkIsInDraft == Lyrics!UnsavedTextSurvives /\ Motion!UnsavedPartsAreKept

\* Motion: of several songs asked for, only the last one opens.
OnlyTheLastSongOpens == Motion!OnlyTheLastSongOpens

\* The extension: a download that is over is recorded as it ended.
RecordsAreCorrected == Extension!RecordsAreCorrected
=============================================================================
