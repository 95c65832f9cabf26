----------------------------- MODULE Workspace -----------------------------
(***************************************************************************)
(* The signed-in page and the two editors it embeds as iframes: the hash   *)
(* navigation of workspace.js, one StudioAdapter per editor, the active    *)
(* song of the store, and the documents inside the frames, which report    *)
(* through studio-bridge.js.                                               *)
(*                                                                         *)
(* Each frame's reports are delivered in order, one task of the page at a  *)
(* time; the page navigates a frame at once.  Between two steps the user   *)
(* may click anything, and a document may load, fail, edit or save.        *)
(***************************************************************************)
EXTENDS Integers, Sequences, FiniteSets

CONSTANTS
  Songs,       \* the songs of the library
  NoSong,      \* no song selected ("" or null)
  LinkSongs,   \* the songs that appear in a hash query
  MaxRequests, \* bound on the iframe navigations
  MaxReports,  \* bound on the undelivered reports of one frame
  MaxGestures  \* bound on what the user does: clicks, edits, signing out

Studios == {"lyric", "motion"}
Pages == Studios \cup {"tasks"}          \* the four other pages behave alike
SongOrNone == Songs \cup {NoSong}
NoRequest == 0                           \* requestId ''

VARIABLES
  signedIn, \* the account is signed in
  active,   \* store.song.activeSong.id
  page,     \* currentActiveSection
  hash,     \* location.hash: a page and the song of its query
  turned,   \* a hashchange event is due
  adapter,  \* the StudioAdapter of each editor
  doc,      \* the document in each frame
  reports,  \* its reports on their way to the page
  requests,  \* iframe navigations so far; the last request id
  gestures   \* the user's gestures so far

vars == <<signedIn, active, page, hash, turned, adapter, doc, reports, requests, gestures>>
pageVars == <<signedIn, active, page, hash, turned>>

Phases == {"idle", "loading", "ready", "error", "blocked"}
AdapterType == [song : SongOrNone, req : 0..MaxRequests, phase : Phases,
                dirty : BOOLEAN, stale : SUBSET Songs, armed : BOOLEAN]

(* A document: the request in its URL, its song and the song it last asked *)
(* for, what it has done with it, the real draft state and the one it last *)
(* told the page, a save under way, and whether it ever opened a song.     *)
Stages == {"blank", "loading", "fetched", "open", "failed"}
DocType == [req : 0..MaxRequests, song : SongOrNone, next : SongOrNone, stage : Stages, dirty : BOOLEAN,
            told : BOOLEAN, saving : BOOLEAN, opened : BOOLEAN]
Blank == [req |-> NoRequest, song |-> NoSong, next |-> NoSong, stage |-> "blank", dirty |-> FALSE,
          told |-> FALSE, saving |-> FALSE, opened |-> FALSE]

Kinds == {"READY", "LOADED", "STATE", "SAVED", "ERROR", "SWITCH"}
ReportType == [kind : Kinds, req : 0..MaxRequests, song : SongOrNone, dirty : BOOLEAN]

TypeOK ==
  /\ signedIn \in BOOLEAN /\ active \in SongOrNone /\ page \in Pages /\ turned \in BOOLEAN
  /\ hash \in [page : Pages, song : SongOrNone]
  /\ adapter \in [Studios -> AdapterType]
  /\ doc \in [Studios -> DocType]
  /\ \A s \in Studios : reports[s] \in Seq(ReportType) /\ Len(reports[s]) <= MaxReports
  /\ requests \in 0..MaxRequests /\ gestures \in 0..MaxGestures

IdleAdapter == [song |-> NoSong, req |-> NoRequest, phase |-> "idle", dirty |-> FALSE,
                stale |-> {}, armed |-> FALSE]

Init ==
  /\ signedIn = TRUE /\ active = NoSong /\ page = "tasks" /\ turned = FALSE
  /\ hash = [page |-> "tasks", song |-> NoSong]
  /\ adapter = [s \in Studios |-> IdleAdapter]
  /\ doc = [s \in Studios |-> Blank]
  /\ reports = [s \in Studios |-> <<>>]
  /\ requests = 0 /\ gestures = 0

-----------------------------------------------------------------------------
(* The guard on navigation.                                                *)

Objecting(song) == {e \in Studios : adapter[e].dirty /\ adapter[e].song # song}
FirstOf(S) == IF "lyric" \in S THEN {"lyric"} ELSE S

LyricsUnsaved(s, song) ==
  s = "motion" /\ adapter["lyric"].dirty /\ adapter["lyric"].song = song

\* m2vCanOpenStudio: the editor whose draft keeps studio s from song, for
\* each way the user may answer its questions; {} lets the user through.
Verdicts(s, song) ==
  {{}} \cup (IF Objecting(song) # {} THEN {FirstOf(Objecting(song))} ELSE {})
       \cup (IF LyricsUnsaved(s, song) THEN {{"lyric"}} ELSE {})

Blocked(S) ==
  [e \in Studios |-> IF e \in S THEN [adapter[e] EXCEPT !.phase = "blocked"] ELSE adapter[e]]

-----------------------------------------------------------------------------
(* StudioAdapter.activate.                                                 *)

Reloads(s, song, retry) ==
  adapter[s].song # song \/ retry \/ song \in adapter[s].stale

\* Slip: only a retry is held back; the confirm has settled the rest.
HeldBackOnRetry(s, song, retry) == retry /\ adapter[s].dirty
HeldBack(s, song, retry) == Reloads(s, song, retry) /\ adapter[s].dirty

Loading(s, song) ==
  [adapter[s] EXCEPT !.song = song, !.req = requests + 1, !.phase = "loading", !.armed = TRUE]

\* A dirty document may ask to stay (its beforeunload handler); the page
\* has moved on to the new request all the same.
Unload(s, song) ==
  \E stay \in {FALSE, doc[s].dirty} :
    doc' = IF stay THEN doc
           ELSE [doc EXCEPT ![s] = [Blank EXCEPT !.req = requests + 1, !.next = song,
                                                 !.song = IF s = "lyric" THEN song ELSE NoSong,
                                                 !.stage = "loading"]]

Activate(s, song, retry) ==
  IF HeldBack(s, song, retry) THEN
    /\ adapter' = Blocked({s})
    /\ UNCHANGED <<doc, requests>>
  ELSE IF ~Reloads(s, song, retry) /\ adapter[s].phase # "idle" THEN
    UNCHANGED <<adapter, doc, requests>>
  ELSE
    /\ requests < MaxRequests
    /\ requests' = requests + 1
    /\ adapter' = [adapter EXCEPT ![s] = Loading(s, song)]
    /\ Unload(s, song)

\* navigate with location.hash = h.
Navigate(h) ==
  LET chosen == IF h.song # NoSong THEN h.song ELSE active
  IN \E refused \in IF h.page \in Studios THEN Verdicts(h.page, chosen) ELSE {{}} :
     IF refused # {} THEN
       /\ hash' = [page |-> page, song |-> NoSong]
       /\ turned' = (hash' # h)
       /\ adapter' = Blocked(refused)
       /\ UNCHANGED <<active, page, doc, requests>>
     ELSE
       /\ active' = chosen
       /\ page' = h.page /\ hash' = h /\ turned' = FALSE
       /\ IF h.page \in Studios THEN Activate(h.page, chosen, FALSE)
          ELSE UNCHANGED <<adapter, doc, requests>>

\* openLyricStudio and openMotionStudio, from the library, a studio tab or
\* a frame; then m2vNavigateWorkspace, at once when the hash stays.
Open(s, song) ==
  LET chosen == IF song # NoSong THEN song ELSE active
      target == [page |-> s, song |-> NoSong]
  IN \E refused \in Verdicts(s, chosen) :
     IF refused # {} THEN
       /\ adapter' = Blocked(refused)
       /\ UNCHANGED <<active, page, hash, turned, doc, requests>>
     ELSE IF hash = target THEN
       /\ active' = chosen
       /\ page' = s /\ hash' = target /\ turned' = FALSE
       \* navigate asks again, with the same question
       /\ Activate(s, chosen, FALSE)
     ELSE
       /\ active' = chosen
       /\ hash' = target /\ turned' = TRUE
       /\ UNCHANGED <<page, adapter, doc, requests>>

-----------------------------------------------------------------------------
(* The user at the page.                                                   *)

Gesture == gestures < MaxGestures /\ gestures' = gestures + 1

OpenFromPage(s, song) ==
  /\ signedIn /\ Gesture
  /\ Open(s, song)
  /\ UNCHANGED <<signedIn, reports>>

\* A sidebar link, the back button or an address with a song in it.
ChooseHash(h) ==
  /\ signedIn /\ Gesture /\ h # hash
  /\ hash' = h /\ turned' = TRUE
  /\ UNCHANGED <<signedIn, active, page, adapter, doc, reports, requests>>

HashChange ==
  /\ turned
  /\ Navigate(hash)
  /\ UNCHANGED <<signedIn, reports, gestures>>

RetryLoad(s) ==
  /\ signedIn /\ Gesture /\ adapter[s].phase = "error"
  /\ Activate(s, adapter[s].song, TRUE)
  /\ UNCHANGED <<pageVars, reports>>

\* The 30 seconds of a request without an answer.
Timeout(s) ==
  /\ adapter[s].armed
  /\ adapter' = [adapter EXCEPT ![s].phase = "error", ![s].armed = FALSE]
  /\ UNCHANGED <<pageVars, doc, reports, requests, gestures>>

\* logout: the click, or a request that came back unauthorized.
Logout ==
  /\ signedIn /\ Gesture
  /\ signedIn' = FALSE /\ active' = NoSong
  /\ adapter' = [s \in Studios |-> IdleAdapter]
  /\ doc' = [s \in Studios |-> Blank]
  /\ UNCHANGED <<page, hash, turned, reports, requests>>

Login ==
  /\ ~signedIn
  /\ signedIn' = TRUE
  /\ UNCHANGED <<active, page, hash, turned, adapter, doc, reports, requests, gestures>>

-----------------------------------------------------------------------------
(* The documents in the frames.                                            *)

Room(s) == Len(reports[s]) < MaxReports
Report(s, kind, d) == [kind |-> kind, req |-> d.req, song |-> d.song, dirty |-> d.told]
Send(s, m) == reports' = [reports EXCEPT ![s] = Append(@, m)]
Becomes(s, d) == doc' = [doc EXCEPT ![s] = d]
Elsewhere == UNCHANGED <<pageVars, adapter, requests>>

\* The script has run: READY.  Without a song the document is open.
Boot(s) ==
  LET d == doc[s] IN
  /\ d.stage = "loading" /\ d.next = NoSong /\ Room(s)
  /\ Becomes(s, [d EXCEPT !.stage = "open"])
  /\ Send(s, Report(s, "READY", d))
  /\ Elsewhere /\ UNCHANGED gestures

\* The server has answered the Motion studio, which leaves its last song
\* only now; it refuses a request without a token.
Fetch ==
  LET d == doc["motion"] IN
  /\ signedIn /\ d.stage = "loading" /\ d.next # NoSong
  /\ Becomes("motion", [d EXCEPT !.stage = "fetched", !.song = d.next, !.dirty = FALSE])
  /\ Elsewhere /\ UNCHANGED <<reports, gestures>>

\* LOADED, with a restored draft or without.  The Motion studio reports a
\* restored draft, and at once a loaded song without one.
Loaded(s, draft) ==
  LET d == [doc[s] EXCEPT !.stage = "open", !.opened = TRUE, !.dirty = draft,
                          !.told = s = "lyric" /\ draft]
  IN
  /\ signedIn /\ doc[s].next # NoSong /\ Room(s)
  /\ doc[s].stage = IF s = "lyric" THEN "loading" ELSE "fetched"
  /\ Becomes(s, d)
  /\ Send(s, Report(s, "LOADED", d))
  /\ Elsewhere /\ UNCHANGED gestures

\* ERROR about the song that was asked for.  The lyric editor has already
\* given up its last song, the Motion studio keeps it.
LoadFails(s) ==
  LET d == doc[s] IN
  /\ d.stage = "loading" /\ d.next # NoSong /\ Room(s)
  /\ Becomes(s, [d EXCEPT !.stage = IF s = "motion" /\ d.song # NoSong THEN "open"
                                    ELSE "failed"])
  /\ Send(s, Report(s, "ERROR", [d EXCEPT !.song = d.next]))
  /\ Elsewhere /\ UNCHANGED gestures

\* bridge.state: told only when something changed.
Tell(s, d) ==
  /\ Becomes(s, [d EXCEPT !.told = d.dirty])
  /\ IF d.told = d.dirty THEN UNCHANGED reports
     ELSE Room(s) /\ Send(s, Report(s, "STATE", [d EXCEPT !.told = d.dirty]))

Edit(s) ==
  /\ signedIn /\ Gesture /\ doc[s].stage = "open" /\ doc[s].song # NoSong
  /\ ~doc[s].dirty
  /\ Tell(s, [doc[s] EXCEPT !.dirty = TRUE])
  /\ Elsewhere

\* The Motion studio refreshes its save state when the audio has arrived.
Refresh ==
  /\ doc["motion"].stage = "open" /\ doc["motion"].told # doc["motion"].dirty
  /\ Tell("motion", doc["motion"])
  /\ Elsewhere /\ UNCHANGED gestures

\* A save: the request and the receipt.
Save(s) ==
  LET d == doc[s] IN
  /\ signedIn /\ d.stage = "open" /\ d.dirty /\ ~d.saving
  /\ Becomes(s, [d EXCEPT !.saving = TRUE])
  /\ Elsewhere /\ UNCHANGED <<reports, gestures>>

\* The receipt, with newer edits still unsaved or without.
Receipt(s, newer) ==
  LET d == [doc[s] EXCEPT !.saving = FALSE, !.dirty = newer, !.told = newer] IN
  /\ doc[s].saving /\ Room(s)
  /\ Becomes(s, d) /\ Send(s, Report(s, "SAVED", d))
  /\ Elsewhere /\ UNCHANGED gestures

SaveFails(s) ==
  /\ doc[s].saving
  /\ Tell(s, [doc[s] EXCEPT !.saving = FALSE])
  /\ Elsewhere /\ UNCHANGED gestures

\* The song menu inside an editor.  A draft is discarded when the user
\* agrees; nothing is reported until the next song is there.  The receipt of
\* a save under way is dropped.
Pick(s, song) ==
  LET d == doc[s] IN
  /\ signedIn /\ Gesture /\ d.stage \in {"open", "failed"} /\ song # d.song
  /\ Becomes(s, [d EXCEPT !.next = song, !.stage = "loading", !.saving = FALSE,
                          !.song = IF s = "lyric" THEN song ELSE @,
                          !.dirty = s # "lyric" /\ @])
  /\ Elsewhere /\ UNCHANGED reports

\* The link to the other studio: M2V_SWITCH_STUDIO.
Cross(s) ==
  /\ signedIn /\ Gesture /\ doc[s].stage = "open" /\ Room(s)
  /\ Send(s, Report(s, "SWITCH", doc[s]))
  /\ Elsewhere /\ UNCHANGED doc

-----------------------------------------------------------------------------
(* The page receives a report: first the adapter, then workspace.js.       *)

\* Slip: any report of the frame is taken for the current document's.
CurrentFromFrame(s, m) == m.kind # "SWITCH"
Current(s, m) == m.kind # "SWITCH" /\ m.req = adapter[s].req

\* Slip: a phase nothing else knows.
ReadyMisnamed(a) == [a EXCEPT !.phase = "open", !.armed = FALSE]
Ready(a) == [a EXCEPT !.phase = "ready", !.armed = FALSE]

\* Slip: only LOADED carries the draft flag.
NotedOnLoad(a, m) == IF m.kind = "LOADED" THEN [a EXCEPT !.dirty = m.dirty] ELSE a
Noted(a, m) == [a EXCEPT !.dirty = m.dirty]

\* receive, of a report of the current request about the adapter's song.
Received(s, m) ==
  LET a == adapter[s]
      told == Noted(a, m)
      calm == IF ~told.dirty /\ told.phase = "blocked" THEN [told EXCEPT !.phase = "ready"]
              ELSE told
  IN CASE m.kind = "READY"  -> IF a.song = NoSong THEN Ready(a) ELSE a
       [] m.kind = "LOADED" ->
            Ready([told EXCEPT !.song = m.song, !.stale = @ \ {m.song}])
       [] m.kind \in {"STATE", "SAVED", "ERROR"} /\ m.song # a.song -> a
       [] m.kind = "ERROR" /\ m.song = a.song -> [a EXCEPT !.phase = "error", !.armed = FALSE]
       [] OTHER -> calm

\* A saved lyric marks the Motion design of its song as stale.
Invalidated(s, m, A) ==
  IF s = "lyric" /\ m.kind = "SAVED" /\ m.song = adapter[s].song /\ m.song # NoSong
  THEN [A EXCEPT !["motion"].stale = @ \cup {m.song}]
  ELSE A

Deliver(s) ==
  /\ reports[s] # <<>> /\ Head(reports[s]).kind # "SWITCH"
  /\ LET m == Head(reports[s]) IN
     IF Current(s, m)
     THEN /\ adapter' = Invalidated(s, m, [adapter EXCEPT ![s] = Received(s, m)])
          /\ active' = IF m.kind = "LOADED" /\ m.song # NoSong THEN m.song ELSE active
     ELSE UNCHANGED <<adapter, active>>
  /\ reports' = [reports EXCEPT ![s] = Tail(@)]
  /\ UNCHANGED <<signedIn, page, hash, turned, doc, requests, gestures>>

Other(s) == IF s = "lyric" THEN "motion" ELSE "lyric"

DeliverSwitch(s) ==
  /\ reports[s] # <<>> /\ Head(reports[s]).kind = "SWITCH"
  /\ Open(Other(s), Head(reports[s]).song)
  /\ reports' = [reports EXCEPT ![s] = Tail(@)]
  /\ UNCHANGED <<signedIn, gestures>>

-----------------------------------------------------------------------------
Next ==
  \/ \E s \in Studios, song \in SongOrNone : OpenFromPage(s, song)
  \/ HashChange
  \/ \E h \in [page : Pages, song : LinkSongs \cup {NoSong}] : ChooseHash(h)
  \/ \E s \in Studios :
       \/ RetryLoad(s) \/ Timeout(s)
       \/ Boot(s) \/ LoadFails(s) \/ Edit(s)
       \/ Save(s) \/ SaveFails(s) \/ Cross(s)
       \/ Deliver(s) \/ DeliverSwitch(s)
       \/ \E b \in BOOLEAN : Loaded(s, b) \/ Receipt(s, b)
       \/ \E song \in Songs : Pick(s, song)
  \/ Fetch \/ Refresh \/ Logout \/ Login

Spec == Init /\ [][Next]_vars
-----------------------------------------------------------------------------
(* Properties.                                                             *)

Undelivered(s, kind) ==
  {i \in 1..Len(reports[s]) : reports[s][i].kind = kind /\ reports[s][i].req = doc[s].req}

\* A frame is never navigated away from a draft the page could have known:
\* whatever the user confirms, the document that is replaced is clean, or
\* its report has not arrived, or it has not been sent (a Motion draft that
\* was restored is told when the audio is there).  studio-adapters.js
\* checks its dirty flag before it sets frame.src.
DraftsAreNotReplaced ==
  [][\A s \in Studios :
       doc[s].dirty /\ doc'[s].req > doc[s].req
       => \/ Undelivered(s, "STATE") # {} \/ Undelivered(s, "LOADED") # {}
          \/ Undelivered(s, "SAVED") # {}
          \/ ~doc[s].told
          \/ doc[s].req # adapter[s].req
          \/ doc[s].stage # "open"]_vars

\* A lyric draft is always known to the page or about to be: the lyric
\* editor's markDirty, its bridge and the adapter's receive never lose one.
DraftsAreReported ==
  doc["lyric"].dirty /\ doc["lyric"].stage = "open" /\ doc["lyric"].req = adapter["lyric"].req
  => \/ adapter["lyric"].dirty
     \/ \E i \in 1..Len(reports["lyric"]) : reports["lyric"][i].dirty

\* The page never takes an editor for ready before the document of its own
\* request has opened a song, however many documents came before it and
\* whatever they still report (the request id in receive).
ReadyMeansOpened ==
  \A s \in Studios :
    adapter[s].phase = "ready" /\ adapter[s].song # NoSong
    => doc[s].opened \/ doc[s].req # adapter[s].req
=============================================================================
