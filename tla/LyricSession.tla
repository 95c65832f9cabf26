---------------------------- MODULE LyricSession ----------------------------
(***************************************************************************)
(* The document of the lyric editor (local/common.js): a song is loaded    *)
(* from the server or the browser's cache, edited, saved, and drafted into *)
(* IndexedDB by a timer.  Every await of loadSong and saveAlignment is a   *)
(* step of its own, so that loads, saves, edits and timers interleave.     *)
(***************************************************************************)
EXTENDS Naturals, Sequences

CONSTANTS
  Songs,     \* the songs of the library
  NoSong,    \* no song is open
  NoText,    \* no alignment
  MaxLoads,  \* bound on the songs chosen
  MaxWrites, \* bound on the edits
  MaxSaves   \* bound on the saves of the document

\* A text: the song whose lyrics it is, and the edit that made it.
Texts == [of : Songs, edit : 0..MaxWrites]
TextOrNone == Texts \cup {NoText}
Original(s) == [of |-> s, edit |-> 0]

VARIABLES
  server,  \* each song's text and resource version on the server
  held,    \* every text the server has held for it
  known,   \* file.version, or 0 before the details are loaded
  cache,   \* IndexedDB: the project, with its version
  drafts,  \* IndexedDB: the autosaved draft
  current, \* state.currentFile
  text,    \* state.alignment
  opened,  \* the load of the current song has come to its end
  dirty,   \* state.dirty
  past,    \* state.undoStack
  future,  \* state.redoStack
  loads,   \* the calls of loadSong; the length is songLoadSequence
  timer,   \* the song the draft timer is set for, or NoSong
  saving,  \* saveAlignment
  writes, saves \* edits and saves so far

stored == <<server, held, known, cache, drafts>>
document == <<current, text, opened, dirty, past, future>>
counts == <<writes, saves>>
vars == <<server, held, known, cache, drafts, current, text, opened, dirty, past, future,
          loads, timer, saving, writes, saves>>

Versions == 0..MaxSaves + 1
Stages == {"info", "cache", "fetch", "answered", "draft", "ended"}
Idle == [stage |-> "no", song |-> NoSong, text |-> NoText, newer |-> FALSE, version |-> 0]

TypeOK ==
  /\ server \in [Songs -> [text : Texts, version : Versions]]
  /\ held \in [Songs -> SUBSET Texts] /\ known \in [Songs -> Versions]
  /\ cache \in [Songs -> [text : TextOrNone, version : Versions]]
  /\ drafts \in [Songs -> TextOrNone]
  /\ current \in Songs \cup {NoSong} /\ text \in TextOrNone
  /\ opened \in BOOLEAN /\ dirty \in BOOLEAN
  /\ past \in Seq(TextOrNone) /\ future \in Seq(TextOrNone)
  /\ loads \in Seq([song : Songs, stage : Stages, version : Versions, got : TextOrNone])
  /\ timer \in Songs \cup {NoSong}
  /\ saving \in [stage : {"no", "sent", "committed"}, song : Songs \cup {NoSong},
                 text : TextOrNone, newer : BOOLEAN, version : Versions]
  /\ writes \in 0..MaxWrites /\ saves \in 0..MaxSaves

Init ==
  /\ server = [s \in Songs |-> [text |-> Original(s), version |-> 1]]
  /\ held = [s \in Songs |-> {Original(s)}]
  /\ known = [s \in Songs |-> 0]
  /\ cache = [s \in Songs |-> [text |-> NoText, version |-> 0]]
  /\ drafts = [s \in Songs |-> NoText]
  /\ current = NoSong /\ text = NoText /\ opened = FALSE /\ dirty = FALSE
  /\ past = <<>> /\ future = <<>>
  /\ loads = <<>> /\ timer = NoSong /\ saving = Idle
  /\ writes = 0 /\ saves = 0

-----------------------------------------------------------------------------
(* loadSong.                                                               *)

\* isCurrentLoad.
InTime(l) == l = Len(loads)

Reach(l, stage) == loads' = [loads EXCEPT ![l].stage = stage]

\* The part of loadSong between its first await and the next: the song
\* becomes the current one, its predecessor's text stays for the moment.
Enter(s) ==
  /\ current' = s /\ opened' = FALSE /\ dirty' = FALSE
  /\ past' = <<>> /\ future' = <<>>
  /\ UNCHANGED text

Choosing(s, stage) ==
  Append(loads, [song |-> s, stage |-> stage, version |-> known[s], got |-> NoText])

\* The user has agreed to lose the unsaved lyrics, or there are none.
LoadSong(s) ==
  /\ Len(loads) < MaxLoads
  /\ IF known[s] = 0
     THEN loads' = Choosing(s, "info") /\ UNCHANGED document
     ELSE loads' = Choosing(s, "cache") /\ Enter(s)
  /\ UNCHANGED <<stored, timer, saving, counts>>

InfoArrives(l) ==
  /\ loads[l].stage = "info"
  /\ IF InTime(l)
     THEN LET s == loads[l].song IN
          /\ known' = [known EXCEPT ![s] = server[s].version]
          /\ loads' = [loads EXCEPT ![l].stage = "cache", ![l].version = server[s].version]
          /\ Enter(s)
     ELSE Reach(l, "ended") /\ UNCHANGED <<known, document>>
  /\ UNCHANGED <<server, held, cache, drafts, timer, saving, counts>>

\* The document of the song before stays open, and current.
InfoFails(l) ==
  /\ loads[l].stage = "info"
  /\ Reach(l, "ended")
  /\ UNCHANGED <<stored, document, timer, saving, counts>>

\* getProject: a hit needs the version the file was listed with.
Hit(l) ==
  LET c == cache[loads[l].song] IN c.text # NoText /\ c.version = loads[l].version

CacheAnswers(l) ==
  /\ loads[l].stage = "cache"
  /\ CASE ~InTime(l) -> Reach(l, "ended") /\ UNCHANGED text
       [] InTime(l) /\ Hit(l) -> Reach(l, "draft") /\ text' = cache[loads[l].song].text
       [] OTHER -> Reach(l, "fetch") /\ UNCHANGED text
  /\ UNCHANGED <<stored, current, opened, dirty, past, future, timer, saving, counts>>

\* The server reads the alignment; the answer is on its way.
ServerReads(l) ==
  /\ loads[l].stage = "fetch"
  /\ loads' = [loads EXCEPT ![l].stage = "answered",
                            ![l].got = server[loads[l].song].text,
                            ![l].version = server[loads[l].song].version]
  /\ UNCHANGED <<stored, document, timer, saving, counts>>

Arrives(l) ==
  LET s == loads[l].song IN
  /\ loads[l].stage = "answered"
  /\ IF InTime(l)
     THEN /\ Reach(l, "draft")
          /\ text' = loads[l].got
          /\ cache' = [cache EXCEPT ![s] = [text |-> loads[l].got, version |-> loads[l].version]]
     ELSE Reach(l, "ended") /\ UNCHANGED <<text, cache>>
  /\ UNCHANGED <<server, held, known, drafts, current, opened, dirty, past, future, timer,
                 saving, counts>>

FetchFails(l) ==
  /\ loads[l].stage = "fetch"
  /\ Reach(l, "ended")
  /\ text' = IF InTime(l) THEN NoText ELSE text
  /\ UNCHANGED <<stored, current, opened, dirty, past, future, timer, saving, counts>>

\* markDirty: a newer revision, a draft flag, and the one timer set anew.
MarkDirty ==
  /\ dirty' = TRUE
  /\ saving' = IF saving.stage = "no" THEN saving ELSE [saving EXCEPT !.newer = TRUE]
  /\ timer' = IF current = NoSong THEN timer ELSE current

\* getDraft and the question that follows; without a draft the load ends.
DraftAnswers(l) ==
  LET draft == drafts[loads[l].song]
      over == UNCHANGED <<server, held, known, cache, current, past, future, counts>>
  IN
  /\ loads[l].stage = "draft" /\ Reach(l, "ended") /\ over
  /\ IF ~InTime(l) THEN UNCHANGED <<text, opened, dirty, saving, timer, drafts>>
     ELSE /\ opened' = TRUE
          /\ \/ draft # NoText /\ text' = draft /\ MarkDirty /\ UNCHANGED drafts
             \/ /\ drafts' = [drafts EXCEPT ![loads[l].song] = NoText]
                /\ UNCHANGED <<text, dirty, saving, timer>>

-----------------------------------------------------------------------------
(* The editor.                                                             *)

\* pushUndo, a change, markDirty: in the open document or in what is left
\* of the last one while the next is loading.
Edit ==
  /\ current # NoSong /\ text # NoText /\ writes < MaxWrites
  /\ writes' = writes + 1
  /\ text' = [text EXCEPT !.edit = writes + 1]
  /\ past' = Append(past, text) /\ future' = <<>>
  /\ MarkDirty
  /\ UNCHANGED <<stored, current, opened, loads, saves>>

Front(s) == SubSeq(s, 1, Len(s) - 1)
Back(s) == s[Len(s)]

Undo ==
  /\ past # <<>>
  /\ future' = Append(future, text) /\ text' = Back(past) /\ past' = Front(past)
  /\ MarkDirty
  /\ UNCHANGED <<stored, current, opened, loads, counts>>

Redo ==
  /\ future # <<>>
  /\ past' = Append(past, text) /\ text' = Back(future) /\ future' = Front(future)
  /\ MarkDirty
  /\ UNCHANGED <<stored, current, opened, loads, counts>>

\* The draft timer: the song it was set for, the text of the moment.  Its
\* 1200 ms outlast a read of IndexedDB.
TimerFires ==
  /\ \A l \in 1..Len(loads) : loads[l].stage = "draft" => ~InTime(l)
  /\ timer # NoSong /\ timer' = NoSong
  /\ drafts' = IF text = NoText THEN drafts ELSE [drafts EXCEPT ![timer] = text]
  /\ UNCHANGED <<server, held, known, cache, document, loads, saving, counts>>

-----------------------------------------------------------------------------
(* saveAlignment.                                                          *)

Savable == current # NoSong /\ text # NoText

Save ==
  /\ Savable /\ saving.stage = "no" /\ saves < MaxSaves
  /\ saving' = [stage |-> "sent", song |-> current, text |-> text, newer |-> FALSE, version |-> 0]
  /\ saves' = saves + 1
  /\ UNCHANGED <<stored, document, loads, timer, writes>>

ServerSaves ==
  LET s == saving.song IN
  /\ saving.stage = "sent"
  /\ server' = [server EXCEPT ![s] = [text |-> saving.text, version |-> @.version + 1]]
  /\ held' = [held EXCEPT ![s] = @ \cup {saving.text}]
  /\ saving' = [saving EXCEPT !.stage = "committed", !.version = server[s].version + 1]
  /\ UNCHANGED <<known, cache, drafts, document, loads, timer, counts>>

\* Slip: a receipt that leaves edits unsaved still drops the draft.
DropsDraft(dirtyNow) == TRUE

StillDirty == saving.newer
DraftIsDone(dirtyNow) == ~dirtyNow

\* The answer; without effect once another song is current.
Receipt ==
  LET s == saving.song IN
  /\ saving.stage = "committed" /\ saving' = Idle
  /\ IF current # s THEN UNCHANGED <<dirty, known, cache, drafts>>
     ELSE /\ dirty' = StillDirty
          /\ known' = [known EXCEPT ![s] = saving.version]
          /\ cache' = [cache EXCEPT ![s] = [text |-> saving.text, version |-> saving.version]]
          /\ drafts' = IF DraftIsDone(dirty') THEN [drafts EXCEPT ![s] = NoText] ELSE drafts
  /\ UNCHANGED <<server, held, current, text, opened, past, future, loads, timer, counts>>

\* Refused, or lost before or after the server has saved.
SaveFails ==
  /\ saving.stage # "no" /\ saving' = Idle
  /\ UNCHANGED <<stored, document, loads, timer, counts>>

\* The page is closed: the handler of beforeunload writes the draft.  A
\* crash writes nothing.  Either way the editor starts anew.
Close(crash) ==
  /\ drafts' = IF ~crash /\ dirty /\ current # NoSong /\ text # NoText
               THEN [drafts EXCEPT ![current] = text] ELSE drafts
  /\ known' = [s \in Songs |-> 0]
  /\ current' = NoSong /\ text' = NoText /\ opened' = FALSE /\ dirty' = FALSE
  /\ past' = <<>> /\ future' = <<>>
  /\ loads' = [l \in 1..Len(loads) |-> [loads[l] EXCEPT !.stage = "ended"]]
  /\ timer' = NoSong /\ saving' = Idle
  /\ UNCHANGED <<server, held, cache, counts>>

Next ==
  \/ \E s \in Songs : LoadSong(s)
  \/ \E l \in 1..Len(loads) :
       \/ InfoArrives(l) \/ InfoFails(l) \/ CacheAnswers(l) \/ ServerReads(l)
       \/ Arrives(l) \/ FetchFails(l) \/ DraftAnswers(l)
  \/ Edit \/ Undo \/ Redo \/ TimerFires
  \/ Save \/ ServerSaves \/ Receipt \/ SaveFails
  \/ \E crash \in BOOLEAN : Close(crash)

Spec == Init /\ [][Next]_vars

-----------------------------------------------------------------------------
(* Properties.                                                             *)

\* An open song that is shown as saved shows a text the server has held for
\* this very song, whichever loads and receipts came late (isCurrentLoad,
\* the revision that saveAlignment compares).
CleanMeansHeld ==
  opened /\ ~dirty => text \in held[current]

\* Lyrics the server never held are never only on the screen: they are in
\* the draft of their song, or the timer that writes it is running.
UnsavedTextSurvives ==
  opened /\ text # NoText /\ text \notin held[current] /\ timer # current
  => drafts[current] = text
=============================================================================
