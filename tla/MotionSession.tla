--------------------------- MODULE MotionSession ---------------------------
(***************************************************************************)
(* The document of the Motion studio (motion/src/studio.ts): the design    *)
(* and the identity of the selected song, their drafts in localStorage,    *)
(* the two requests of a save, the audio that arrives after the design,    *)
(* and the queue that encodes videos in the browser.                       *)
(***************************************************************************)
EXTENDS Naturals, Sequences

CONSTANTS
  Songs,      \* the songs of the library
  NoSong,     \* no song is selected
  NoDraft,    \* no draft of a song
  MaxOpens,   \* bound on the songs chosen
  MaxChanges, \* bound on the edits
  MaxQueues   \* bound on the clicks on Export

Parts == {"design", "identity"}
Values == [Parts -> 0..MaxChanges]   \* 0 is what the song came with
Flags == [Parts -> BOOLEAN]

VARIABLES
  remote,   \* the server's design and identity of each song
  had,      \* every value the server has had
  kept,     \* the drafts in localStorage
  selected, \* the selected song
  shown,    \* design and project.song_identity
  changed,  \* dirty or settingsDirty, and identityDirty
  opens,    \* the calls of load; the length is loadSequence
  due,      \* draftDebounceTimer is set
  sending,  \* saveAll
  audioOf,  \* the song of audioObjectUrl
  running,  \* exportQueueRunning
  queues,   \* the calls of exportVideo
  encoded,  \* the videos made: the project's song and the audio's
  changes   \* edits so far

server == <<remote, had>>
page == <<selected, shown, changed>>
exports == <<running, queues, encoded>>
vars == <<remote, had, kept, selected, shown, changed, opens, due, sending, audioOf,
          running, queues, encoded, changes>>

NotSending == [song |-> NoSong, open |-> 0, values |-> [p \in Parts |-> 0],
               part |-> [p \in Parts |-> "idle"]]

TypeOK ==
  /\ remote \in [Songs -> Values] /\ had \in [Songs -> [Parts -> SUBSET (0..MaxChanges)]]
  /\ kept \in [Songs -> Values \cup {NoDraft}]
  /\ selected \in Songs \cup {NoSong} /\ shown \in Values /\ changed \in Flags
  /\ opens \in Seq([song : Songs, stage : {"project", "answered", "audio", "ended"}, got : Values])
  /\ due \in BOOLEAN /\ running \in BOOLEAN
  /\ sending \in [song : Songs \cup {NoSong}, open : 0..MaxOpens, values : Values,
                  part : [Parts -> {"idle", "sent", "committed", "settled"}]]
  /\ audioOf \in Songs \cup {NoSong}
  /\ queues \in Seq([stage : {"saving", "pricing", "encoding", "ended"}, song : Songs \cup {NoSong}])
  /\ encoded \subseteq [project : Songs, audio : Songs \cup {NoSong}]
  /\ changes \in 0..MaxChanges

Init ==
  /\ remote = [s \in Songs |-> [p \in Parts |-> 0]]
  /\ had = [s \in Songs |-> [p \in Parts |-> {0}]]
  /\ kept = [s \in Songs |-> NoDraft]
  /\ selected = NoSong /\ shown = [p \in Parts |-> 0] /\ changed = [p \in Parts |-> FALSE]
  /\ opens = <<>> /\ due = FALSE /\ sending = NotSending /\ audioOf = NoSong
  /\ running = FALSE /\ queues = <<>> /\ encoded = {} /\ changes = 0

-----------------------------------------------------------------------------
(* The save state and the draft.                                           *)

Saving == sending.song # NoSong

Unsaved(flags) == \E p \in Parts : flags[p]

\* updateSaveState, after every change and every message: a draft falls due,
\* or a document that is saved drops its draft.
UpdateSaveState(song, flags, stillSaving) ==
  IF Unsaved(flags) /\ song # NoSong
  THEN due' = TRUE /\ UNCHANGED kept
  ELSE IF song # NoSong /\ ~stillSaving
  THEN due' = FALSE /\ kept' = [kept EXCEPT ![song] = NoDraft]
  ELSE UNCHANGED <<due, kept>>

\* The timer looks at the song and the flags of the moment.
KeepDraft ==
  /\ due /\ due' = FALSE
  /\ kept' = IF selected # NoSong /\ Unsaved(changed)
             THEN [kept EXCEPT ![selected] = shown] ELSE kept
  /\ UNCHANGED <<server, page, opens, sending, audioOf, exports, changes>>

\* Every control of the studio: a value nobody had before.
Change(p) ==
  /\ selected # NoSong /\ changes < MaxChanges
  /\ changes' = changes + 1
  /\ shown' = [shown EXCEPT ![p] = changes + 1]
  /\ changed' = [changed EXCEPT ![p] = TRUE]
  /\ UpdateSaveState(selected, changed', Saving)
  /\ UNCHANGED <<server, selected, opens, sending, audioOf, exports>>

-----------------------------------------------------------------------------
(* load.                                                                   *)

NeverLate(l) == TRUE
InTime(l) == l = Len(opens)

Pass(l, stage) == opens' = [opens EXCEPT ![l].stage = stage]

\* The queue keeps its song; a draft is given up with the user's consent.
Load(s) ==
  /\ Len(opens) < MaxOpens
  /\ running => s = selected
  /\ opens' = Append(opens, [song |-> s, stage |-> "project", got |-> remote[s]])
  /\ UpdateSaveState(selected, changed, Saving)
  /\ UNCHANGED <<server, page, sending, audioOf, exports, changes>>

\* The server reads the project; the answer is on its way.
ServerReads(l) ==
  /\ opens[l].stage = "project"
  /\ opens' = [opens EXCEPT ![l].stage = "answered", ![l].got = remote[opens[l].song]]
  /\ UNCHANGED <<server, kept, page, due, sending, audioOf, exports, changes>>

\* A draft comes back when its design is not the server's.
Restored(s, got) == kept[s] # NoDraft /\ kept[s]["design"] # got["design"]

Turned(l) == ~InTime(l) \/ (running /\ opens[l].song # selected)

\* The answer: the song is selected.  A design without posters gets them
\* at once, which is an edit.
ProjectArrives(l) ==
  LET s == opens[l].song
      got == opens[l].got
      values == IF Restored(s, got) THEN kept[s] ELSE got
      flags == [p \in Parts |-> Restored(s, got)]
  IN
  /\ opens[l].stage = "answered" /\ ~Turned(l)
  /\ Pass(l, "audio")
  /\ selected' = s
  /\ \/ shown' = values /\ changed' = flags /\ UNCHANGED changes
     \/ /\ values["design"] = 0 /\ changes < MaxChanges
        /\ changes' = changes + 1
        /\ shown' = [values EXCEPT !["design"] = changes + 1]
        /\ changed' = [flags EXCEPT !["design"] = TRUE]
  /\ UpdateSaveState(s, changed', Saving)
  /\ UNCHANGED <<server, sending, audioOf, exports>>

ProjectLate(l) ==
  /\ opens[l].stage = "answered" /\ Turned(l)
  /\ Pass(l, "ended")
  /\ UNCHANGED <<server, kept, page, due, sending, audioOf, exports, changes>>

LoadFails(l) ==
  /\ opens[l].stage = "project"
  /\ Pass(l, "ended")
  /\ IF InTime(l) THEN UpdateSaveState(selected, changed, Saving) ELSE UNCHANGED <<due, kept>>
  /\ UNCHANGED <<server, page, sending, audioOf, exports, changes>>

\* The audio replaces that of the song before.  A download that fails falls
\* back to the address, in time or not.
AudioArrives(l, fails) ==
  /\ opens[l].stage = "audio" /\ Pass(l, "ended")
  /\ IF InTime(l) \/ fails
     THEN audioOf' = opens[l].song /\ UpdateSaveState(selected, changed, Saving)
     ELSE UNCHANGED <<audioOf, due, kept>>
  /\ UNCHANGED <<server, page, sending, exports, changes>>

-----------------------------------------------------------------------------
(* saveAll: one request for each part that is changed.                     *)

BeginSaving ==
  /\ sending' = [song |-> selected, open |-> Len(opens), values |-> shown,
                 part |-> [p \in Parts |-> IF changed[p] THEN "sent" ELSE "settled"]]
  /\ UpdateSaveState(selected, changed, TRUE)

SaveAll ==
  /\ ~running /\ selected # NoSong /\ ~Saving /\ Unsaved(changed)
  /\ BeginSaving
  /\ UNCHANGED <<server, page, opens, audioOf, exports, changes>>

ServerSaves(p) ==
  LET s == sending.song IN
  /\ sending.part[p] = "sent"
  /\ sending' = [sending EXCEPT !.part[p] = "committed"]
  /\ remote' = [remote EXCEPT ![s][p] = sending.values[p]]
  /\ had' = [had EXCEPT ![s][p] = @ \cup {sending.values[p]}]
  /\ UNCHANGED <<kept, page, opens, due, audioOf, exports, changes>>

\* Slip: newer edits are taken for saved.
SameSong(p) == selected = sending.song /\ Len(opens) = sending.open
Unaltered(p) ==
  selected = sending.song /\ Len(opens) = sending.open /\ shown[p] = sending.values[p]

Receipt(p) ==
  /\ sending.part[p] = "committed"
  /\ sending' = [sending EXCEPT !.part[p] = "settled"]
  /\ changed' = IF Unaltered(p) THEN [changed EXCEPT ![p] = FALSE] ELSE changed
  /\ UNCHANGED <<server, kept, selected, shown, opens, due, audioOf, exports, changes>>

\* Refused, or lost before or after the server has saved.
PartFails(p) ==
  /\ sending.part[p] \in {"sent", "committed"}
  /\ sending' = [sending EXCEPT !.part[p] = "settled"]
  /\ UNCHANGED <<server, kept, page, opens, due, audioOf, exports, changes>>

SaveEnds ==
  /\ Saving /\ \A p \in Parts : sending.part[p] = "settled"
  /\ sending' = NotSending
  /\ UpdateSaveState(selected, changed, FALSE)
  /\ UNCHANGED <<server, page, opens, audioOf, exports, changes>>

-----------------------------------------------------------------------------
(* exportVideo, with the encoder of the browser.                           *)

Queue(q, stage) == queues' = [queues EXCEPT ![q].stage = stage]

\* The click: a changed design is saved first, unless a save is under way.
Export ==
  /\ ~running /\ selected # NoSong /\ Len(queues) < MaxQueues
  /\ IF Unsaved(changed) /\ ~Saving
     THEN /\ queues' = Append(queues, [stage |-> "saving", song |-> NoSong])
          /\ BeginSaving /\ UNCHANGED running
     ELSE /\ queues' = Append(queues, [stage |-> "pricing", song |-> selected])
          /\ running' = TRUE /\ UNCHANGED <<sending, kept, due>>
  /\ UNCHANGED <<server, page, opens, audioOf, encoded, changes>>

\* After the save, whether it succeeded or not; nobody looks whether
\* another queue has started.
ExportStarts(q) ==
  /\ queues[q].stage = "saving" /\ ~Saving
  /\ queues' = [queues EXCEPT ![q].stage = "pricing", ![q].song = selected]
  /\ running' = TRUE
  /\ UNCHANGED <<server, kept, page, opens, due, sending, audioOf, encoded, changes>>

\* refreshMotionPrice, then the price, the balance and the unlock.
PriceAnswers(q) ==
  /\ queues[q].stage = "pricing" /\ selected = queues[q].song
  /\ Queue(q, "encoding")
  /\ UNCHANGED <<server, kept, page, opens, due, sending, audioOf, running, encoded, changes>>

\* One video: the project of the queue, the audio of the moment.
Encode(q) ==
  /\ queues[q].stage = "encoding"
  /\ encoded' = encoded \cup {[project |-> queues[q].song, audio |-> audioOf]}
  /\ UNCHANGED <<server, kept, page, opens, due, sending, audioOf, running, queues, changes>>

\* Done, cancelled, or given up for a song or a price that changed.
ExportEnds(q) ==
  /\ queues[q].stage \in {"pricing", "encoding"}
  /\ Queue(q, "ended")
  /\ running' = FALSE
  /\ UNCHANGED <<server, kept, page, opens, due, sending, audioOf, encoded, changes>>

\* The page is closed, with the handler of beforeunload, or crashes.
Close(crash) ==
  /\ kept' = IF ~crash /\ selected # NoSong /\ Unsaved(changed)
             THEN [kept EXCEPT ![selected] = shown] ELSE kept
  /\ selected' = NoSong /\ shown' = [p \in Parts |-> 0] /\ changed' = [p \in Parts |-> FALSE]
  /\ opens' = [l \in 1..Len(opens) |-> [opens[l] EXCEPT !.stage = "ended"]]
  /\ queues' = [q \in 1..Len(queues) |-> [queues[q] EXCEPT !.stage = "ended"]]
  /\ due' = FALSE /\ sending' = NotSending /\ audioOf' = NoSong /\ running' = FALSE
  /\ UNCHANGED <<server, encoded, changes>>

Next ==
  \/ KeepDraft \/ SaveAll \/ SaveEnds \/ Export
  \/ \E s \in Songs : Load(s)
  \/ \E p \in Parts : Change(p) \/ ServerSaves(p) \/ Receipt(p) \/ PartFails(p)
  \/ \E l \in 1..Len(opens) :
       \/ ServerReads(l) \/ ProjectArrives(l) \/ ProjectLate(l) \/ LoadFails(l)
       \/ \E fails \in BOOLEAN : AudioArrives(l, fails)
  \/ \E q \in 1..Len(queues) : ExportStarts(q) \/ PriceAnswers(q) \/ Encode(q) \/ ExportEnds(q)
  \/ \E crash \in BOOLEAN : Close(crash)

Spec == Init /\ [][Next]_vars

-----------------------------------------------------------------------------
(* Properties.                                                             *)

\* A design or an identity that is shown as saved is one the server has had
\* for the selected song, whatever was edited, switched or restored while
\* the two requests of a save were under way.
CleanMeansHad ==
  selected # NoSong
  => \A p \in Parts : ~changed[p] => shown[p] \in had[selected][p]

\* What the server never had is in the draft of its song, or about to be:
\* a save that settles one part of the document keeps the draft of the other.
UnsavedPartsAreKept ==
  selected # NoSong /\ ~due /\ (\E p \in Parts : shown[p] \notin had[selected][p])
  => kept[selected] = shown

\* Of several songs asked for, only the last one opens, in whatever order
\* the projects arrive.
OnlyTheLastSongOpens ==
  [][selected' # selected /\ selected' # NoSong => selected' = opens[Len(opens)].song]_vars

(* What the documentation says and the code does not do.                   *)

\* docs/MOTION_DESIGN.md: exports use a snapshot of the selected song.  So a
\* video never has the audio of another song than the one it shows.
ExportsAreOfOneSong ==
  \A video \in encoded : video.audio \in {video.project, NoSong}
=============================================================================
