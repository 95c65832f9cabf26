----------------------------- MODULE SiteProofs -----------------------------
(***************************************************************************)
(* Theorems about the page with its frames and about the extension, as     *)
(* MCBrowser composes them, for any set of songs and clips, any number of  *)
(* navigations, reports and gestures, and of jobs, downloads and deaths.   *)
(***************************************************************************)
EXTENDS BrowserProofs, MediaArbiterProofs

-----------------------------------------------------------------------------
(* The page.                                                               *)

\* The reports of the document in the frame that carry its draft flag.
Tells == {"LOADED", "STATE", "SAVED"}
Telling(s) ==
  {i \in 1..Len(reports[s]) : reports[s][i].req = doc[s].req /\ reports[s][i].kind \in Tells}
Opening(s) == {i \in Telling(s) : reports[s][i].kind = "LOADED"}

IsLast(i, S) == i \in S /\ \A j \in S : j <= i

\* A document shows a song: the lyric editor's only when it is open, the
\* studio's until its server has answered about the next one.
Shows(s, d) ==
  /\ d.song # NoSong
  /\ d.stage = "open" \/ (s = "motion" /\ d.stage = "loading")

\* What the page knows of the document's song and draft flag, once the reports
\* on their way have arrived, is what the document has told.
SongKnown(s) ==
  IF Opening(s) = {} THEN adapter[s].song = doc[s].song
  ELSE \E i \in Opening(s) : IsLast(i, Opening(s)) /\ reports[s][i].song = doc[s].song
DraftKnown(s) ==
  IF Telling(s) = {} THEN adapter[s].dirty = doc[s].told
  ELSE \E i \in Telling(s) : /\ IsLast(i, Telling(s))
                             /\ reports[s][i].song = doc[s].song
                             /\ reports[s][i].dirty = doc[s].told
KnownFrame(s) ==
  Shows(s, doc[s]) /\ doc[s].req = adapter[s].req => SongKnown(s) /\ DraftKnown(s)

\* Requests are numbered as they are made, and a report has the number of a
\* document that was there.
Numbered(s) ==
  /\ doc[s].req <= requests /\ adapter[s].req <= requests
  /\ doc[s].stage # "blank" => doc[s].req > 0
  /\ \A i \in 1..Len(reports[s]) : 0 < reports[s][i].req /\ reports[s][i].req <= requests

\* What a document has come to.
Staged(s, d) ==
  /\ d.stage = "loading" /\ d.next = NoSong => d.song = NoSong
  /\ s = "lyric" /\ d.stage = "loading" => d.song = d.next
  /\ s = "motion" /\ d.stage = "failed" => d.song = NoSong
  /\ d.stage = "fetched" => d.song = d.next /\ d.next # NoSong
  /\ Shows(s, d) \/ d.told \/ d.dirty => d.opened
  /\ d.dirty => d.song # NoSong
  /\ d.saving => d.stage = "open" /\ d.song # NoSong
  /\ s = "lyric" /\ d.stage = "open" /\ d.song # NoSong => d.told = d.dirty

\* What speaks of an open document comes from one.
Grounded(s) ==
  /\ \A i \in 1..Len(reports[s]) :
       /\ reports[s][i].req = doc[s].req
       /\ reports[s][i].kind = "LOADED" \/ reports[s][i].dirty
       => doc[s].opened
  /\ doc[s].req = adapter[s].req /\ adapter[s].dirty => doc[s].opened
  /\ adapter[s].phase = "ready" /\ adapter[s].song # NoSong /\ doc[s].req = adapter[s].req
     => doc[s].opened

\* The page holds an editor back only for a draft it knows.
HeldFrame(s) ==
  /\ adapter[s].phase = "blocked" => adapter[s].dirty
  /\ adapter[s].phase = "idle" => ~adapter[s].dirty /\ adapter[s].req = 0

FrameTyped(s) ==
  /\ adapter[s] \in Pages!AdapterType /\ doc[s] \in Pages!DocType
  /\ reports[s] \in Seq(Pages!ReportType) /\ Len(reports[s]) <= MaxReports

FrameInv(s) ==
  /\ FrameTyped(s) /\ KnownFrame(s) /\ Numbered(s) /\ Staged(s, doc[s]) /\ Grounded(s) /\ HeldFrame(s)

PageTyped ==
  /\ signedIn \in BOOLEAN /\ active \in Pages!SongOrNone /\ page \in Pages!Pages /\ turned \in BOOLEAN
  /\ hash \in [page : Pages!Pages, song : Pages!SongOrNone]
  /\ requests \in 0..MaxRequests /\ gestures \in 0..MaxGestures
  /\ adapter \in [Studios -> Pages!AdapterType] /\ doc \in [Studios -> Pages!DocType]
  /\ reports \in [Studios -> Seq(Pages!ReportType)]

PageInv == PageTyped /\ \A s \in Studios : FrameInv(s)

LEMMA PageHolds == PageInv => Pages!TypeOK /\ Pages!ReadyMeansOpened
<1> SUFFICES ASSUME PageInv PROVE Pages!TypeOK /\ Pages!ReadyMeansOpened
  OBVIOUS
<1>1. Pages!Studios = Studios
  BY DEF Pages!Studios, Studios
<1>2. Pages!TypeOK
  BY <1>1 DEF PageInv, PageTyped, FrameInv, FrameTyped, Pages!TypeOK
<1>3. Pages!ReadyMeansOpened
  BY <1>1 DEF PageInv, FrameInv, Grounded, Pages!ReadyMeansOpened
<1> QED BY <1>2, <1>3

\* The lyric editor has told its draft, and what it told is known or on its way.
LEMMA DraftIsReported == PageInv => Pages!DraftsAreReported
<1> SUFFICES ASSUME PageInv, doc["lyric"].dirty, doc["lyric"].stage = "open",
                    doc["lyric"].req = adapter["lyric"].req, ~adapter["lyric"].dirty
             PROVE  \E i \in 1..Len(reports["lyric"]) : reports["lyric"][i].dirty
  BY DEF Pages!DraftsAreReported
<1>1. FrameInv("lyric")
  BY DEF PageInv, Studios
<1>2. doc["lyric"].song # NoSong /\ doc["lyric"].told = doc["lyric"].dirty
  BY <1>1 DEF FrameInv, Staged
<1>3. DraftKnown("lyric")
  BY <1>1, <1>2 DEF FrameInv, KnownFrame, Shows
<1>4. Telling("lyric") # {}
  BY <1>2, <1>3 DEF DraftKnown
<1> QED BY <1>2, <1>3, <1>4 DEF DraftKnown, Telling

-----------------------------------------------------------------------------
(* What happens to a frame.                                                *)

\* Its reports rest, or one that asks for the other studio is taken.
Fewer(s) ==
  \/ reports'[s] = reports[s]
  \/ reports[s] # <<>> /\ Head(reports[s]).kind = "SWITCH" /\ reports'[s] = Tail(reports[s])

\* The page turns to it or away from it, and the document rests.
Notes(s) ==
  /\ Fewer(s) /\ doc'[s] = doc[s] /\ requests <= requests' /\ requests' \in Nat
  /\ adapter'[s] \in Pages!AdapterType
  /\ adapter'[s].song = adapter[s].song /\ adapter'[s].req = adapter[s].req
  /\ adapter'[s].dirty = adapter[s].dirty
  /\ \/ adapter'[s].phase \in {adapter[s].phase, "error"}
     \/ adapter'[s].phase = "blocked" /\ adapter[s].dirty

\* A new document for a new request; the old one may stay.
Renews(s) ==
  /\ Fewer(s) /\ requests' = requests + 1 /\ ~adapter[s].dirty
  /\ adapter'[s] \in Pages!AdapterType /\ adapter'[s].req = requests'
  /\ adapter'[s].phase = "loading" /\ ~adapter'[s].dirty
  /\ \/ doc'[s] = doc[s]
     \/ /\ doc'[s] \in Pages!DocType /\ doc'[s].req = requests' /\ doc'[s].stage = "loading"
        /\ ~doc'[s].dirty /\ ~doc'[s].told /\ ~doc'[s].saving
        /\ doc'[s].song = IF s = "lyric" THEN doc'[s].next ELSE NoSong

\* The user signs out.
Clears(s) ==
  /\ adapter'[s] = Pages!IdleAdapter /\ doc'[s] = Pages!Blank
  /\ reports'[s] = reports[s] /\ requests' = requests

\* The document goes on, with a report or without.  Only a report that tells
\* may change what it has told, and only LOADED which song it shows.
Silent(s) ==
  Shows(s, doc'[s])
  => Shows(s, doc[s]) /\ doc'[s].song = doc[s].song /\ doc'[s].told = doc[s].told
Adds(s, m) ==
  /\ m \in Pages!ReportType /\ m.req = doc[s].req
  /\ m.dirty \/ m.kind = "LOADED" => doc'[s].opened
  /\ \/ m.kind \notin Tells /\ Silent(s)
     \/ m.kind = "LOADED" /\ m.song = doc'[s].song /\ m.dirty = doc'[s].told
     \/ /\ m.kind \in {"STATE", "SAVED"} /\ m.song = doc'[s].song /\ m.dirty = doc'[s].told
        /\ Shows(s, doc'[s]) => Shows(s, doc[s]) /\ doc'[s].song = doc[s].song
Works(s) ==
  /\ doc[s].stage # "blank" /\ doc'[s] \in Pages!DocType /\ doc'[s].req = doc[s].req
  /\ doc[s].opened => doc'[s].opened
  /\ Staged(s, doc'[s]) /\ adapter'[s] = adapter[s] /\ requests' = requests
  /\ \/ reports'[s] = reports[s] /\ Silent(s)
     \/ \E m : /\ Adds(s, m) /\ Len(reports[s]) < MaxReports
               /\ reports'[s] = Append(reports[s], m)

\* The page receives its report.
Delivers(s) ==
  /\ doc'[s] = doc[s] /\ requests' = requests
  /\ reports[s] # <<>> /\ Head(reports[s]).kind # "SWITCH" /\ reports'[s] = Tail(reports[s])
  /\ adapter'[s] = IF Pages!Current(s, Head(reports[s])) THEN Pages!Received(s, Head(reports[s]))
                   ELSE adapter[s]

\* One report fewer: the others move up.
LEMMA TailReports ==
  ASSUME NEW s \in Studios, FrameTyped(s), reports[s] # <<>>, reports'[s] = Tail(reports[s])
  PROVE  /\ reports'[s] \in Seq(Pages!ReportType) /\ Len(reports[s]) \in Nat /\ Len(reports[s]) > 0
         /\ Len(reports'[s]) = Len(reports[s]) - 1 /\ Len(reports'[s]) <= MaxReports
         /\ Head(reports[s]) = reports[s][1] /\ Head(reports[s]) \in Pages!ReportType
         /\ \A i \in 1..Len(reports'[s]) : reports'[s][i] = reports[s][i + 1]
<1>1. reports[s] \in Seq(Pages!ReportType) /\ reports[s] # <<>> /\ Len(reports[s]) <= MaxReports
      /\ MaxReports \in Nat
  BY BrowserAssumption DEF FrameTyped
<1>2. /\ Tail(reports[s]) \in Seq(Pages!ReportType) /\ Head(reports[s]) \in Pages!ReportType
      /\ Len(Tail(reports[s])) = Len(reports[s]) - 1
      /\ \A i \in 1..Len(Tail(reports[s])) : Tail(reports[s])[i] = reports[s][i + 1]
  BY <1>1, HeadTailProperties
<1>3. Len(reports[s]) \in Nat /\ Len(reports[s]) > 0 /\ Head(reports[s]) = reports[s][1]
  BY <1>1
<1> QED BY <1>1, <1>2, <1>3

\* The last of a set of positions, once the first is gone.
LEMMA LastShifts ==
  ASSUME NEW n \in Nat, NEW S \in SUBSET (1..n), NEW R,
         \A i : i \in R <=> i \in 1..(n - 1) /\ i + 1 \in S
  PROVE  /\ R = {} => S \subseteq {1}
         /\ \A k : R # {} /\ IsLast(k, S) => k - 1 \in R /\ IsLast(k - 1, R) /\ k - 1 + 1 = k
<1>1. ASSUME R = {}, NEW k \in S, k # 1 PROVE FALSE
  <2>1. k - 1 \in 1..(n - 1) /\ k - 1 + 1 = k
    BY <1>1
  <2> QED BY <1>1, <2>1
<1>2. ASSUME R # {}, NEW k, IsLast(k, S)
      PROVE  k - 1 \in R /\ IsLast(k - 1, R) /\ k - 1 + 1 = k
  <2>1. PICK r \in R : TRUE
    BY <1>2
  <2>2. r \in 1..(n - 1) /\ r + 1 \in S /\ k \in S /\ k \in 1..n /\ r + 1 <= k
    BY <1>2, <2>1 DEF IsLast
  <2>3. k - 1 \in 1..(n - 1) /\ k - 1 + 1 = k
    BY <2>2
  <2>4. k - 1 \in R
    BY <2>2, <2>3
  <2>5. \A j \in R : j <= k - 1
    BY <1>2, <2>2 DEF IsLast
  <2> QED BY <2>3, <2>4, <2>5 DEF IsLast
<1> QED BY <1>1, <1>2

\* Where the reports have moved up and the document rests, so have the sets.
LEMMA TailTells ==
  ASSUME NEW s \in Studios, FrameTyped(s), reports[s] # <<>>, reports'[s] = Tail(reports[s]),
         doc'[s] = doc[s]
  PROVE  /\ Telling(s) \in SUBSET (1..Len(reports[s])) /\ Opening(s) \in SUBSET (1..Len(reports[s]))
         /\ Telling(s)' = {i \in 1..(Len(reports[s]) - 1) : i + 1 \in Telling(s)}
         /\ Opening(s)' = {i \in 1..(Len(reports[s]) - 1) : i + 1 \in Opening(s)}
<1>1. /\ Len(reports[s]) \in Nat /\ Len(reports'[s]) = Len(reports[s]) - 1
      /\ \A i \in 1..Len(reports'[s]) : reports'[s][i] = reports[s][i + 1]
  BY TailReports
<1>2. \A i \in 1..(Len(reports[s]) - 1) : i + 1 \in 1..Len(reports[s]) /\ reports'[s][i] = reports[s][i + 1]
  BY <1>1
<1>3. Telling(s)' = {i \in 1..(Len(reports[s]) - 1) : i + 1 \in Telling(s)}
  BY <1>1, <1>2 DEF Telling
<1>4. Opening(s)' = {i \in 1..(Len(reports[s]) - 1) : i + 1 \in Opening(s)}
  BY <1>1, <1>2, <1>3 DEF Opening
<1> QED BY <1>3, <1>4 DEF Telling, Opening

\* The parts about the reports alone, when the first is taken.
LEMMA TailFrame ==
  ASSUME NEW s \in Studios, FrameInv(s), reports[s] # <<>>, reports'[s] = Tail(reports[s]),
         requests \in Nat, requests' \in Nat, requests <= requests'
  PROVE  /\ \A i \in 1..Len(reports'[s]) : 0 < reports'[s][i].req /\ reports'[s][i].req <= requests'
         /\ doc'[s] = doc[s]
            => \A i \in 1..Len(reports'[s]) :
                 /\ reports'[s][i].req = doc'[s].req
                 /\ reports'[s][i].kind = "LOADED" \/ reports'[s][i].dirty
                 => doc'[s].opened
<1>1. /\ Len(reports[s]) \in Nat /\ Len(reports'[s]) = Len(reports[s]) - 1
      /\ reports[s] \in Seq(Pages!ReportType)
      /\ \A i \in 1..Len(reports'[s]) : reports'[s][i] = reports[s][i + 1]
  BY TailReports DEF FrameInv, FrameTyped
<1>2. \A i \in 1..Len(reports'[s]) : i + 1 \in 1..Len(reports[s])
  BY <1>1
<1>3. \A i \in 1..Len(reports[s]) : reports[s][i].req \in Nat
  <2>1. \A i \in 1..Len(reports[s]) : reports[s][i] \in Pages!ReportType
    BY <1>1
  <2> QED BY <2>1 DEF Pages!ReportType
<1> QED BY <1>1, <1>2, <1>3 DEF FrameInv, Numbered, Grounded

\* What the page knows does not change with a report that tells nothing.
LEMMA KnownShifts ==
  ASSUME NEW s \in Studios, FrameTyped(s), KnownFrame(s), reports[s] # <<>>,
         reports'[s] = Tail(reports[s]), doc'[s] = doc[s], 1 \notin Telling(s),
         adapter'[s].song = adapter[s].song, adapter'[s].req = adapter[s].req,
         adapter'[s].dirty = adapter[s].dirty
  PROVE  KnownFrame(s)'
<1> DEFINE n == Len(reports[s])
           T == Telling(s)
           P == Opening(s)
           T1 == {i \in 1..(n - 1) : i + 1 \in T}
           P1 == {i \in 1..(n - 1) : i + 1 \in P}
<1>0. /\ Telling(s) = T /\ Opening(s) = P
      /\ T1 = {i \in 1..(n - 1) : i + 1 \in T} /\ P1 = {i \in 1..(n - 1) : i + 1 \in P}
  OBVIOUS
<1>1. n \in Nat /\ T \in SUBSET (1..n) /\ P \in SUBSET (1..n) /\ Telling(s)' = T1 /\ Opening(s)' = P1
      /\ \A i \in 1..(n - 1) : reports'[s][i] = reports[s][i + 1]
  BY TailReports, TailTells
<1>2. 1 \notin T /\ 1 \notin P
  BY DEF Opening
<1> HIDE DEF n, T, P, T1, P1
<1>8. /\ P1 = {} => P \subseteq {1}
      /\ \A k : P1 # {} /\ IsLast(k, P) => k - 1 \in P1 /\ IsLast(k - 1, P1) /\ k - 1 + 1 = k
  <2>1. n \in Nat /\ P \in SUBSET (1..n) /\ \A i : i \in P1 <=> i \in 1..(n - 1) /\ i + 1 \in P
    BY <1>0, <1>1
  <2> QED BY <2>1, LastShifts
<1>9. /\ T1 = {} => T \subseteq {1}
      /\ \A k : T1 # {} /\ IsLast(k, T) => k - 1 \in T1 /\ IsLast(k - 1, T1) /\ k - 1 + 1 = k
  <2>1. n \in Nat /\ T \in SUBSET (1..n) /\ \A i : i \in T1 <=> i \in 1..(n - 1) /\ i + 1 \in T
    BY <1>0, <1>1
  <2> QED BY <2>1, LastShifts
<1> SUFFICES ASSUME Shows(s, doc[s]), doc[s].req = adapter[s].req
             PROVE  SongKnown(s)' /\ DraftKnown(s)'
  BY DEF KnownFrame
<1>3. SongKnown(s) /\ DraftKnown(s)
  BY DEF KnownFrame
<1>4. SongKnown(s)'
  <2>1. CASE P1 = {}
    <3>1. P = {}
      <4>1. P \subseteq {1}
        BY <1>8, <2>1
      <4> QED BY <1>2, <4>1
    <3> QED BY <1>0, <1>1, <1>3, <2>1, <3>1 DEF SongKnown
  <2>2. CASE P1 # {}
    <3>1. P # {}
      BY <1>0, <2>2
    <3>2. PICK k \in P : IsLast(k, P) /\ reports[s][k].song = doc[s].song
      BY <1>0, <1>3, <3>1 DEF SongKnown
    <3>3. k - 1 \in P1 /\ IsLast(k - 1, P1) /\ k - 1 + 1 = k
      BY <1>8, <2>2, <3>2
    <3>4. reports'[s][k - 1] = reports[s][k]
      BY <1>0, <1>1, <3>3
    <3>5. \E i \in P1 : IsLast(i, P1) /\ reports'[s][i].song = doc'[s].song
      BY <3>2, <3>3, <3>4
    <3> QED BY <1>1, <2>2, <3>5 DEF SongKnown, IsLast
  <2> QED BY <2>1, <2>2
<1>5. DraftKnown(s)'
  <2>1. CASE T1 = {}
    <3>1. T = {}
      <4>1. T \subseteq {1}
        BY <1>9, <2>1
      <4> QED BY <1>2, <4>1
    <3> QED BY <1>0, <1>1, <1>3, <2>1, <3>1 DEF DraftKnown
  <2>2. CASE T1 # {}
    <3>1. T # {}
      BY <1>0, <2>2
    <3>2. PICK k \in T : IsLast(k, T) /\ reports[s][k].song = doc[s].song /\ reports[s][k].dirty = doc[s].told
      BY <1>0, <1>3, <3>1 DEF DraftKnown
    <3>3. k - 1 \in T1 /\ IsLast(k - 1, T1) /\ k - 1 + 1 = k
      BY <1>9, <2>2, <3>2
    <3>4. reports'[s][k - 1] = reports[s][k]
      BY <1>0, <1>1, <3>3
    <3>5. \E i \in T1 : /\ IsLast(i, T1) /\ reports'[s][i].song = doc'[s].song
                        /\ reports'[s][i].dirty = doc'[s].told
      BY <3>2, <3>3, <3>4
    <3> QED BY <1>1, <2>2, <3>5 DEF DraftKnown, IsLast
  <2> QED BY <2>1, <2>2
<1> QED BY <1>4, <1>5

\* Fewer reports, of a document that rests: what they say of it still holds.
LEMMA FewerFrame ==
  ASSUME NEW s \in Studios, FrameInv(s), Fewer(s), requests \in Nat, requests' \in Nat,
         requests <= requests'
  PROVE  /\ reports'[s] \in Seq(Pages!ReportType) /\ Len(reports'[s]) <= MaxReports
         /\ \A i \in 1..Len(reports'[s]) : 0 < reports'[s][i].req /\ reports'[s][i].req <= requests'
         /\ doc'[s] = doc[s]
            => \A i \in 1..Len(reports'[s]) :
                 /\ reports'[s][i].req = doc'[s].req
                 /\ reports'[s][i].kind = "LOADED" \/ reports'[s][i].dirty
                 => doc'[s].opened
<1>1. CASE reports'[s] = reports[s]
  <2>1. \A i \in 1..Len(reports[s]) : reports[s][i].req \in Nat
    <3>1. reports[s] \in Seq(Pages!ReportType)
      BY DEF FrameInv, FrameTyped
    <3>2. \A i \in 1..Len(reports[s]) : reports[s][i] \in Pages!ReportType
      BY <3>1
    <3> QED BY <3>2 DEF Pages!ReportType
  <2> QED BY <1>1, <2>1 DEF FrameInv, FrameTyped, Numbered, Grounded
<1>2. CASE reports[s] # <<>> /\ reports'[s] = Tail(reports[s])
  BY <1>2, TailFrame, TailReports DEF FrameInv
<1> QED BY <1>1, <1>2 DEF Fewer

LEMMA NotesKeep ==
  ASSUME NEW s \in Studios, FrameInv(s), Notes(s), requests \in Nat
  PROVE  FrameInv(s)'
<1>1. /\ reports'[s] \in Seq(Pages!ReportType) /\ Len(reports'[s]) <= MaxReports
      /\ \A i \in 1..Len(reports'[s]) : 0 < reports'[s][i].req /\ reports'[s][i].req <= requests'
      /\ \A i \in 1..Len(reports'[s]) :
           /\ reports'[s][i].req = doc'[s].req
           /\ reports'[s][i].kind = "LOADED" \/ reports'[s][i].dirty
           => doc'[s].opened
  BY FewerFrame DEF Notes
<1>2. FrameTyped(s)'
  BY <1>1 DEF FrameInv, FrameTyped, Notes
<1>3. KnownFrame(s)'
  <2>1. CASE reports'[s] = reports[s]
    <3>1. Telling(s)' = Telling(s) /\ Opening(s)' = Opening(s)
      BY <2>1 DEF Telling, Opening, Notes
    <3> QED BY <2>1, <3>1 DEF FrameInv, KnownFrame, SongKnown, DraftKnown, IsLast, Notes
  <2>2. CASE reports[s] # <<>> /\ Head(reports[s]).kind = "SWITCH" /\ reports'[s] = Tail(reports[s])
    <3>1. 1 \notin Telling(s)
      <4>1. reports[s][1].kind = "SWITCH"
        BY <2>2, TailReports DEF FrameInv
      <4> QED BY <4>1 DEF Telling, Tells
    <3> QED BY <2>2, <3>1, KnownShifts DEF FrameInv, Notes
  <2> QED BY <2>1, <2>2 DEF Notes, Fewer
<1>4. Numbered(s)'
  <2>1. doc[s].req \in Nat /\ adapter[s].req \in Nat
    BY DEF FrameInv, FrameTyped, Pages!DocType, Pages!AdapterType
  <2> QED BY <1>1, <2>1 DEF FrameInv, Numbered, Notes
<1>5. Grounded(s)'
  BY <1>1 DEF FrameInv, Grounded, Notes
<1>6. Staged(s, doc[s])' /\ HeldFrame(s)'
  BY DEF FrameInv, HeldFrame, Notes
<1> QED BY <1>2, <1>3, <1>4, <1>5, <1>6 DEF FrameInv

LEMMA RenewsKeep ==
  ASSUME NEW s \in Studios, FrameInv(s), Renews(s), requests \in Nat
  PROVE  FrameInv(s)'
<1>1. requests' \in Nat /\ requests <= requests' /\ requests < requests'
  BY DEF Renews
<1>2. /\ reports'[s] \in Seq(Pages!ReportType) /\ Len(reports'[s]) <= MaxReports
      /\ \A i \in 1..Len(reports'[s]) : 0 < reports'[s][i].req /\ reports'[s][i].req <= requests'
  BY <1>1, FewerFrame DEF Renews
<1>3. doc[s].req \in Nat /\ doc[s].req <= requests /\ doc[s] \in Pages!DocType
  BY DEF FrameInv, FrameTyped, Numbered, Pages!DocType
<1>4. \A i \in 1..Len(reports'[s]) : reports'[s][i].req <= requests
  <2>1. CASE reports'[s] = reports[s]
    BY <2>1 DEF FrameInv, Numbered
  <2>2. CASE reports[s] # <<>> /\ reports'[s] = Tail(reports[s])
    BY <2>2, TailFrame, TailReports DEF FrameInv, Numbered
  <2> QED BY <2>1, <2>2 DEF Renews, Fewer
<1>5. \A i \in 1..Len(reports'[s]) : reports'[s][i].req \in Nat
  <2>1. \A i \in 1..Len(reports'[s]) : reports'[s][i] \in Pages!ReportType
    BY <1>2
  <2> QED BY <2>1 DEF Pages!ReportType
<1>6. CASE doc'[s] = doc[s]
  <2>1. doc'[s].req # adapter'[s].req
    BY <1>1, <1>3, <1>6 DEF Renews
  <2>2. KnownFrame(s)'
    BY <2>1 DEF KnownFrame
  <2>3. Grounded(s)'
    BY <1>1, <1>6, <2>1, FewerFrame DEF Grounded, Renews
  <2>4. FrameTyped(s)' /\ Numbered(s)' /\ Staged(s, doc[s])' /\ HeldFrame(s)'
    BY <1>1, <1>2, <1>3, <1>6 DEF FrameInv, FrameTyped, Numbered, HeldFrame, Renews
  <2> QED BY <2>2, <2>3, <2>4 DEF FrameInv
<1>7. CASE /\ doc'[s] \in Pages!DocType /\ doc'[s].req = requests' /\ doc'[s].stage = "loading"
           /\ ~doc'[s].dirty /\ ~doc'[s].told /\ ~doc'[s].saving
           /\ doc'[s].song = IF s = "lyric" THEN doc'[s].next ELSE NoSong
  <2>1. ~Shows(s, doc'[s])
    BY <1>7 DEF Shows
  <2>2. KnownFrame(s)'
    BY <2>1 DEF KnownFrame
  <2>3. Staged(s, doc[s])'
    BY <1>7, <2>1 DEF Staged
  <2>4. \A i \in 1..Len(reports'[s]) : reports'[s][i].req # doc'[s].req
    BY <1>1, <1>4, <1>5, <1>7
  <2>5. Grounded(s)'
    BY <2>4 DEF Grounded, Renews
  <2>6. FrameTyped(s)' /\ Numbered(s)' /\ HeldFrame(s)'
    BY <1>1, <1>2, <1>7 DEF FrameTyped, Numbered, HeldFrame, Renews
  <2> QED BY <2>2, <2>3, <2>5, <2>6 DEF FrameInv
<1> QED BY <1>6, <1>7 DEF Renews

LEMMA ClearsKeep ==
  ASSUME NEW s \in Studios, FrameInv(s), Clears(s), requests \in Nat
  PROVE  FrameInv(s)'
<1>1. /\ adapter'[s] = Pages!IdleAdapter /\ doc'[s] = Pages!Blank /\ 0 \in 0..MaxRequests
      /\ reports'[s] = reports[s] /\ requests' = requests /\ NoSong \in Pages!SongOrNone
  BY BrowserAssumption DEF Clears, Pages!SongOrNone
<1>2. FrameTyped(s)'
  BY <1>1 DEF FrameInv, FrameTyped, Pages!IdleAdapter, Pages!Blank, Pages!AdapterType, Pages!DocType,
              Pages!Phases, Pages!Stages, Pages!NoRequest
<1>3. KnownFrame(s)'
  BY <1>1 DEF KnownFrame, Shows, Pages!Blank
<1>4. Numbered(s)' /\ HeldFrame(s)'
  BY <1>1 DEF FrameInv, Numbered, HeldFrame, Pages!IdleAdapter, Pages!Blank, Pages!NoRequest
<1>5. Staged(s, doc[s])'
  BY <1>1 DEF Staged, Shows, Pages!Blank
<1>6. Grounded(s)'
  <2>1. \A i \in 1..Len(reports'[s]) : reports'[s][i].req # doc'[s].req
    BY <1>1 DEF FrameInv, Numbered, Pages!Blank, Pages!NoRequest
  <2> QED BY <1>1, <2>1 DEF Grounded, Pages!IdleAdapter
<1> QED BY <1>2, <1>3, <1>4, <1>5, <1>6 DEF FrameInv

\* What the adapter makes of a report of its request.
LEMMA ReceivedFacts ==
  ASSUME NEW s \in Studios, adapter[s] \in Pages!AdapterType, NEW m \in Pages!ReportType,
         m.kind # "SWITCH", NEW b, b = Pages!Received(s, m)
  PROVE  /\ b \in Pages!AdapterType /\ b.req = adapter[s].req
         /\ m.kind = "READY"
            => /\ b.song = adapter[s].song /\ b.dirty = adapter[s].dirty
               /\ b.phase = IF adapter[s].song = NoSong THEN "ready" ELSE adapter[s].phase
         /\ m.kind = "ERROR"
            => /\ b.song = adapter[s].song /\ b.dirty = adapter[s].dirty
               /\ b.phase \in {adapter[s].phase, "error"}
         /\ m.kind = "LOADED" => b.song = m.song /\ b.dirty = m.dirty /\ b.phase = "ready"
         /\ m.kind \in {"STATE", "SAVED"}
            => /\ b.song = adapter[s].song
               /\ m.song # b.song => b = adapter[s]
               /\ m.song = b.song
                  => /\ b.dirty = m.dirty
                     /\ b.phase = IF ~m.dirty /\ adapter[s].phase = "blocked" THEN "ready"
                                  ELSE adapter[s].phase
<1>0. PICK a : a = adapter[s] /\ a \in Pages!AdapterType
  OBVIOUS
<1>1. /\ m.kind \in {"READY", "LOADED", "STATE", "SAVED", "ERROR"} /\ m.dirty \in BOOLEAN
      /\ m.song \in Pages!SongOrNone
  BY DEF Pages!ReportType, Pages!Kinds
<1>2. CASE m.kind = "READY"
  <2>1. b = IF a.song = NoSong THEN [a EXCEPT !.phase = "ready", !.armed = FALSE] ELSE a
    BY <1>0, <1>2 DEF Pages!Received, Pages!Ready
  <2> QED BY ZenonT(60), <1>0, <1>2, <2>1 DEF Pages!AdapterType, Pages!Phases
<1>3. CASE m.kind = "LOADED"
  <2>1. b = [a EXCEPT !.dirty = m.dirty, !.song = m.song, !.stale = a.stale \ {m.song},
                      !.phase = "ready", !.armed = FALSE]
    BY <1>0, <1>3 DEF Pages!Received, Pages!Ready, Pages!Noted, Pages!AdapterType
  <2>2. PICK S : S = a.stale \ {m.song}
    OBVIOUS
  <2>3. S \in SUBSET Songs
    <3>1. a.stale \in SUBSET Songs
      BY <1>0 DEF Pages!AdapterType
    <3> QED BY <2>2, <3>1
  <2>4. /\ b \in Pages!AdapterType /\ b.req = a.req /\ b.song = m.song /\ b.dirty = m.dirty
        /\ b.phase = "ready"
    BY <1>0, <1>1, <2>1, <2>2, <2>3 DEF Pages!AdapterType, Pages!Phases
  <2> QED BY <1>0, <1>3, <2>4
<1>4. CASE m.kind \in {"STATE", "SAVED", "ERROR"} /\ m.song # a.song
  <2>1. b = a
    BY <1>0, <1>4 DEF Pages!Received
  <2> QED BY <1>0, <1>4, <2>1
<1>5. CASE m.kind = "ERROR" /\ m.song = a.song
  <2>1. b = [a EXCEPT !.phase = "error", !.armed = FALSE]
    BY <1>0, <1>5 DEF Pages!Received
  <2> QED BY <1>0, <1>5, <2>1 DEF Pages!AdapterType, Pages!Phases
<1>6. CASE m.kind \in {"STATE", "SAVED"} /\ m.song = a.song
  <2>1. b = IF ~m.dirty /\ a.phase = "blocked" THEN [a EXCEPT !.dirty = m.dirty, !.phase = "ready"]
            ELSE [a EXCEPT !.dirty = m.dirty]
    BY <1>0, <1>6 DEF Pages!Received, Pages!Noted, Pages!AdapterType
  <2> QED BY <1>0, <1>1, <1>6, <2>1 DEF Pages!AdapterType, Pages!Phases
<1> QED BY <1>0, <1>1, <1>2, <1>3, <1>4, <1>5, <1>6

LEMMA DeliversKeep ==
  ASSUME NEW s \in Studios, FrameInv(s), Delivers(s), requests \in Nat
  PROVE  FrameInv(s)'
<1>0. PICK m : m = Head(reports[s])
  OBVIOUS
<1> DEFINE n == Len(reports[s])
<1>1. /\ reports[s] # <<>> /\ m.kind # "SWITCH" /\ reports'[s] = Tail(reports[s])
      /\ doc'[s] = doc[s] /\ requests' = requests
      /\ adapter'[s] = IF Pages!Current(s, m) THEN Pages!Received(s, m) ELSE adapter[s]
  BY <1>0 DEF Delivers
<1>2. /\ reports'[s] \in Seq(Pages!ReportType) /\ Len(reports'[s]) <= MaxReports
      /\ n \in Nat /\ n > 0 /\ Len(reports'[s]) = n - 1
      /\ m = reports[s][1] /\ m \in Pages!ReportType
      /\ \A i \in 1..(n - 1) : reports'[s][i] = reports[s][i + 1]
  BY <1>0, <1>1, TailReports DEF FrameInv
<1>3. /\ \A i \in 1..Len(reports'[s]) : 0 < reports'[s][i].req /\ reports'[s][i].req <= requests'
      /\ \A i \in 1..Len(reports'[s]) :
           /\ reports'[s][i].req = doc'[s].req
           /\ reports'[s][i].kind = "LOADED" \/ reports'[s][i].dirty
           => doc'[s].opened
  <2>1. requests' \in Nat /\ requests <= requests'
    BY <1>1
  <2> QED BY <1>1, <2>1, TailFrame
<1>4. /\ adapter[s] \in Pages!AdapterType /\ 0 < m.req
      /\ m.kind \in {"READY", "LOADED", "STATE", "SAVED", "ERROR"}
  BY <1>1, <1>2 DEF FrameInv, FrameTyped, Numbered, Pages!ReportType, Pages!Kinds
<1>5. Pages!Current(s, m) <=> m.req = adapter[s].req
  BY <1>1 DEF Pages!Current
<1>6. CASE ~Pages!Current(s, m)
  <2>1. adapter'[s] = adapter[s]
    BY <1>1, <1>6
  <2>2. KnownFrame(s)'
    <3>1. CASE doc[s].req # adapter[s].req
      BY <1>1, <2>1, <3>1 DEF KnownFrame
    <3>2. CASE doc[s].req = adapter[s].req
      <4>1. 1 \notin Telling(s)
        BY <1>2, <1>5, <1>6, <3>2 DEF Telling
      <4> QED BY <1>1, <2>1, <4>1, KnownShifts DEF FrameInv
    <3> QED BY <3>1, <3>2
  <2> QED BY <1>1, <1>2, <1>3, <2>1, <2>2 DEF FrameInv, FrameTyped, Numbered, Grounded, HeldFrame
<1>7. CASE Pages!Current(s, m)
  <2>0. PICK b : b = adapter'[s]
    OBVIOUS
  <2>1. b = Pages!Received(s, m) /\ m.req = adapter[s].req
    BY <1>1, <1>5, <1>7, <2>0
  <2>2. /\ b \in Pages!AdapterType /\ b.req = adapter[s].req
        /\ m.kind = "READY"
           => /\ b.song = adapter[s].song /\ b.dirty = adapter[s].dirty
              /\ b.phase = IF adapter[s].song = NoSong THEN "ready" ELSE adapter[s].phase
        /\ m.kind = "ERROR"
           => /\ b.song = adapter[s].song /\ b.dirty = adapter[s].dirty
              /\ b.phase \in {adapter[s].phase, "error"}
        /\ m.kind = "LOADED" => b.song = m.song /\ b.dirty = m.dirty /\ b.phase = "ready"
        /\ m.kind \in {"STATE", "SAVED"}
           => /\ b.song = adapter[s].song
              /\ m.song # b.song => b = adapter[s]
              /\ m.song = b.song
                 => /\ b.dirty = m.dirty
                    /\ b.phase = IF ~m.dirty /\ adapter[s].phase = "blocked" THEN "ready"
                                 ELSE adapter[s].phase
    BY <1>1, <1>2, <1>4, <2>1, ReceivedFacts
  <2>3. FrameTyped(s)' /\ Numbered(s)' /\ Staged(s, doc[s])'
    BY <1>1, <1>2, <1>3, <2>0, <2>2 DEF FrameInv, FrameTyped, Numbered
  <2>4. adapter[s].phase # "idle"
    BY <1>4, <2>1 DEF FrameInv, HeldFrame
  <2>5. HeldFrame(s)'
    BY <1>4, <2>0, <2>2, <2>4 DEF FrameInv, HeldFrame
  <2>6. Grounded(s)'
    <3>1. doc[s].req = adapter[s].req /\ (m.kind = "LOADED" \/ m.dirty) => doc[s].opened
      BY <1>2, <2>1 DEF FrameInv, Grounded
    <3>2. doc[s].req = adapter[s].req /\ b.dirty => doc[s].opened
      BY <1>4, <2>2, <3>1 DEF FrameInv, Grounded
    <3>3. b.phase = "ready" /\ b.song # NoSong /\ doc[s].req = adapter[s].req => doc[s].opened
      BY <1>4, <2>2, <3>1 DEF FrameInv, Grounded, HeldFrame
    <3> QED BY <1>1, <1>3, <2>0, <2>2, <3>2, <3>3 DEF Grounded
  <2>7. KnownFrame(s)'
    <3>1. CASE doc[s].req # adapter[s].req
      BY <1>1, <2>0, <2>2, <3>1 DEF KnownFrame
    <3>2. CASE m.kind \notin Tells
      <4>1. 1 \notin Telling(s)
        BY <1>2, <3>2 DEF Telling
      <4>2. b.song = adapter[s].song /\ b.dirty = adapter[s].dirty
        BY <1>4, <2>2, <3>2 DEF Tells
      <4> QED BY <1>1, <2>0, <2>2, <4>1, <4>2, KnownShifts DEF FrameInv
    <3>3. CASE m.kind \in Tells /\ doc[s].req = adapter[s].req
      <4> SUFFICES ASSUME Shows(s, doc[s]) PROVE SongKnown(s)' /\ DraftKnown(s)'
        BY <1>1 DEF KnownFrame
      <4>1. SongKnown(s) /\ DraftKnown(s)
        BY <3>3 DEF FrameInv, KnownFrame
      <4>2. PICK T, P : T = Telling(s) /\ P = Opening(s)
        OBVIOUS
      <4>3. PICK T1, P1 : T1 = Telling(s)' /\ P1 = Opening(s)'
        OBVIOUS
      <4>4. /\ T \in SUBSET (1..n) /\ P \in SUBSET (1..n)
            /\ T1 = {i \in 1..(n - 1) : i + 1 \in T} /\ P1 = {i \in 1..(n - 1) : i + 1 \in P}
        BY <1>1, <4>2, <4>3, TailTells DEF FrameInv
      <4>5. /\ T1 = {} => T \subseteq {1}
            /\ \A k : T1 # {} /\ IsLast(k, T) => k - 1 \in T1 /\ IsLast(k - 1, T1) /\ k - 1 + 1 = k
        <5>1. n \in Nat /\ T \in SUBSET (1..n) /\ \A i : i \in T1 <=> i \in 1..(n - 1) /\ i + 1 \in T
          BY <1>2, <4>4
        <5> QED BY <5>1, LastShifts
      <4>6. /\ P1 = {} => P \subseteq {1}
            /\ \A k : P1 # {} /\ IsLast(k, P) => k - 1 \in P1 /\ IsLast(k - 1, P1) /\ k - 1 + 1 = k
        <5>1. n \in Nat /\ P \in SUBSET (1..n) /\ \A i : i \in P1 <=> i \in 1..(n - 1) /\ i + 1 \in P
          BY <1>2, <4>4
        <5> QED BY <5>1, LastShifts
      <4>7. 1 \in T /\ (1 \in P <=> m.kind = "LOADED")
        BY <1>2, <2>1, <3>3, <4>2 DEF Telling, Opening
      <4>8. m.kind \in {"LOADED", "STATE", "SAVED"}
        BY <3>3 DEF Tells
      <4>9. SongKnown(s)'
        <5>1. CASE P1 # {}
          <6>1. P # {}
            BY <4>4, <5>1
          <6>2. PICK k \in P : IsLast(k, P) /\ reports[s][k].song = doc[s].song
            BY <4>1, <4>2, <6>1 DEF SongKnown
          <6>3. k - 1 \in P1 /\ IsLast(k - 1, P1) /\ reports'[s][k - 1] = reports[s][k]
            BY <1>2, <4>4, <4>6, <5>1, <6>2
          <6> QED BY <1>1, <4>3, <5>1, <6>2, <6>3 DEF SongKnown, IsLast
        <5>2. CASE P1 = {} /\ P = {}
          BY <1>1, <2>0, <2>2, <4>1, <4>2, <4>3, <4>7, <4>8, <5>2 DEF SongKnown
        <5>3. CASE P1 = {} /\ P # {}
          <6>1. PICK k \in P : reports[s][k].song = doc[s].song
            BY <4>1, <4>2, <5>3 DEF SongKnown
          <6>2. k = 1 /\ m.kind = "LOADED" /\ m.song = doc[s].song
            BY <1>2, <4>6, <4>7, <5>3, <6>1
          <6> QED BY <1>1, <2>0, <2>2, <4>3, <5>3, <6>2 DEF SongKnown
        <5> QED BY <5>1, <5>2, <5>3
      <4>10. DraftKnown(s)'
        <5>1. PICK k \in T : /\ IsLast(k, T) /\ reports[s][k].song = doc[s].song
                             /\ reports[s][k].dirty = doc[s].told
          BY <4>1, <4>2, <4>7 DEF DraftKnown
        <5>2. CASE T1 # {}
          <6>1. k - 1 \in T1 /\ IsLast(k - 1, T1) /\ reports'[s][k - 1] = reports[s][k]
            BY <1>2, <4>4, <4>5, <5>1, <5>2
          <6> QED BY <1>1, <4>3, <5>1, <5>2, <6>1 DEF DraftKnown, IsLast
        <5>3. CASE T1 = {}
          <6>1. k = 1 /\ m.song = doc[s].song /\ m.dirty = doc[s].told
            BY <1>2, <4>5, <5>1, <5>3
          <6>2. m.kind # "LOADED" => adapter[s].song = doc[s].song
            <7>1. ASSUME m.kind # "LOADED" PROVE P = {}
              BY <4>2, <4>5, <4>7, <5>3, <7>1 DEF Opening
            <7> QED BY <4>1, <4>2, <7>1 DEF SongKnown
          <6>3. b.dirty = doc[s].told
            BY <2>2, <4>8, <6>1, <6>2
          <6> QED BY <1>1, <2>0, <4>3, <5>3, <6>3 DEF DraftKnown
        <5> QED BY <5>2, <5>3
      <4> QED BY <4>9, <4>10
    <3> QED BY <3>1, <3>2, <3>3
  <2> QED BY <2>3, <2>5, <2>6, <2>7 DEF FrameInv
<1> QED BY <1>6, <1>7

\* One report more: the others stay where they are.
LEMMA AppendReports ==
  ASSUME NEW s \in Studios, FrameTyped(s), NEW m \in Pages!ReportType, Len(reports[s]) < MaxReports,
         reports'[s] = Append(reports[s], m), doc'[s].req = doc[s].req, m.req = doc[s].req
  PROVE  /\ Len(reports[s]) \in Nat /\ Len(reports'[s]) = Len(reports[s]) + 1
         /\ reports'[s] \in Seq(Pages!ReportType) /\ Len(reports'[s]) <= MaxReports
         /\ \A i \in 1..Len(reports[s]) : reports'[s][i] = reports[s][i]
         /\ reports'[s][Len(reports[s]) + 1] = m
         /\ m.kind \notin Tells => Telling(s)' = Telling(s)
         /\ m.kind \in Tells => Telling(s)' = Telling(s) \cup {Len(reports[s]) + 1}
         /\ m.kind # "LOADED" => Opening(s)' = Opening(s)
         /\ m.kind = "LOADED" => Opening(s)' = Opening(s) \cup {Len(reports[s]) + 1}
         /\ \A i \in Telling(s) : i \in 1..Len(reports[s])
<1>1. PICK q, q1 : q = reports[s] /\ q1 = reports'[s]
  OBVIOUS
<1>2. q \in Seq(Pages!ReportType) /\ q1 = Append(q, m) /\ MaxReports \in Nat /\ Len(q) < MaxReports
  BY <1>1, BrowserAssumption DEF FrameTyped
<1>3. /\ q1 \in Seq(Pages!ReportType) /\ Len(q1) = Len(q) + 1 /\ Len(q) \in Nat
      /\ \A i \in 1..Len(q) : q1[i] = q[i]
      /\ q1[Len(q) + 1] = m
  BY <1>2
<1>4. Len(q1) <= MaxReports
  BY <1>2, <1>3
<1>5. 1..Len(q1) = (1..Len(q)) \cup {Len(q) + 1}
  BY <1>3
<1>6. \A i : i \in Telling(s)' <=> \/ i \in Telling(s)
                                   \/ i = Len(q) + 1 /\ m.kind \in Tells
  BY <1>1, <1>3, <1>5 DEF Telling
<1>7. \A i : i \in Opening(s)' <=> \/ i \in Opening(s)
                                   \/ i = Len(q) + 1 /\ m.kind = "LOADED"
  BY <1>1, <1>3, <1>5, <1>6 DEF Opening, Telling, Tells
<1>8. /\ m.kind \notin Tells => Telling(s)' = Telling(s)
      /\ m.kind \in Tells => Telling(s)' = Telling(s) \cup {Len(q) + 1}
  BY <1>6
<1>9. /\ m.kind # "LOADED" => Opening(s)' = Opening(s)
      /\ m.kind = "LOADED" => Opening(s)' = Opening(s) \cup {Len(q) + 1}
  BY <1>7
<1>10. \A i \in Telling(s) : i \in 1..Len(q)
  BY <1>1 DEF Telling
<1> QED BY <1>1, <1>3, <1>4, <1>8, <1>9, <1>10

LEMMA WorksKeep ==
  ASSUME NEW s \in Studios, FrameInv(s), Works(s), requests \in Nat
  PROVE  FrameInv(s)'
<1>1. /\ doc[s].stage # "blank" /\ doc'[s] \in Pages!DocType /\ doc'[s].req = doc[s].req
      /\ doc[s].opened => doc'[s].opened
      /\ Staged(s, doc'[s]) /\ adapter'[s] = adapter[s] /\ requests' = requests
  BY DEF Works
<1>2. Staged(s, doc[s])' /\ HeldFrame(s)'
  BY <1>1 DEF FrameInv, HeldFrame
<1>3. doc[s].req > 0 /\ doc[s].req <= requests /\ doc[s].req \in Nat
  BY <1>1 DEF FrameInv, FrameTyped, Numbered, Pages!DocType
<1>4. CASE reports'[s] = reports[s] /\ Silent(s)
  <2>1. Telling(s)' = Telling(s) /\ Opening(s)' = Opening(s)
    BY <1>1, <1>4 DEF Telling, Opening
  <2>2. KnownFrame(s)'
    BY <1>1, <1>4, <2>1 DEF FrameInv, KnownFrame, SongKnown, DraftKnown, IsLast, Silent
  <2>3. FrameTyped(s)'
    BY <1>1, <1>4 DEF FrameInv, FrameTyped
  <2>4. Numbered(s)'
    BY <1>1, <1>3, <1>4 DEF FrameInv, Numbered
  <2>5. Grounded(s)'
    BY <1>1, <1>4 DEF FrameInv, Grounded
  <2> QED BY <1>2, <2>2, <2>3, <2>4, <2>5 DEF FrameInv
<1>5. ASSUME NEW m, Adds(s, m), Len(reports[s]) < MaxReports, reports'[s] = Append(reports[s], m)
      PROVE  FrameInv(s)'
  <2>1. m \in Pages!ReportType /\ m.req = doc[s].req /\ (m.dirty \/ m.kind = "LOADED" => doc'[s].opened)
    BY <1>5 DEF Adds
  <2>2. PICK n : n = Len(reports[s])
    OBVIOUS
  <2>3. /\ n \in Nat /\ Len(reports'[s]) = n + 1
        /\ reports'[s] \in Seq(Pages!ReportType) /\ Len(reports'[s]) <= MaxReports
        /\ \A i \in 1..n : reports'[s][i] = reports[s][i]
        /\ reports'[s][n + 1] = m
        /\ m.kind \notin Tells => Telling(s)' = Telling(s)
        /\ m.kind \in Tells => Telling(s)' = Telling(s) \cup {n + 1}
        /\ m.kind # "LOADED" => Opening(s)' = Opening(s)
        /\ m.kind = "LOADED" => Opening(s)' = Opening(s) \cup {n + 1}
        /\ \A i \in Telling(s) : i \in 1..n
    <3>1. FrameTyped(s)
      BY DEF FrameInv
    <3> QED BY <1>1, <1>5, <2>1, <2>2, <3>1, AppendReports
  <2>4. \A i \in 1..Len(reports'[s]) : i \in 1..n \/ i = n + 1
    BY <2>3
  <2>5. FrameTyped(s)'
    BY <1>1, <2>3 DEF FrameInv, FrameTyped
  <2>6. Numbered(s)'
    BY <1>1, <1>3, <2>1, <2>2, <2>3, <2>4 DEF FrameInv, Numbered
  <2>7. Grounded(s)'
    BY <1>1, <2>1, <2>2, <2>3, <2>4 DEF FrameInv, Grounded
  <2>8. KnownFrame(s)'
    <3> SUFFICES ASSUME Shows(s, doc'[s]), doc'[s].req = adapter[s].req
                 PROVE  SongKnown(s)' /\ DraftKnown(s)'
      BY <1>1 DEF KnownFrame
    <3>1. Opening(s) \subseteq Telling(s)
      BY DEF Opening
    <3>2. CASE m.kind \notin Tells /\ Silent(s)
      <4>1. Telling(s)' = Telling(s) /\ Opening(s)' = Opening(s)
        BY <2>3, <3>2 DEF Tells
      <4>2. SongKnown(s) /\ DraftKnown(s) /\ doc'[s].song = doc[s].song /\ doc'[s].told = doc[s].told
        BY <1>1, <3>2 DEF FrameInv, KnownFrame, Silent
      <4>3. \A i \in Telling(s) : reports'[s][i] = reports[s][i]
        BY <2>3
      <4> QED BY <1>1, <3>1, <4>1, <4>2, <4>3 DEF SongKnown, DraftKnown, IsLast
    <3>3. CASE m.kind \in Tells /\ m.song = doc'[s].song /\ m.dirty = doc'[s].told
      <4>1. IsLast(n + 1, Telling(s)')
        BY <2>3, <3>3 DEF IsLast
      <4>2. DraftKnown(s)'
        BY <2>3, <3>3, <4>1 DEF DraftKnown, IsLast
      <4>3. CASE m.kind = "LOADED"
        <5>1. IsLast(n + 1, Opening(s)')
          BY <2>3, <3>1, <4>3 DEF IsLast
        <5> QED BY <2>3, <3>3, <4>2, <5>1 DEF SongKnown, IsLast
      <4>4. CASE m.kind # "LOADED"
        <5>1. Shows(s, doc[s]) /\ doc'[s].song = doc[s].song
          BY <1>5, <3>3, <4>4 DEF Adds
        <5>2. SongKnown(s) /\ Opening(s)' = Opening(s)
          BY <1>1, <2>3, <4>4, <5>1 DEF FrameInv, KnownFrame
        <5>3. \A i \in Opening(s) : reports'[s][i] = reports[s][i]
          BY <2>3, <3>1
        <5> QED BY <1>1, <4>2, <5>1, <5>2, <5>3 DEF SongKnown, IsLast
      <4> QED BY <4>3, <4>4
    <3> QED BY <1>5, <3>2, <3>3 DEF Adds, Tells
  <2> QED BY <1>2, <2>5, <2>6, <2>7, <2>8 DEF FrameInv
<1> QED BY <1>4, <1>5 DEF Works

-----------------------------------------------------------------------------
(* What each action of the page does to the two frames.                    *)

FrameStep(s) == Notes(s) \/ Renews(s) \/ Clears(s) \/ Works(s) \/ Delivers(s)

\* The page itself keeps its types.
PageKept ==
  /\ signedIn' \in BOOLEAN /\ active' \in Pages!SongOrNone /\ page' \in Pages!Pages
  /\ turned' \in BOOLEAN /\ hash' \in [page : Pages!Pages, song : Pages!SongOrNone]
  /\ gestures' \in 0..MaxGestures

\* The frames keep theirs, and each takes one of the steps above.
FramesGo ==
  /\ requests' \in 0..MaxRequests
  /\ adapter' \in [Studios -> Pages!AdapterType] /\ doc' \in [Studios -> Pages!DocType]
  /\ reports' \in [Studios -> Seq(Pages!ReportType)]
  /\ \A s \in Studios : FrameStep(s)

\* The page turns to an editor, away from one, or loads one.
Turns ==
  /\ requests' \in 0..MaxRequests
  /\ adapter' \in [Studios -> Pages!AdapterType] /\ doc' \in [Studios -> Pages!DocType]
  /\ \A s \in Studios : Notes(s) \/ Renews(s)

\* A frame that rests.
LEMMA RestsNotes ==
  ASSUME PageInv, NEW s \in Studios, Fewer(s), doc'[s] = doc[s], adapter'[s] = adapter[s],
         requests' \in Nat, requests <= requests'
  PROVE  Notes(s)
<1>1. adapter[s] \in Pages!AdapterType
  BY DEF PageInv, PageTyped
<1> QED BY <1>1 DEF Notes

\* The page keeps an editor back only for a draft it knows.
LEMMA VerdictsKnow ==
  ASSUME NEW s, NEW song, NEW S \in Pages!Verdicts(s, song)
  PROVE  \A e \in S : adapter[e].dirty
BY DEF Pages!Verdicts, Pages!Objecting, Pages!LyricsUnsaved, Pages!FirstOf

LEMMA BlockedTurns ==
  ASSUME PageInv, NEW S, \A e \in S : adapter[e].dirty, adapter' = Pages!Blocked(S),
         doc' = doc, requests' = requests, \A e \in Studios : Fewer(e)
  PROVE  Turns
<1>1. /\ Pages!Studios = Studios /\ requests \in 0..MaxRequests /\ requests \in Nat /\ requests <= requests'
      /\ adapter \in [Studios -> Pages!AdapterType] /\ doc \in [Studios -> Pages!DocType]
  BY BrowserAssumption DEF Pages!Studios, Studios, PageInv, PageTyped
<1>2. adapter' = [e \in Studios |-> IF e \in S THEN [adapter[e] EXCEPT !.phase = "blocked"] ELSE adapter[e]]
  BY <1>1 DEF Pages!Blocked
<1>3. ASSUME NEW e \in Studios
      PROVE  /\ adapter'[e] \in Pages!AdapterType
             /\ adapter'[e].song = adapter[e].song /\ adapter'[e].req = adapter[e].req
             /\ adapter'[e].dirty = adapter[e].dirty
             /\ \/ adapter'[e].phase = adapter[e].phase
                \/ adapter'[e].phase = "blocked" /\ adapter[e].dirty
  BY <1>1, <1>2 DEF Pages!AdapterType, Pages!Phases
<1>4. \A e \in Studios : Notes(e)
  BY <1>1, <1>3 DEF Notes
<1>5. adapter' \in [Studios -> Pages!AdapterType]
  BY <1>2, <1>3
<1> QED BY <1>1, <1>4, <1>5 DEF Turns

LEMMA ActivateTurns ==
  ASSUME PageInv, NEW s \in Studios, NEW song \in Pages!SongOrNone, NEW retry \in BOOLEAN,
         Pages!Activate(s, song, retry), \A e \in Studios : Fewer(e)
  PROVE  Turns
<1>1. /\ requests \in 0..MaxRequests /\ requests \in Nat /\ MaxRequests \in Nat
      /\ adapter \in [Studios -> Pages!AdapterType] /\ doc \in [Studios -> Pages!DocType]
  BY BrowserAssumption DEF PageInv, PageTyped
<1>2. CASE Pages!HeldBack(s, song, retry)
  <2>1. adapter' = Pages!Blocked({s}) /\ doc' = doc /\ requests' = requests
    BY <1>2 DEF Pages!Activate
  <2>2. \A e \in {s} : adapter[e].dirty
    BY <1>2 DEF Pages!HeldBack
  <2> QED BY <2>1, <2>2, BlockedTurns
<1>3. CASE adapter' = adapter /\ doc' = doc /\ requests' = requests
  <2>1. \A e \in Studios : Notes(e)
    BY <1>1, <1>3, RestsNotes
  <2> QED BY <1>1, <1>3, <2>1 DEF Turns
<1>4. CASE /\ ~Pages!HeldBack(s, song, retry)
           /\ Pages!Reloads(s, song, retry) \/ adapter[s].phase = "idle"
           /\ requests < MaxRequests /\ requests' = requests + 1
           /\ adapter' = [adapter EXCEPT ![s] = Pages!Loading(s, song)]
           /\ Pages!Unload(s, song)
  <2>1. ~adapter[s].dirty
    BY <1>4 DEF Pages!HeldBack, PageInv, FrameInv, HeldFrame
  <2>2. requests' \in 0..MaxRequests /\ requests' \in Nat /\ requests <= requests'
    BY <1>1, <1>4
  <2>3. PICK a : a = adapter[s]
    OBVIOUS
  <2>4. PICK b : b = [a EXCEPT !.song = song, !.req = requests', !.phase = "loading", !.armed = TRUE]
    OBVIOUS
  <2>5. /\ b \in Pages!AdapterType /\ b.req = requests' /\ b.phase = "loading" /\ ~b.dirty
        /\ adapter' = [adapter EXCEPT ![s] = b]
    <3>1. a \in Pages!AdapterType /\ ~a.dirty
      BY <1>1, <2>1, <2>3
    <3>2. b = Pages!Loading(s, song)
      BY <1>4, <2>3, <2>4 DEF Pages!Loading
    <3>3. adapter' = [adapter EXCEPT ![s] = b]
      BY <1>4, <3>2
    <3> QED BY <2>2, <2>4, <3>1, <3>3 DEF Pages!AdapterType, Pages!Phases
  <2>6. /\ adapter' \in [Studios -> Pages!AdapterType] /\ adapter'[s] = b
        /\ \A e \in Studios : e # s => adapter'[e] = adapter[e]
    BY <1>1, <2>5
  <2>7. /\ doc' \in [Studios -> Pages!DocType] /\ \A e \in Studios : e # s => doc'[e] = doc[e]
        /\ \/ doc'[s] = doc[s]
           \/ /\ doc'[s] \in Pages!DocType /\ doc'[s].req = requests' /\ doc'[s].stage = "loading"
              /\ ~doc'[s].dirty /\ ~doc'[s].told /\ ~doc'[s].saving
              /\ doc'[s].song = IF s = "lyric" THEN doc'[s].next ELSE NoSong
    <3>1. CASE doc' = doc
      BY <1>1, <3>1
    <3>2. PICK d : d = [Pages!Blank EXCEPT !.req = requests + 1, !.next = song,
                          !.song = IF s = "lyric" THEN song ELSE NoSong, !.stage = "loading"]
      OBVIOUS
    <3>3. CASE doc' = [doc EXCEPT ![s] = d]
      <4>1. NoSong \in Pages!SongOrNone
        BY DEF Pages!SongOrNone
      <4>2. /\ d \in Pages!DocType /\ d.req = requests' /\ d.stage = "loading"
            /\ ~d.dirty /\ ~d.told /\ ~d.saving
            /\ d.song = IF s = "lyric" THEN d.next ELSE NoSong
        <5>1. requests' = requests + 1
          BY <1>4
        <5> QED BY <2>2, <3>2, <4>1, <5>1 DEF Pages!DocType, Pages!Stages, Pages!Blank
      <4>3. doc'[s] = d /\ doc' \in [Studios -> Pages!DocType]
        BY <1>1, <3>3, <4>2
      <4> QED BY <1>1, <3>3, <4>2, <4>3
    <3>4. doc' = doc \/ doc' = [doc EXCEPT ![s] = d]
      BY <1>4, <3>2 DEF Pages!Unload
    <3> QED BY <3>1, <3>3, <3>4
  <2>8. Renews(s)
    BY <1>4, <2>1, <2>5, <2>6, <2>7 DEF Renews
  <2>9. \A e \in Studios : e # s => Notes(e)
    BY <2>2, <2>6, <2>7, RestsNotes
  <2> QED BY <2>2, <2>6, <2>7, <2>8, <2>9 DEF Turns
<1> QED BY <1>2, <1>3, <1>4 DEF Pages!Activate

\* A navigation to a hash, and an editor opened from the page.
LEMMA NavigateTurns ==
  ASSUME PageInv, NEW h \in [page : Pages!Pages, song : Pages!SongOrNone], Pages!Navigate(h),
         \A e \in Studios : Fewer(e)
  PROVE  /\ Turns /\ active' \in Pages!SongOrNone /\ page' \in Pages!Pages /\ turned' \in BOOLEAN
         /\ hash' \in [page : Pages!Pages, song : Pages!SongOrNone]
<1>1. /\ active \in Pages!SongOrNone /\ page \in Pages!Pages /\ NoSong \in Pages!SongOrNone
      /\ h.page \in Pages!Pages /\ h.song \in Pages!SongOrNone /\ Pages!Studios = Studios
  <2>1. Pages!Studios = Studios
    BY DEF Pages!Studios, Studios
  <2>2. NoSong \in Pages!SongOrNone
    BY DEF Pages!SongOrNone
  <2>3. active \in Pages!SongOrNone /\ page \in Pages!Pages
    BY DEF PageInv, PageTyped
  <2>4. h.page \in Pages!Pages /\ h.song \in Pages!SongOrNone
    OBVIOUS
  <2> QED BY <2>1, <2>2, <2>3, <2>4
<1>2. PICK chosen : chosen = IF h.song # NoSong THEN h.song ELSE active
  OBVIOUS
<1>3. chosen \in Pages!SongOrNone
  BY <1>1, <1>2
<1>4. PICK refused \in IF h.page \in Pages!Studios THEN Pages!Verdicts(h.page, chosen) ELSE {{}} :
        IF refused # {} THEN
          /\ hash' = [page |-> page, song |-> NoSong] /\ turned' = (hash' # h)
          /\ adapter' = Pages!Blocked(refused)
          /\ UNCHANGED <<active, page, doc, requests>>
        ELSE
          /\ active' = chosen /\ page' = h.page /\ hash' = h /\ turned' = FALSE
          /\ IF h.page \in Pages!Studios THEN Pages!Activate(h.page, chosen, FALSE)
             ELSE UNCHANGED <<adapter, doc, requests>>
  BY <1>2 DEF Pages!Navigate
<1>5. CASE refused # {}
  <2>1. \A e \in refused : adapter[e].dirty
    BY <1>4, <1>5, VerdictsKnow
  <2>2. Turns
    BY <1>4, <1>5, <2>1, BlockedTurns
  <2> QED BY <1>1, <1>4, <1>5, <2>2
<1>6. CASE refused = {} /\ h.page \in Studios
  <2>1. Turns
    BY <1>1, <1>3, <1>4, <1>6, ActivateTurns
  <2> QED BY <1>1, <1>3, <1>4, <1>6, <2>1
<1>7. CASE refused = {} /\ h.page \notin Studios
  <2>1. adapter' = adapter /\ doc' = doc /\ requests' = requests
    BY <1>1, <1>4, <1>7
  <2>2. adapter' = Pages!Blocked({})
    BY <1>1, <2>1 DEF Pages!Blocked, PageInv, PageTyped
  <2>3. Turns
    BY <2>1, <2>2, BlockedTurns
  <2> QED BY <1>1, <1>3, <1>4, <1>7, <2>3
<1> QED BY <1>5, <1>6, <1>7

LEMMA PageOpenTurns ==
  ASSUME PageInv, NEW s \in Studios, NEW song \in Pages!SongOrNone, Pages!Open(s, song),
         \A e \in Studios : Fewer(e)
  PROVE  /\ Turns /\ active' \in Pages!SongOrNone /\ page' \in Pages!Pages /\ turned' \in BOOLEAN
         /\ hash' \in [page : Pages!Pages, song : Pages!SongOrNone]
<1>1. /\ active \in Pages!SongOrNone /\ page \in Pages!Pages /\ NoSong \in Pages!SongOrNone
      /\ turned \in BOOLEAN /\ hash \in [page : Pages!Pages, song : Pages!SongOrNone]
      /\ s \in Pages!Pages
  <2>1. s \in Pages!Pages
    BY DEF Pages!Pages, Pages!Studios, Studios
  <2>2. NoSong \in Pages!SongOrNone
    BY DEF Pages!SongOrNone
  <2> QED BY <2>1, <2>2 DEF PageInv, PageTyped
<1>2. PICK chosen : chosen = IF song # NoSong THEN song ELSE active
  OBVIOUS
<1>3. PICK target : target = [page |-> s, song |-> NoSong]
  OBVIOUS
<1>4. chosen \in Pages!SongOrNone /\ target \in [page : Pages!Pages, song : Pages!SongOrNone]
  BY <1>1, <1>2, <1>3
<1>5. PICK refused \in Pages!Verdicts(s, chosen) :
        IF refused # {} THEN
          /\ adapter' = Pages!Blocked(refused)
          /\ UNCHANGED <<active, page, hash, turned, doc, requests>>
        ELSE IF hash = target THEN
          /\ active' = chosen /\ page' = s /\ hash' = target /\ turned' = FALSE
          /\ Pages!Activate(s, chosen, FALSE)
        ELSE
          /\ active' = chosen /\ hash' = target /\ turned' = TRUE
          /\ UNCHANGED <<page, adapter, doc, requests>>
  BY <1>2, <1>3 DEF Pages!Open
<1>6. CASE refused # {}
  <2>1. \A e \in refused : adapter[e].dirty
    BY <1>5, VerdictsKnow
  <2>2. Turns
    BY <1>5, <1>6, <2>1, BlockedTurns
  <2> QED BY <1>1, <1>5, <1>6, <2>2
<1>7. CASE refused = {} /\ hash = target
  <2>1. Turns
    BY <1>4, <1>5, <1>7, ActivateTurns
  <2> QED BY <1>1, <1>4, <1>5, <1>7, <2>1
<1>8. CASE refused = {} /\ hash # target
  <2>1. adapter' = adapter /\ doc' = doc /\ requests' = requests
    BY <1>5, <1>8
  <2>2. adapter' = Pages!Blocked({})
    BY <2>1 DEF Pages!Blocked, PageInv, PageTyped, Pages!Studios, Studios
  <2>3. Turns
    BY <2>1, <2>2, BlockedTurns
  <2> QED BY <1>1, <1>4, <1>5, <1>8, <2>3
<1> QED BY <1>6, <1>7, <1>8

\* The document of one frame goes on, the other rests.
LEMMA WorkSteps ==
  ASSUME PageInv, NEW s \in Studios, NEW d \in Pages!DocType, d.req = doc[s].req,
         doc[s].stage # "blank", doc[s].opened => d.opened, Staged(s, d),
         doc' = [doc EXCEPT ![s] = d], adapter' = adapter, requests' = requests,
         \/ reports' = reports /\ Silent(s)
         \/ \E m : /\ Adds(s, m) /\ Len(reports[s]) < MaxReports
                   /\ reports' = [reports EXCEPT ![s] = Append(@, m)]
  PROVE  FramesGo
<1>1. /\ requests \in 0..MaxRequests /\ requests \in Nat /\ requests <= requests'
      /\ adapter \in [Studios -> Pages!AdapterType] /\ doc \in [Studios -> Pages!DocType]
      /\ reports \in [Studios -> Seq(Pages!ReportType)]
  BY BrowserAssumption DEF PageInv, PageTyped
<1>2. doc'[s] = d /\ doc' \in [Studios -> Pages!DocType] /\ \A e \in Studios : e # s => doc'[e] = doc[e]
  BY <1>1
<1>3. /\ reports' \in [Studios -> Seq(Pages!ReportType)]
      /\ \A e \in Studios : e # s => reports'[e] = reports[e]
      /\ \/ reports'[s] = reports[s] /\ Silent(s)
         \/ \E m : /\ Adds(s, m) /\ Len(reports[s]) < MaxReports
                   /\ reports'[s] = Append(reports[s], m)
  <2>1. CASE reports' = reports /\ Silent(s)
    BY <1>1, <2>1
  <2>2. ASSUME NEW m, Adds(s, m), Len(reports[s]) < MaxReports,
               reports' = [reports EXCEPT ![s] = Append(@, m)]
        PROVE  /\ reports' \in [Studios -> Seq(Pages!ReportType)]
               /\ \A e \in Studios : e # s => reports'[e] = reports[e]
               /\ reports'[s] = Append(reports[s], m)
    <3>1. reports[s] \in Seq(Pages!ReportType) /\ m \in Pages!ReportType
      BY <1>1, <2>2 DEF Adds
    <3>2. Append(reports[s], m) \in Seq(Pages!ReportType)
      BY <3>1
    <3> QED BY <1>1, <2>2, <3>2
  <2> QED BY <2>1, <2>2
<1>4. Works(s)
  BY <1>2, <1>3 DEF Works
<1>5. \A e \in Studios : e # s => Notes(e)
  BY <1>1, <1>2, <1>3, RestsNotes DEF Fewer
<1> QED BY <1>1, <1>2, <1>3, <1>4, <1>5 DEF FramesGo, FrameStep

\* What is typed and known of a frame whose document takes a step.
LEMMA FrameFacts ==
  ASSUME PageInv, NEW s \in Studios
  PROVE  /\ s \in {"lyric", "motion"} /\ doc[s] \in Pages!DocType /\ Staged(s, doc[s])
         /\ NoSong \in Pages!SongOrNone /\ NoSong \notin Songs
         /\ signedIn \in BOOLEAN /\ gestures \in Nat
         /\ PageTyped
BY BrowserAssumption DEF PageInv, PageTyped, FrameInv, Studios, Pages!SongOrNone

LEMMA BootSteps == ASSUME PageInv, NEW s \in Studios, Pages!Boot(s) PROVE FramesGo
<1>0. PICK o : o = doc[s]
  OBVIOUS
<1>1. PICK d : d = [o EXCEPT !.stage = "open"]
  OBVIOUS
<1>2. PICK m : m = Pages!Report(s, "READY", o)
  OBVIOUS
<1>3. /\ o \in Pages!DocType /\ Staged(s, o) /\ o.stage = "loading" /\ o.next = NoSong
      /\ doc' = [doc EXCEPT ![s] = d] /\ reports' = [reports EXCEPT ![s] = Append(@, m)]
      /\ Len(reports[s]) < MaxReports /\ adapter' = adapter /\ requests' = requests
  BY <1>0, <1>1, <1>2, FrameFacts
     DEF Pages!Boot, Pages!Room, Pages!Becomes, Pages!Send, Pages!Elsewhere
<1>4. /\ d \in Pages!DocType /\ d.req = o.req /\ d.opened = o.opened /\ d.song = NoSong
      /\ d.stage = "open" /\ d.saving = o.saving /\ d.dirty = o.dirty /\ d.told = o.told
  BY <1>1, <1>3 DEF Pages!DocType, Pages!Stages, Staged
<1>5. Staged(s, d)
  BY <1>3, <1>4 DEF Staged, Shows
<1>6. doc'[s] = d
  BY <1>3 DEF PageInv, PageTyped
<1>7. Adds(s, m)
  <2>1. /\ m \in Pages!ReportType /\ m.req = o.req /\ m.kind = "READY" /\ m.dirty = o.told
    BY <1>2, <1>3 DEF Pages!Report, Pages!ReportType, Pages!DocType, Pages!Kinds
  <2>2. ~Shows(s, d)
    BY <1>4 DEF Shows
  <2>3. m.dirty => d.opened
    BY <1>3, <1>4, <2>1 DEF Staged
  <2> QED BY <1>0, <1>6, <2>1, <2>2, <2>3 DEF Adds, Silent, Tells
<1>8. doc[s].stage # "blank" /\ (doc[s].opened => d.opened) /\ d.req = doc[s].req
  BY <1>0, <1>3, <1>4
<1> QED BY <1>3, <1>4, <1>5, <1>7, <1>8, WorkSteps

LEMMA FetchSteps == ASSUME PageInv, Pages!Fetch PROVE FramesGo
<1>0. PICK o : o = doc["motion"]
  OBVIOUS
<1>1. PICK d : d = [o EXCEPT !.stage = "fetched", !.song = o.next, !.dirty = FALSE]
  OBVIOUS
<1>2. "motion" \in Studios
  BY DEF Studios
<1>3. /\ o \in Pages!DocType /\ Staged("motion", o) /\ o.stage = "loading" /\ o.next # NoSong
      /\ doc' = [doc EXCEPT !["motion"] = d] /\ reports' = reports
      /\ adapter' = adapter /\ requests' = requests
  BY <1>0, <1>1, <1>2, FrameFacts DEF Pages!Fetch, Pages!Becomes, Pages!Elsewhere
<1>4. /\ d \in Pages!DocType /\ d.req = o.req /\ d.opened = o.opened /\ d.song = o.next /\ d.next = o.next
      /\ d.stage = "fetched" /\ d.saving = o.saving /\ d.dirty = FALSE /\ d.told = o.told
  BY <1>1, <1>3 DEF Pages!DocType, Pages!Stages
<1>5. Staged("motion", d)
  BY <1>3, <1>4 DEF Staged, Shows
<1>6. doc'["motion"] = d
  BY <1>2, <1>3 DEF PageInv, PageTyped
<1>7. Silent("motion")
  BY <1>4, <1>6 DEF Silent, Shows
<1>8. doc["motion"].stage # "blank" /\ (doc["motion"].opened => d.opened) /\ d.req = doc["motion"].req
  BY <1>0, <1>3, <1>4
<1> QED BY <1>2, <1>3, <1>4, <1>5, <1>7, <1>8, WorkSteps

LEMMA LoadedSteps ==
  ASSUME PageInv, NEW s \in Studios, NEW draft \in BOOLEAN, Pages!Loaded(s, draft) PROVE FramesGo
<1>0. PICK o : o = doc[s]
  OBVIOUS
<1>1. PICK d : d = [o EXCEPT !.stage = "open", !.opened = TRUE, !.dirty = draft,
                             !.told = s = "lyric" /\ draft]
  OBVIOUS
<1>2. PICK m : m = Pages!Report(s, "LOADED", d)
  OBVIOUS
<1>3. /\ o \in Pages!DocType /\ Staged(s, o) /\ o.next # NoSong
      /\ o.stage = IF s = "lyric" THEN "loading" ELSE "fetched"
      /\ doc' = [doc EXCEPT ![s] = d] /\ reports' = [reports EXCEPT ![s] = Append(@, m)]
      /\ Len(reports[s]) < MaxReports /\ adapter' = adapter /\ requests' = requests
  BY <1>0, <1>1, <1>2, FrameFacts
     DEF Pages!Loaded, Pages!Room, Pages!Becomes, Pages!Send, Pages!Elsewhere
<1>4. /\ d \in Pages!DocType /\ d.req = o.req /\ d.opened /\ d.song = o.song /\ d.next = o.next
      /\ d.stage = "open" /\ d.saving = o.saving /\ d.dirty = draft
      /\ d.told = (s = "lyric" /\ draft)
  BY <1>1, <1>3 DEF Pages!DocType, Pages!Stages
<1>5. o.song = o.next /\ ~o.saving
  BY <1>3 DEF Staged, Pages!DocType
<1>6. Staged(s, d)
  BY <1>3, <1>4, <1>5 DEF Staged, Shows
<1>7. doc'[s] = d
  BY <1>3 DEF PageInv, PageTyped
<1>8. Adds(s, m)
  <2>1. m \in Pages!ReportType /\ m.req = o.req /\ m.kind = "LOADED" /\ m.dirty = d.told /\ m.song = d.song
    BY <1>2, <1>3, <1>4 DEF Pages!Report, Pages!ReportType, Pages!DocType, Pages!Kinds
  <2> QED BY <1>0, <1>4, <1>7, <2>1 DEF Adds
<1>9. doc[s].stage # "blank" /\ (doc[s].opened => d.opened) /\ d.req = doc[s].req
  BY <1>0, <1>3, <1>4
<1> QED BY <1>3, <1>4, <1>6, <1>8, <1>9, WorkSteps

LEMMA LoadFailsSteps ==
  ASSUME PageInv, NEW s \in Studios, Pages!LoadFails(s) PROVE FramesGo
<1>0. PICK o : o = doc[s]
  OBVIOUS
<1>1. PICK d : d = [o EXCEPT !.stage = IF s = "motion" /\ o.song # NoSong THEN "open" ELSE "failed"]
  OBVIOUS
<1>2. PICK m : m = Pages!Report(s, "ERROR", [o EXCEPT !.song = o.next])
  OBVIOUS
<1>3. /\ o \in Pages!DocType /\ Staged(s, o) /\ o.next # NoSong /\ o.stage = "loading"
      /\ doc' = [doc EXCEPT ![s] = d] /\ reports' = [reports EXCEPT ![s] = Append(@, m)]
      /\ Len(reports[s]) < MaxReports /\ adapter' = adapter /\ requests' = requests
      /\ s \in {"lyric", "motion"}
  BY <1>0, <1>1, <1>2, FrameFacts
     DEF Pages!LoadFails, Pages!Room, Pages!Becomes, Pages!Send, Pages!Elsewhere
<1>4. /\ d \in Pages!DocType /\ d.req = o.req /\ d.opened = o.opened /\ d.song = o.song /\ d.next = o.next
      /\ d.stage = IF s = "motion" /\ o.song # NoSong THEN "open" ELSE "failed"
      /\ d.saving = o.saving /\ d.dirty = o.dirty /\ d.told = o.told
  BY <1>1, <1>3 DEF Pages!DocType, Pages!Stages
<1>5. Staged(s, d) /\ (Shows(s, d) => Shows(s, o))
  BY <1>3, <1>4 DEF Staged, Shows
<1>6. doc'[s] = d
  BY <1>3 DEF PageInv, PageTyped
<1>7. Adds(s, m)
  <2>1. m \in Pages!ReportType /\ m.req = o.req /\ m.kind = "ERROR" /\ m.dirty = o.told
    BY <1>2, <1>3 DEF Pages!Report, Pages!ReportType, Pages!DocType, Pages!Kinds
  <2>2. m.dirty => d.opened
    BY <1>3, <1>4, <2>1 DEF Staged
  <2> QED BY <1>0, <1>4, <1>5, <1>6, <2>1, <2>2 DEF Adds, Silent, Tells
<1>8. doc[s].stage # "blank" /\ (doc[s].opened => d.opened) /\ d.req = doc[s].req
  BY <1>0, <1>3, <1>4
<1> QED BY <1>3, <1>4, <1>5, <1>7, <1>8, WorkSteps

\* The document tells its draft flag, where the page does not have it yet.
LEMMA TellSteps ==
  ASSUME PageInv, NEW s \in Studios, NEW e \in Pages!DocType, Pages!Tell(s, e),
         doc[s].stage = "open", e.stage = "open", e.song = doc[s].song, e.next = doc[s].next,
         e.req = doc[s].req, e.told = doc[s].told, e.opened = doc[s].opened, doc[s].opened,
         e.dirty => e.song # NoSong, e.saving => e.song # NoSong,
         adapter' = adapter, requests' = requests
  PROVE  FramesGo
<1>1. PICK d : d = [e EXCEPT !.told = e.dirty]
  OBVIOUS
<1>2. PICK m : m = Pages!Report(s, "STATE", d)
  OBVIOUS
<1>3. /\ doc' = [doc EXCEPT ![s] = d]
      /\ IF e.told = e.dirty THEN reports' = reports
         ELSE Len(reports[s]) < MaxReports /\ reports' = [reports EXCEPT ![s] = Append(@, m)]
  BY <1>1, <1>2 DEF Pages!Tell, Pages!Room, Pages!Becomes, Pages!Send
<1>4. /\ d \in Pages!DocType /\ d.req = e.req /\ d.opened = e.opened /\ d.song = e.song /\ d.next = e.next
      /\ d.stage = e.stage /\ d.saving = e.saving /\ d.dirty = e.dirty /\ d.told = e.dirty
  BY <1>1 DEF Pages!DocType
<1>5. Staged(s, d) /\ (Shows(s, d) => Shows(s, doc[s]))
  BY <1>4 DEF Staged, Shows
<1>6. doc'[s] = d
  BY <1>3 DEF PageInv, PageTyped
<1>7. CASE e.told = e.dirty
  <2>1. Silent(s) /\ reports' = reports
    BY <1>3, <1>4, <1>5, <1>6, <1>7 DEF Silent
  <2> QED BY <1>3, <1>4, <1>5, <2>1, WorkSteps
<1>8. CASE e.told # e.dirty
  <2>1. m \in Pages!ReportType /\ m.req = doc[s].req /\ m.kind = "STATE" /\ m.dirty = d.told /\ m.song = d.song
    BY <1>2, <1>4 DEF Pages!Report, Pages!ReportType, Pages!DocType, Pages!Kinds
  <2>2. Adds(s, m)
    BY <1>4, <1>5, <1>6, <2>1 DEF Adds
  <2> QED BY <1>3, <1>4, <1>5, <1>8, <2>2, WorkSteps
<1> QED BY <1>7, <1>8

LEMMA EditSteps == ASSUME PageInv, NEW s \in Studios, Pages!Edit(s) PROVE FramesGo
<1>1. PICK e : e = [doc[s] EXCEPT !.dirty = TRUE]
  OBVIOUS
<1>2. /\ doc[s] \in Pages!DocType /\ Staged(s, doc[s]) /\ doc[s].stage = "open" /\ doc[s].song # NoSong
      /\ Pages!Tell(s, e) /\ adapter' = adapter /\ requests' = requests
  BY <1>1, FrameFacts DEF Pages!Edit, Pages!Elsewhere
<1>3. /\ e \in Pages!DocType /\ e.stage = doc[s].stage /\ e.song = doc[s].song /\ e.next = doc[s].next
      /\ e.req = doc[s].req /\ e.told = doc[s].told /\ e.opened = doc[s].opened
  BY <1>1, <1>2 DEF Pages!DocType
<1>4. doc[s].opened
  BY <1>2 DEF Staged, Shows
<1> QED BY <1>2, <1>3, <1>4, TellSteps

LEMMA RefreshSteps == ASSUME PageInv, Pages!Refresh PROVE FramesGo
<1>1. "motion" \in Studios
  BY DEF Studios
<1>2. PICK e : e = doc["motion"]
  OBVIOUS
<1>3. /\ e \in Pages!DocType /\ Staged("motion", e) /\ e.stage = "open" /\ e.told # e.dirty
      /\ Pages!Tell("motion", e) /\ adapter' = adapter /\ requests' = requests
  BY <1>1, <1>2, FrameFacts DEF Pages!Refresh, Pages!Elsewhere
<1>4. e.told \/ e.dirty
  BY <1>3 DEF Pages!DocType
<1>5. e.opened /\ (e.dirty => e.song # NoSong) /\ (e.saving => e.song # NoSong)
  BY <1>3, <1>4 DEF Staged
<1> QED BY <1>1, <1>2, <1>3, <1>5, TellSteps

LEMMA SaveFailsSteps == ASSUME PageInv, NEW s \in Studios, Pages!SaveFails(s) PROVE FramesGo
<1>1. PICK e : e = [doc[s] EXCEPT !.saving = FALSE]
  OBVIOUS
<1>2. /\ doc[s] \in Pages!DocType /\ Staged(s, doc[s]) /\ doc[s].saving
      /\ Pages!Tell(s, e) /\ adapter' = adapter /\ requests' = requests
  BY <1>1, FrameFacts DEF Pages!SaveFails, Pages!Elsewhere
<1>3. /\ e \in Pages!DocType /\ e.stage = doc[s].stage /\ e.song = doc[s].song /\ e.next = doc[s].next
      /\ e.req = doc[s].req /\ e.told = doc[s].told /\ e.opened = doc[s].opened
  BY <1>1, <1>2 DEF Pages!DocType
<1>4. doc[s].stage = "open" /\ doc[s].song # NoSong /\ doc[s].opened
  BY <1>2 DEF Staged, Shows
<1> QED BY <1>2, <1>3, <1>4, TellSteps

LEMMA SaveSteps == ASSUME PageInv, NEW s \in Studios, Pages!Save(s) PROVE FramesGo
<1>0. PICK o : o = doc[s]
  OBVIOUS
<1>1. PICK d : d = [o EXCEPT !.saving = TRUE]
  OBVIOUS
<1>2. /\ o \in Pages!DocType /\ Staged(s, o) /\ o.stage = "open" /\ o.dirty
      /\ doc' = [doc EXCEPT ![s] = d] /\ reports' = reports /\ adapter' = adapter /\ requests' = requests
  BY <1>0, <1>1, FrameFacts DEF Pages!Save, Pages!Becomes, Pages!Elsewhere
<1>3. /\ d \in Pages!DocType /\ d.req = o.req /\ d.opened = o.opened /\ d.song = o.song /\ d.next = o.next
      /\ d.stage = o.stage /\ d.dirty = o.dirty /\ d.told = o.told
  BY <1>1, <1>2 DEF Pages!DocType
<1>4. Staged(s, d) /\ (Shows(s, d) <=> Shows(s, o))
  BY <1>2, <1>3 DEF Staged, Shows
<1>5. doc'[s] = d
  BY <1>2 DEF PageInv, PageTyped
<1>6. Silent(s)
  BY <1>0, <1>3, <1>4, <1>5 DEF Silent
<1>7. doc[s].stage # "blank" /\ (doc[s].opened => d.opened) /\ d.req = doc[s].req
  BY <1>0, <1>2, <1>3
<1> QED BY <1>2, <1>3, <1>4, <1>6, <1>7, WorkSteps

LEMMA ReceiptSteps ==
  ASSUME PageInv, NEW s \in Studios, NEW newer \in BOOLEAN, Pages!Receipt(s, newer) PROVE FramesGo
<1>0. PICK o : o = doc[s]
  OBVIOUS
<1>1. PICK d : d = [o EXCEPT !.saving = FALSE, !.dirty = newer, !.told = newer]
  OBVIOUS
<1>2. PICK m : m = Pages!Report(s, "SAVED", d)
  OBVIOUS
<1>3. /\ o \in Pages!DocType /\ Staged(s, o) /\ o.saving
      /\ doc' = [doc EXCEPT ![s] = d] /\ reports' = [reports EXCEPT ![s] = Append(@, m)]
      /\ Len(reports[s]) < MaxReports /\ adapter' = adapter /\ requests' = requests
  BY <1>0, <1>1, <1>2, FrameFacts
     DEF Pages!Receipt, Pages!Room, Pages!Becomes, Pages!Send, Pages!Elsewhere
<1>4. /\ d \in Pages!DocType /\ d.req = o.req /\ d.opened = o.opened /\ d.song = o.song /\ d.next = o.next
      /\ d.stage = o.stage /\ ~d.saving /\ d.dirty = newer /\ d.told = newer
  BY <1>1, <1>3 DEF Pages!DocType
<1>5. o.stage = "open" /\ o.song # NoSong /\ o.opened
  BY <1>3 DEF Staged, Shows
<1>6. Staged(s, d) /\ (Shows(s, d) => Shows(s, o))
  BY <1>4, <1>5 DEF Staged, Shows
<1>7. doc'[s] = d
  BY <1>3 DEF PageInv, PageTyped
<1>8. Adds(s, m)
  <2>1. m \in Pages!ReportType /\ m.req = o.req /\ m.kind = "SAVED" /\ m.dirty = d.told /\ m.song = d.song
    BY <1>2, <1>3, <1>4 DEF Pages!Report, Pages!ReportType, Pages!DocType, Pages!Kinds
  <2> QED BY <1>0, <1>4, <1>5, <1>6, <1>7, <2>1 DEF Adds
<1>9. doc[s].stage # "blank" /\ (doc[s].opened => d.opened) /\ d.req = doc[s].req
  BY <1>0, <1>4, <1>5
<1> QED BY <1>3, <1>4, <1>6, <1>8, <1>9, WorkSteps

LEMMA PickSteps ==
  ASSUME PageInv, NEW s \in Studios, NEW song \in Songs, Pages!Pick(s, song) PROVE FramesGo
<1>0. PICK o : o = doc[s]
  OBVIOUS
<1>1. PICK d : d = [o EXCEPT !.next = song, !.stage = "loading", !.saving = FALSE,
                             !.song = IF s = "lyric" THEN song ELSE @, !.dirty = s # "lyric" /\ @]
  OBVIOUS
<1>2. /\ o \in Pages!DocType /\ Staged(s, o) /\ o.stage \in {"open", "failed"} /\ song # NoSong
      /\ doc' = [doc EXCEPT ![s] = d] /\ reports' = reports /\ adapter' = adapter /\ requests' = requests
      /\ s \in {"lyric", "motion"} /\ song \in Pages!SongOrNone
  BY <1>0, <1>1, FrameFacts DEF Pages!Pick, Pages!Becomes, Pages!Elsewhere, Pages!SongOrNone
<1>3. /\ d \in Pages!DocType /\ d.req = o.req /\ d.opened = o.opened /\ d.next = song
      /\ d.song = IF s = "lyric" THEN song ELSE o.song
      /\ d.stage = "loading" /\ ~d.saving /\ d.dirty = (s # "lyric" /\ o.dirty) /\ d.told = o.told
  BY <1>1, <1>2 DEF Pages!DocType, Pages!Stages
<1>4. Staged(s, d) /\ (Shows(s, d) => Shows(s, o) /\ d.song = o.song)
  BY <1>2, <1>3 DEF Staged, Shows
<1>5. doc'[s] = d
  BY <1>2 DEF PageInv, PageTyped
<1>6. Silent(s)
  BY <1>0, <1>3, <1>4, <1>5 DEF Silent
<1>7. doc[s].stage # "blank" /\ (doc[s].opened => d.opened) /\ d.req = doc[s].req
  BY <1>0, <1>2, <1>3
<1> QED BY <1>2, <1>3, <1>4, <1>6, <1>7, WorkSteps

LEMMA CrossSteps == ASSUME PageInv, NEW s \in Studios, Pages!Cross(s) PROVE FramesGo
<1>1. PICK d : d = doc[s]
  OBVIOUS
<1>2. PICK m : m = Pages!Report(s, "SWITCH", d)
  OBVIOUS
<1>3. /\ d \in Pages!DocType /\ Staged(s, d) /\ d.stage = "open" /\ doc' = doc
      /\ reports' = [reports EXCEPT ![s] = Append(@, m)]
      /\ Len(reports[s]) < MaxReports /\ adapter' = adapter /\ requests' = requests
  BY <1>1, <1>2, FrameFacts DEF Pages!Cross, Pages!Room, Pages!Send, Pages!Elsewhere
<1>4. doc' = [doc EXCEPT ![s] = d]
  BY <1>1, <1>3 DEF PageInv, PageTyped
<1>5. Silent(s)
  BY <1>3 DEF Silent
<1>6. Adds(s, m)
  <2>1. m \in Pages!ReportType /\ m.req = d.req /\ m.kind = "SWITCH" /\ m.dirty = d.told
    BY <1>2, <1>3 DEF Pages!Report, Pages!ReportType, Pages!DocType, Pages!Kinds
  <2>2. m.dirty => d.opened
    BY <1>3, <2>1 DEF Staged
  <2> QED BY <1>1, <1>3, <1>5, <2>1, <2>2 DEF Adds, Tells
<1>7. doc[s].stage # "blank" /\ (doc[s].opened => d.opened) /\ d.req = doc[s].req
  BY <1>1, <1>3
<1> QED BY <1>3, <1>4, <1>6, <1>7, WorkSteps

\* The page takes a report: what it changes of the other frame is only that
\* its design is stale.
LEMMA DeliverSteps ==
  ASSUME PageInv, NEW s \in Studios, Pages!Deliver(s)
  PROVE  FramesGo /\ active' \in Pages!SongOrNone
<1>0. PICK m : m = Head(reports[s])
  OBVIOUS
<1>1. /\ requests \in 0..MaxRequests /\ requests \in Nat /\ requests' = requests /\ requests <= requests'
      /\ adapter \in [Studios -> Pages!AdapterType] /\ doc \in [Studios -> Pages!DocType]
      /\ reports \in [Studios -> Seq(Pages!ReportType)] /\ active \in Pages!SongOrNone
      /\ doc' = doc /\ reports[s] # <<>> /\ m.kind # "SWITCH"
      /\ reports' = [reports EXCEPT ![s] = Tail(@)]
      /\ IF Pages!Current(s, m)
         THEN /\ adapter' = Pages!Invalidated(s, m, [adapter EXCEPT ![s] = Pages!Received(s, m)])
              /\ active' = IF m.kind = "LOADED" /\ m.song # NoSong THEN m.song ELSE active
         ELSE UNCHANGED <<adapter, active>>
  BY <1>0, BrowserAssumption DEF Pages!Deliver, PageInv, PageTyped
<1>2. PICK q : q = reports[s]
  OBVIOUS
<1>3. q \in Seq(Pages!ReportType) /\ q # <<>> /\ m = Head(q)
  BY <1>0, <1>1, <1>2
<1>4. m \in Pages!ReportType /\ Tail(q) \in Seq(Pages!ReportType)
  BY <1>3
<1>5. /\ reports' \in [Studios -> Seq(Pages!ReportType)] /\ reports'[s] = Tail(reports[s])
      /\ \A e \in Studios : e # s => reports'[e] = reports[e]
  BY <1>1, <1>2, <1>4
<1>6. PICK b : b = Pages!Received(s, m)
  OBVIOUS
<1>7. b \in Pages!AdapterType
  <2>1. adapter[s] \in Pages!AdapterType
    BY <1>1
  <2> QED BY <1>1, <1>4, <1>6, <2>1, ReceivedFacts
<1>8. m.song \in Pages!SongOrNone
  BY <1>4 DEF Pages!ReportType
<1>9. PICK A : A = [adapter EXCEPT ![s] = b]
  OBVIOUS
<1>10. A \in [Studios -> Pages!AdapterType] /\ A[s] = b /\ \A e \in Studios : e # s => A[e] = adapter[e]
  BY <1>1, <1>7, <1>9
<1>11. /\ adapter' \in [Studios -> Pages!AdapterType]
       /\ adapter'[s] = IF Pages!Current(s, m) THEN Pages!Received(s, m) ELSE adapter[s]
       /\ \A e \in Studios : e # s => /\ adapter'[e].song = adapter[e].song
                                      /\ adapter'[e].req = adapter[e].req
                                      /\ adapter'[e].dirty = adapter[e].dirty
                                      /\ adapter'[e].phase = adapter[e].phase
  <2>1. CASE ~Pages!Current(s, m)
    BY <1>1, <2>1
  <2>2. CASE Pages!Current(s, m) /\ adapter' = A
    BY <1>6, <1>10, <2>2
  <2>3. CASE /\ Pages!Current(s, m) /\ s = "lyric" /\ m.song # NoSong
             /\ adapter' = [A EXCEPT !["motion"].stale = @ \cup {m.song}]
    <3>1. "motion" \in Studios /\ "motion" # s /\ m.song \in Songs /\ \A e \in Studios : e # s => e = "motion"
      BY <1>8, <2>3 DEF Studios, Pages!SongOrNone
    <3>2. PICK c : c = A["motion"]
      OBVIOUS
    <3>3. PICK c1 : c1 = [c EXCEPT !.stale = c.stale \cup {m.song}]
      OBVIOUS
    <3>4. c \in Pages!AdapterType /\ adapter' = [A EXCEPT !["motion"] = c1]
      BY <1>10, <2>3, <3>1, <3>2, <3>3
    <3>5. /\ c1 \in Pages!AdapterType /\ c1.song = c.song /\ c1.req = c.req /\ c1.dirty = c.dirty
          /\ c1.phase = c.phase
      BY <3>1, <3>3, <3>4 DEF Pages!AdapterType
    <3> QED BY <1>6, <1>10, <2>3, <3>1, <3>2, <3>4, <3>5
  <2> QED BY <1>1, <1>6, <1>9, <2>1, <2>2, <2>3 DEF Pages!Invalidated
<1>12. active' \in Pages!SongOrNone
  BY <1>1, <1>8
<1>13. Delivers(s)
  BY <1>0, <1>1, <1>5, <1>11 DEF Delivers
<1>14. \A e \in Studios : e # s => Notes(e)
  BY <1>1, <1>5, <1>11 DEF Notes, Fewer
<1> QED BY <1>1, <1>5, <1>11, <1>12, <1>13, <1>14 DEF FramesGo, FrameStep

LEMMA LogoutSteps == ASSUME PageInv, Pages!Logout PROVE FramesGo
<1>1. /\ requests \in 0..MaxRequests /\ requests' = requests /\ reports' = reports
      /\ adapter' = [s \in Studios |-> Pages!IdleAdapter] /\ doc' = [s \in Studios |-> Pages!Blank]
      /\ reports \in [Studios -> Seq(Pages!ReportType)]
  BY DEF Pages!Logout, PageInv, PageTyped, Pages!Studios, Studios
<1>2. \A s \in Studios : Clears(s)
  BY <1>1 DEF Clears
<1>3. 0 \in 0..MaxRequests /\ NoSong \in Pages!SongOrNone
  BY BrowserAssumption DEF Pages!SongOrNone
<1>4. Pages!IdleAdapter \in Pages!AdapterType /\ Pages!Blank \in Pages!DocType
  BY <1>3 DEF Pages!IdleAdapter, Pages!AdapterType, Pages!Phases, Pages!Blank, Pages!DocType,
              Pages!Stages, Pages!NoRequest
<1> QED BY <1>1, <1>2, <1>4 DEF FramesGo, FrameStep

LEMMA TimeoutSteps == ASSUME PageInv, NEW s \in Studios, Pages!Timeout(s) PROVE FramesGo
<1>0. PICK a : a = adapter[s]
  OBVIOUS
<1>1. PICK b : b = [a EXCEPT !.phase = "error", !.armed = FALSE]
  OBVIOUS
<1>2. /\ requests \in 0..MaxRequests /\ requests \in Nat /\ requests' = requests /\ requests <= requests'
      /\ adapter \in [Studios -> Pages!AdapterType] /\ doc \in [Studios -> Pages!DocType]
      /\ reports \in [Studios -> Seq(Pages!ReportType)] /\ doc' = doc /\ reports' = reports
  <2>1. doc' = doc /\ reports' = reports /\ requests' = requests
    BY DEF Pages!Timeout
  <2> QED BY <2>1, BrowserAssumption DEF PageInv, PageTyped
<1>3. adapter' = [adapter EXCEPT ![s] = b]
  <2>1. adapter' = [adapter EXCEPT ![s] = [adapter[s] EXCEPT !.phase = "error", !.armed = FALSE]]
    BY ZenonT(60) DEF Pages!Timeout
  <2> QED BY <1>0, <1>1, <2>1
<1>4. /\ b \in Pages!AdapterType /\ b.song = a.song /\ b.req = a.req /\ b.dirty = a.dirty
      /\ b.phase = "error"
  <2>1. a \in Pages!AdapterType
    BY <1>0, <1>2
  <2> QED BY <1>1, <2>1 DEF Pages!AdapterType, Pages!Phases
<1>5. \A e \in Studios : Notes(e)
  BY <1>0, <1>2, <1>3, <1>4 DEF Notes, Fewer
<1> QED BY <1>2, <1>3, <1>4, <1>5 DEF FramesGo, FrameStep

LEMMA RestSteps ==
  ASSUME PageInv, adapter' = adapter, doc' = doc, reports' = reports, requests' = requests
  PROVE  FramesGo
<1>1. /\ requests \in 0..MaxRequests /\ requests' \in Nat /\ requests <= requests'
      /\ adapter \in [Studios -> Pages!AdapterType] /\ doc \in [Studios -> Pages!DocType]
      /\ reports \in [Studios -> Seq(Pages!ReportType)]
  BY BrowserAssumption DEF PageInv, PageTyped
<1>2. \A e \in Studios : Notes(e)
  BY <1>1, RestsNotes DEF Fewer
<1> QED BY <1>1, <1>2 DEF FramesGo, FrameStep

LEMMA DeliverSwitchSteps ==
  ASSUME PageInv, NEW s \in Studios, Pages!DeliverSwitch(s) PROVE FramesGo /\ PageKept
<1>1. PICK q : q = reports[s]
  OBVIOUS
<1>2. PICK song : song = Head(q).song
  OBVIOUS
<1>3. PICK e : e = Pages!Other(s)
  OBVIOUS
<1>4. /\ q \in Seq(Pages!ReportType) /\ q # <<>> /\ Head(q).kind = "SWITCH" /\ Pages!Open(e, song)
      /\ reports' = [reports EXCEPT ![s] = Tail(q)] /\ signedIn' = signedIn /\ gestures' = gestures
      /\ reports \in [Studios -> Seq(Pages!ReportType)]
  BY <1>1, <1>2, <1>3 DEF Pages!DeliverSwitch, PageInv, PageTyped
<1>5. Head(q) \in Pages!ReportType /\ Tail(q) \in Seq(Pages!ReportType)
  BY <1>4
<1>6. song \in Pages!SongOrNone /\ e \in Studios
  BY <1>2, <1>3, <1>5 DEF Pages!ReportType, Pages!Other, Studios
<1>7. reports' \in [Studios -> Seq(Pages!ReportType)] /\ \A r \in Studios : Fewer(r)
  BY <1>1, <1>4, <1>5 DEF Fewer
<1>8. /\ Turns /\ active' \in Pages!SongOrNone /\ page' \in Pages!Pages /\ turned' \in BOOLEAN
      /\ hash' \in [page : Pages!Pages, song : Pages!SongOrNone]
  BY <1>4, <1>6, <1>7, PageOpenTurns
<1>9. signedIn' \in BOOLEAN /\ gestures' \in 0..MaxGestures
  BY <1>4 DEF PageInv, PageTyped
<1> QED BY <1>7, <1>8, <1>9 DEF Turns, FramesGo, FrameStep, PageKept

LEMMA GestureKept == ASSUME PageInv, Pages!Gesture PROVE gestures' \in 0..MaxGestures
BY BrowserAssumption DEF PageInv, PageTyped, Pages!Gesture

\* The steps at the page: what opens an editor, the hash, the session.
LEMMA PageSteps ==
  ASSUME PageInv,
         \/ \E s \in Studios, song \in Pages!SongOrNone : Pages!OpenFromPage(s, song)
         \/ Pages!HashChange
         \/ \E h \in [page : Pages!Pages, song : LinkSongs \cup {NoSong}] : Pages!ChooseHash(h)
         \/ \E s \in Studios : Pages!RetryLoad(s)
         \/ Pages!Logout \/ Pages!Login \/ UNCHANGED siteVars
  PROVE  FramesGo /\ PageKept
<1>1. /\ signedIn \in BOOLEAN /\ active \in Pages!SongOrNone /\ page \in Pages!Pages
      /\ turned \in BOOLEAN /\ gestures \in 0..MaxGestures /\ NoSong \in Pages!SongOrNone
      /\ reports \in [Studios -> Seq(Pages!ReportType)]
  BY DEF PageInv, PageTyped, Pages!SongOrNone
<1>2. hash \in [page : Pages!Pages, song : Pages!SongOrNone]
  BY DEF PageInv, PageTyped
<1>3. ASSUME NEW s \in Studios, NEW song \in Pages!SongOrNone, Pages!OpenFromPage(s, song)
      PROVE  FramesGo /\ PageKept
  <2>1. /\ Pages!Open(s, song) /\ signedIn' = signedIn /\ reports' = reports
        /\ gestures' \in 0..MaxGestures
    BY <1>3, GestureKept DEF Pages!OpenFromPage
  <2>2. \A e \in Studios : Fewer(e)
    BY <2>1 DEF Fewer
  <2>3. /\ Turns /\ active' \in Pages!SongOrNone /\ page' \in Pages!Pages /\ turned' \in BOOLEAN
        /\ hash' \in [page : Pages!Pages, song : Pages!SongOrNone]
    BY <2>1, <2>2, PageOpenTurns
  <2> QED BY <1>1, <2>1, <2>3 DEF Turns, FramesGo, FrameStep, PageKept
<1>4. CASE Pages!HashChange
  <2>1. Pages!Navigate(hash) /\ signedIn' = signedIn /\ reports' = reports /\ gestures' = gestures
    BY <1>4 DEF Pages!HashChange
  <2>2. \A e \in Studios : Fewer(e)
    BY <2>1 DEF Fewer
  <2>3. /\ Turns /\ active' \in Pages!SongOrNone /\ page' \in Pages!Pages /\ turned' \in BOOLEAN
        /\ hash' \in [page : Pages!Pages, song : Pages!SongOrNone]
    BY <1>2, <2>1, <2>2, NavigateTurns
  <2> QED BY <1>1, <2>1, <2>3 DEF Turns, FramesGo, FrameStep, PageKept
<1>5. ASSUME NEW h \in [page : Pages!Pages, song : LinkSongs \cup {NoSong}], Pages!ChooseHash(h)
      PROVE  FramesGo /\ PageKept
  <2>1. /\ hash' = h /\ turned' = TRUE /\ gestures' \in 0..MaxGestures
        /\ UNCHANGED <<signedIn, active, page, adapter, doc, reports, requests>>
    BY <1>5, GestureKept DEF Pages!ChooseHash
  <2>2. FramesGo
    BY <2>1, RestSteps
  <2>3. h \in [page : Pages!Pages, song : Pages!SongOrNone]
    BY BrowserAssumption DEF Pages!SongOrNone
  <2> QED BY <1>1, <2>1, <2>2, <2>3 DEF PageKept
<1>6. ASSUME NEW s \in Studios, Pages!RetryLoad(s) PROVE FramesGo /\ PageKept
  <2>1. /\ Pages!Activate(s, adapter[s].song, TRUE) /\ reports' = reports /\ gestures' \in 0..MaxGestures
        /\ signedIn' = signedIn /\ active' = active /\ page' = page /\ hash' = hash /\ turned' = turned
    BY <1>6, GestureKept DEF Pages!RetryLoad, Pages!pageVars
  <2>2. \A e \in Studios : Fewer(e)
    BY <2>1 DEF Fewer
  <2>3. PICK song : song = adapter[s].song
    OBVIOUS
  <2>4. song \in Pages!SongOrNone
    <3>1. adapter[s] \in Pages!AdapterType
      BY DEF PageInv, PageTyped
    <3> QED BY <2>3, <3>1 DEF Pages!AdapterType
  <2>5. Turns
    BY <2>1, <2>2, <2>3, <2>4, ActivateTurns
  <2> QED BY <1>1, <1>2, <2>1, <2>5 DEF Turns, FramesGo, FrameStep, PageKept
<1>7. CASE Pages!Logout
  <2>1. /\ signedIn' = FALSE /\ active' = NoSong /\ page' = page /\ hash' = hash /\ turned' = turned
        /\ gestures' \in 0..MaxGestures
    BY <1>7, GestureKept DEF Pages!Logout
  <2> QED BY <1>1, <1>2, <1>7, <2>1, LogoutSteps DEF PageKept
<1>8. CASE Pages!Login
  <2>1. /\ signedIn' = TRUE
        /\ UNCHANGED <<active, page, hash, turned, adapter, doc, reports, requests, gestures>>
    BY <1>8 DEF Pages!Login
  <2> QED BY <1>1, <1>2, <2>1, RestSteps DEF PageKept
<1>9. CASE UNCHANGED siteVars
  <2>1. UNCHANGED <<signedIn, active, page, hash, turned, adapter, doc, reports, requests, gestures>>
    BY <1>9 DEF siteVars
  <2> QED BY <1>1, <1>2, <2>1, RestSteps DEF PageKept
<1> QED BY <1>3, <1>4, <1>5, <1>6, <1>7, <1>8, <1>9

\* The steps of the frames, which leave the page where it is.
LEMMA FrameSteps ==
  ASSUME PageInv, \/ Pages!Fetch \/ Pages!Refresh
                  \/ \E s \in Studios :
                       \/ Pages!Timeout(s) \/ Pages!Boot(s) \/ Pages!LoadFails(s) \/ Pages!Edit(s)
                       \/ Pages!Save(s) \/ Pages!SaveFails(s) \/ Pages!Cross(s) \/ Pages!Deliver(s)
                       \/ \E b \in BOOLEAN : Pages!Loaded(s, b) \/ Pages!Receipt(s, b)
                       \/ \E song \in Songs : Pages!Pick(s, song)
  PROVE  FramesGo /\ PageKept
<1>1. FramesGo
  BY FetchSteps, RefreshSteps, TimeoutSteps, BootSteps, LoadFailsSteps, EditSteps, SaveSteps,
     SaveFailsSteps, CrossSteps, DeliverSteps, LoadedSteps, ReceiptSteps, PickSteps
<1>2. signedIn' = signedIn /\ page' = page /\ hash' = hash /\ turned' = turned
      /\ (gestures' = gestures \/ Pages!Gesture)
      /\ (active' = active \/ \E s \in Studios : Pages!Deliver(s))
  BY ZenonT(60) DEF Pages!Fetch, Pages!Refresh, Pages!Timeout, Pages!Boot, Pages!LoadFails, Pages!Edit,
         Pages!Save, Pages!SaveFails, Pages!Cross, Pages!Deliver, Pages!Loaded, Pages!Receipt,
         Pages!Pick, Pages!Elsewhere, Pages!pageVars
<1>3. /\ signedIn \in BOOLEAN /\ active \in Pages!SongOrNone /\ page \in Pages!Pages
      /\ turned \in BOOLEAN /\ gestures \in 0..MaxGestures
  BY DEF PageInv, PageTyped
<1>4. hash \in [page : Pages!Pages, song : Pages!SongOrNone]
  BY DEF PageInv, PageTyped
<1>5. active' \in Pages!SongOrNone
  BY <1>2, <1>3, DeliverSteps
<1>6. gestures' \in 0..MaxGestures
  BY <1>2, <1>3, GestureKept
<1> QED BY <1>1, <1>2, <1>3, <1>4, <1>5, <1>6 DEF PageKept

LEMMA PageMoves == PageInv /\ [Pages!Next]_siteVars => FramesGo /\ PageKept
<1> SUFFICES ASSUME PageInv, [Pages!Next]_siteVars PROVE FramesGo /\ PageKept
  OBVIOUS
<1>1. Pages!Studios = Studios
  BY DEF Pages!Studios, Studios
<1> QED BY <1>1, PageSteps, FrameSteps, DeliverSwitchSteps DEF Pages!Next

LEMMA PageGoesOn == PageInv /\ [Pages!Next]_siteVars => PageInv'
<1> SUFFICES ASSUME PageInv, [Pages!Next]_siteVars PROVE PageInv'
  OBVIOUS
<1>1. FramesGo /\ PageKept
  BY PageMoves
<1>2. requests \in Nat
  BY BrowserAssumption DEF PageInv, PageTyped
<1>3. ASSUME NEW s \in Studios PROVE FrameInv(s)'
  BY <1>1, <1>2, NotesKeep, RenewsKeep, ClearsKeep, WorksKeep, DeliversKeep
     DEF PageInv, FramesGo, FrameStep
<1>4. PageTyped'
  BY <1>1 DEF FramesGo, PageKept, PageTyped
<1> QED BY <1>3, <1>4 DEF PageInv

LEMMA PageStarts == Pages!Init => PageInv
<1> SUFFICES ASSUME Pages!Init PROVE PageInv
  OBVIOUS
<1>1. Pages!Studios = Studios /\ NoSong \in Pages!SongOrNone /\ 0 \in 0..MaxRequests /\ "tasks" \in Pages!Pages
      /\ 0 \in 0..MaxGestures /\ MaxReports \in Nat
  BY BrowserAssumption DEF Pages!Studios, Studios, Pages!SongOrNone, Pages!Pages
<1>2. Pages!IdleAdapter \in Pages!AdapterType /\ Pages!Blank \in Pages!DocType
  BY <1>1 DEF Pages!IdleAdapter, Pages!AdapterType, Pages!Phases, Pages!Blank, Pages!DocType,
              Pages!Stages, Pages!NoRequest
<1>3. <<>> \in Seq(Pages!ReportType) /\ Len(<<>>) = 0
  OBVIOUS
<1>4. PageTyped
  BY <1>1, <1>2, <1>3 DEF PageTyped, Pages!Init
<1>5. ASSUME NEW s \in Studios PROVE FrameInv(s)
  <2>1. adapter[s] = Pages!IdleAdapter /\ doc[s] = Pages!Blank /\ reports[s] = <<>> /\ requests = 0
    BY <1>1 DEF Pages!Init
  <2>2. FrameTyped(s)
    BY <1>1, <1>2, <1>3, <2>1 DEF FrameTyped
  <2>3. KnownFrame(s) /\ Numbered(s) /\ Staged(s, doc[s]) /\ Grounded(s) /\ HeldFrame(s)
    BY <2>1 DEF KnownFrame, Shows, Numbered, Staged, Grounded, HeldFrame, Pages!IdleAdapter,
                Pages!Blank, Pages!NoRequest
  <2> QED BY <2>2, <2>3 DEF FrameInv
<1> QED BY <1>4, <1>5 DEF PageInv

\* A document that is replaced was clean, as far as the page could know: only
\* a new request replaces one, and is made only while the adapter knows of no
\* draft.
LEMMA DraftIsKept ==
  PageInv /\ [Pages!Next]_siteVars
  => \A s \in Pages!Studios :
       doc[s].dirty /\ doc'[s].req > doc[s].req
       => \/ Pages!Undelivered(s, "STATE") # {} \/ Pages!Undelivered(s, "LOADED") # {}
          \/ Pages!Undelivered(s, "SAVED") # {}
          \/ ~doc[s].told
          \/ doc[s].req # adapter[s].req
          \/ doc[s].stage # "open"
<1> SUFFICES ASSUME PageInv, [Pages!Next]_siteVars, NEW s \in Studios,
                    doc[s].dirty, doc'[s].req > doc[s].req,
                    Pages!Undelivered(s, "STATE") = {}, Pages!Undelivered(s, "LOADED") = {},
                    Pages!Undelivered(s, "SAVED") = {},
                    doc[s].told, doc[s].req = adapter[s].req, doc[s].stage = "open"
             PROVE  FALSE
  BY DEF Pages!Studios, Studios
<1>1. doc[s].req \in Nat
  BY DEF PageInv, FrameInv, FrameTyped, Pages!DocType
<1>2. FrameStep(s)
  BY PageMoves DEF FramesGo
<1>3. doc'[s].req # doc[s].req /\ doc'[s].req # 0
  BY <1>1
<1>4. Renews(s)
  BY <1>2, <1>3 DEF FrameStep, Notes, Clears, Works, Delivers, Pages!Blank, Pages!NoRequest
<1>5. ~adapter[s].dirty
  BY <1>4 DEF Renews
<1>6. Telling(s) = {}
  BY DEF Telling, Tells, Pages!Undelivered
<1>7. Shows(s, doc[s])
  BY DEF PageInv, FrameInv, Staged, Shows
<1>8. DraftKnown(s)
  BY <1>7 DEF PageInv, FrameInv, KnownFrame
<1> QED BY <1>5, <1>6, <1>8 DEF DraftKnown

-----------------------------------------------------------------------------
(* The extension.                                                          *)

\* Somebody is about to look at the download: its event is on its way, a step
\* has it in its hands and has not looked yet, or was killed over it.
Seeing == {"saving", "tracking", "searching"}
Seen(f) ==
  \/ f \in news \cup orphans
  \/ \E i \in Extension!Ids : loop[i].file = f /\ loop[i].at \in Seeing
  \/ again[f].at \in {"tracking", "searching"}

\* Sharper than the property: after the look nobody needs to see it again.
Corrected ==
  \A f \in Extension!Files :
    records[f].state # "none" /\ Extension!Ended(f) /\ ~Seen(f) => records[f].state = items[f].state

ItemType == [state : {"in_progress"} \cup Extension!Over, id : Extension!Ids]
RecordType == [state : {"none", "in_progress"} \cup Extension!Over, task : Extension!TaskIds]
OrderType == [at : {"none", "checking", "saving", "publishing", "waiting"},
              id : {0} \cup Extension!Ids, job : Extension!JobType]
LoopType == [at : {"none"} \cup Extension!Stages, job : Extension!JobType, once : BOOLEAN,
             file : {0} \cup Extension!Files]
RetryType == [at : {"none"} \cup Extension!Stages, task : Extension!TaskIds]
EntryType == [id : Extension!Ids, job : Extension!JobType]

\* A job is of a clip; only one that is not there is of none.
JobOK(job) ==
  /\ job \in Extension!JobType
  /\ job.clip \in Clips \/ (job.status = "none" /\ job.task = Extension!NoTask)
JobsOK(S) == S \in [Extension!Ids -> Extension!JobType] /\ \A k \in Extension!Ids : JobOK(S[k])

\* A step goes on with a job of a clip, and with a download it has started.
LoopOK(i, r) ==
  /\ r \in LoopType
  /\ r.at # "none" => r.job.clip \in Clips
  /\ r.at \in Seeing \cup {"marking"} => r.file \in DOMAIN items
  /\ r.at = "marking" => r.job.task = Extension!RenderTask(i)
LoopsOK == loop \in [Extension!Ids -> LoopType] /\ \A i \in Extension!Ids : LoopOK(i, loop[i])
AgainOK ==
  /\ again \in [Extension!Files -> RetryType]
  /\ \A f \in Extension!Files : again[f].at \in {"tracking", "searching", "marking"}
       => f \in DOMAIN items /\ again[f].task # Extension!NoTask
OrdersOK ==
  /\ orders \in [Asked -> OrderType]
  /\ \A o \in Asked : orders[o].at \in {"saving", "publishing"}
                      => orders[o].id \in Extension!Ids /\ orders[o].job.clip \in Clips
SweepType == [files : SUBSET Extension!Files, jobs : SUBSET EntryType, at : {0} \cup Extension!Ids]
SweepOK ==
  /\ sweep \in [Extension!Sweeps -> SweepType]
  /\ \A a \in Extension!Sweeps : \A e \in sweep[a].jobs : e.job.clip \in Clips

\* Only a download that was started is recorded.
RecordsOK ==
  /\ records \in [Extension!Files -> RecordType]
  /\ \A f \in Extension!Files : records[f].state # "none" => f \in DOMAIN items
ItemsOK == items \in Seq(ItemType) /\ Len(items) <= MaxFiles
CountsOK ==
  /\ news \subseteq Extension!Files /\ orphans \subseteq Extension!Files
  /\ drawn \in 0..MaxJobs /\ asks \in 0..MaxAsks /\ alarms \in 0..MaxAlarms /\ deaths \in 0..MaxDeaths

ExtensionInv ==
  /\ JobsOK(store) /\ LoopsOK /\ AgainOK /\ OrdersOK /\ SweepOK /\ RecordsOK /\ ItemsOK /\ CountsOK
  /\ Corrected

LEMMA ExtensionHolds == ExtensionInv => Extension!TypeOK /\ Extension!RecordsAreCorrected
<1>1. ExtensionInv => Extension!TypeOK
  BY DEF ExtensionInv, Extension!TypeOK, JobsOK, OrdersOK, SweepOK, LoopsOK, AgainOK, RecordsOK,
         ItemsOK, CountsOK, ItemType, RecordType, OrderType, LoopType, RetryType,
         SweepType, EntryType, Asked, Extension!NoFile, Extension!NoId
<1>2. ExtensionInv => Extension!RecordsAreCorrected
  BY DEF ExtensionInv, Corrected, Seen, Extension!RecordsAreCorrected, Extension!InSight
<1> QED BY <1>1, <1>2

LEMMA TaskFacts ==
  /\ Extension!NoTask \in Extension!TaskIds
  /\ \A c \in Clips : Extension!SongTask(c) \in Extension!TaskIds
  /\ \A i \in Extension!Ids : /\ Extension!RenderTask(i) \in Extension!TaskIds
                              /\ Extension!RenderTask(i) # Extension!NoTask
BY DEF Extension!TaskIds, Extension!NoTask, Extension!RenderTask

LEMMA EmptyFacts ==
  /\ JobOK(Extension!Absent)
  /\ \A c \in Clips : Extension!New(c) \in Extension!JobType /\ Extension!New(c).clip = c
  /\ Extension!NoLoop \in LoopType /\ Extension!NoLoop.at = "none"
  /\ Extension!NoOrder \in OrderType /\ Extension!NoOrder.at = "none"
  /\ Extension!NoRetry \in RetryType /\ Extension!NoRetry.at = "none"
  /\ Extension!NoRecord \in RecordType /\ Extension!NoRecord.state = "none"
<1>1. Extension!Absent \in Extension!JobType
  BY TaskFacts DEF Extension!Absent, Extension!JobType, Extension!Status, Extension!NoFile
<1>2. JobOK(Extension!Absent)
  BY <1>1 DEF JobOK, Extension!Absent
<1>3. ASSUME NEW c \in Clips
      PROVE  Extension!New(c) \in Extension!JobType /\ Extension!New(c).clip = c
  BY TaskFacts DEF Extension!New, Extension!Absent, Extension!JobType, Extension!Status, Extension!Live,
                   Extension!NoFile
<1>4. Extension!NoLoop \in LoopType /\ Extension!NoOrder \in OrderType
  BY <1>1 DEF LoopType, OrderType, Extension!NoLoop, Extension!NoOrder, Extension!NoFile, Extension!NoId
<1>5. Extension!NoRetry \in RetryType /\ Extension!NoRecord \in RecordType
  BY TaskFacts DEF RetryType, RecordType, Extension!NoRetry, Extension!NoRecord
<1> QED BY <1>2, <1>3, <1>4, <1>5
        DEF Extension!NoLoop, Extension!NoOrder, Extension!NoRetry, Extension!NoRecord

\* saveJob keeps jobs jobs.
LEMMA SavedJobs ==
  ASSUME JobsOK(store), NEW i \in Extension!Ids, NEW job, JobOK(job)
  PROVE  JobsOK(Extension!Saved(i, job))
BY EmptyFacts DEF JobsOK, JobOK, Extension!Saved

\* What updateDownload does to the two lists.
LEMMA ReportedRecords ==
  ASSUME RecordsOK, ItemsOK, NEW f \in Extension!Files
  PROVE  /\ Extension!Reported(f) \in [Extension!Files -> RecordType]
         /\ \A g \in Extension!Files : /\ (Extension!Reported(f)[g].state = "none") <=> (records[g].state = "none")
                                       /\ g # f => Extension!Reported(f)[g] = records[g]
         /\ records[f].state # "none" => Extension!Reported(f)[f].state = items[f].state
<1>1. CASE records[f].state = "none"
  BY <1>1 DEF RecordsOK, Extension!Reported
<1>2. CASE records[f].state # "none"
  <2>1. f \in 1..Len(items) /\ items \in Seq(ItemType)
    BY <1>2 DEF RecordsOK, ItemsOK
  <2>2. items[f] \in ItemType
    BY <2>1
  <2>3. Extension!Reported(f) = [records EXCEPT ![f].state = items[f].state]
    BY <1>2 DEF Extension!Reported
  <2>4. items[f].state \in {"in_progress"} \cup Extension!Over /\ items[f].state # "none"
    BY <2>2 DEF ItemType, Extension!Over
  <2> QED BY <1>2, <2>3, <2>4 DEF RecordsOK, RecordType
<1> QED BY <1>1, <1>2

LEMMA SettledJobs ==
  ASSUME JobsOK(store), RecordsOK, NEW f \in Extension!Files
  PROVE  JobsOK(Extension!Settled(f))
<1>1. CASE records[f].state = "none" \/ records[f].task = Extension!NoTask
  BY <1>1 DEF Extension!Settled
<1>2. CASE ~(records[f].state = "none" \/ records[f].task = Extension!NoTask)
  <2> DEFINE S == [k \in Extension!Ids |->
         IF store[k].task # records[f].task THEN store[k]
         ELSE [store[k] EXCEPT !.file = f, !.status = IF items[f].state = "complete"
                                                      THEN "downloaded" ELSE "download_failed"]]
  <2>1. Extension!Settled(f) = S
    BY <1>2 DEF Extension!Settled
  <2>2. ASSUME NEW k \in Extension!Ids PROVE JobOK(S[k])
    BY <1>2 DEF JobsOK, JobOK, Extension!JobType, Extension!Status, Extension!Live
  <2>3. JobsOK(S)
    BY <2>2 DEF JobsOK, JobOK
  <2> QED BY <2>1, <2>3
<1> QED BY <1>1, <1>2

LEMMA MarkedJobs ==
  ASSUME JobsOK(store), NEW f \in Extension!Files, NEW task, task # Extension!NoTask
  PROVE  JobsOK(Extension!Marked(f, task))
<1>1. ASSUME NEW k \in Extension!Ids PROVE JobOK(Extension!Marked(f, task)[k])
  BY DEF JobsOK, JobOK, Extension!Marked, Extension!JobType, Extension!Status, Extension!Live,
         Extension!Fetched
<1> QED BY <1>1 DEF JobsOK, JobOK, Extension!Marked

\* A look at a download leaves its record right; it was seen, and need not be
\* any longer.
LEMMA LookKeeps ==
  ASSUME ExtensionInv, NEW f \in Extension!Files, Extension!Looks(f), UNCHANGED items,
         \A g \in Extension!Files \ {f} : Seen(g) => Seen(g)'
  PROVE  JobsOK(store') /\ RecordsOK' /\ Corrected'
<1>1. CASE items[f].state \in Extension!Over
  <2>1. records' = Extension!Reported(f) /\ store' = Extension!Settled(f)
    BY <1>1 DEF Extension!Looks
  <2>2. JobsOK(store')
    BY <2>1, SettledJobs DEF ExtensionInv
  <2>3. /\ records' \in [Extension!Files -> RecordType]
        /\ \A g \in Extension!Files : /\ (records'[g].state = "none") <=> (records[g].state = "none")
                                      /\ g # f => records'[g] = records[g]
        /\ records[f].state # "none" => records'[f].state = items[f].state
    BY <1>1, <2>1, ReportedRecords DEF ExtensionInv
  <2>4. RecordsOK'
    BY <2>3 DEF RecordsOK, ExtensionInv
  <2>5. Corrected'
    BY <2>3 DEF Corrected, ExtensionInv, Extension!Ended
  <2> QED BY <2>2, <2>4, <2>5
<1>2. CASE items[f].state \notin Extension!Over
  <2>1. UNCHANGED <<records, store>>
    BY <1>2 DEF Extension!Looks
  <2>2. JobsOK(store') /\ RecordsOK'
    BY <2>1 DEF ExtensionInv, RecordsOK
  <2>3. Corrected'
    BY <1>2, <2>1 DEF ExtensionInv, Corrected, Extension!Ended
  <2> QED BY <2>2, <2>3
<1> QED BY <1>1, <1>2

\* A step that takes no download out of sight changes nothing about them.
LEMMA SightKeeps ==
  ASSUME Corrected, UNCHANGED <<records, items>>, \A f \in Extension!Files : Seen(f) => Seen(f)'
  PROVE  Corrected'
BY DEF Corrected, Extension!Ended

\* A loop goes on from a point, and to one, where nobody waits for its look.
Turned(i, r) ==
  /\ loop' = [loop EXCEPT ![i] = r] /\ LoopOK(i, r)
  /\ loop[i].at \notin Seeing /\ r.at \notin Seeing

LEMMA TurnKeeps ==
  ASSUME LoopsOK, Corrected, NEW i \in Extension!Ids, NEW r, Turned(i, r),
         UNCHANGED <<records, items, news, orphans, again>>
  PROVE  LoopsOK' /\ Corrected'
<1>1. loop' \in [Extension!Ids -> LoopType] /\ loop'[i] = r
      /\ \A k \in Extension!Ids : k # i => loop'[k] = loop[k]
  BY DEF LoopsOK, LoopOK, Turned
<1>2. LoopsOK'
  BY <1>1 DEF LoopsOK, LoopOK, Turned
<1>3. \A f \in Extension!Files : Seen(f) => Seen(f)'
  BY <1>1 DEF Seen, Turned
<1> QED BY <1>2, <1>3, SightKeeps

\* The end of a loop, with what waited for it.
LEMMA EndsTurn ==
  ASSUME ExtensionInv, NEW i \in Extension!Ids, Extension!Ends(i)
  PROVE  /\ loop' = [loop EXCEPT ![i] = Extension!NoLoop] /\ LoopOK(i, Extension!NoLoop)
         /\ Extension!NoLoop.at = "none" /\ OrdersOK' /\ SweepOK'
<1>1. LoopOK(i, Extension!NoLoop) /\ Extension!NoLoop.at = "none"
  BY EmptyFacts DEF LoopOK, Seeing
<1>2. OrdersOK'
  BY EmptyFacts DEF ExtensionInv, OrdersOK, Extension!Ends, Asked
<1>3. SweepOK'
  <2>1. sweep' = [a \in Extension!Sweeps |->
                    IF sweep[a].at = i THEN [sweep[a] EXCEPT !.at = 0] ELSE sweep[a]]
    BY DEF Extension!Ends, Extension!NoId
  <2>2. ASSUME NEW a \in Extension!Sweeps
        PROVE  sweep'[a] \in SweepType /\ \A e \in sweep'[a].jobs : e.job.clip \in Clips
    BY <2>1 DEF ExtensionInv, SweepOK, SweepType
  <2> QED BY <2>1, <2>2 DEF SweepOK
<1> QED BY <1>1, <1>2, <1>3 DEF Extension!Ends

LEMMA GoesTurn ==
  ASSUME ExtensionInv, NEW i \in Extension!Ids, NEW at \in Extension!Stages, NEW job \in Extension!JobType,
         Extension!Goes(i, at, job), job.clip \in Clips,
         at \in Seeing \cup {"marking"} => loop[i].file \in DOMAIN items,
         at = "marking" => job.task = Extension!RenderTask(i)
  PROVE  \E r : /\ loop' = [loop EXCEPT ![i] = r] /\ LoopOK(i, r) /\ r.at = at
                /\ OrdersOK' /\ SweepOK'
<1> DEFINE r == [loop[i] EXCEPT !.at = at, !.job = job]
<1>1. loop[i] \in LoopType /\ loop \in [Extension!Ids -> LoopType]
  BY DEF ExtensionInv, LoopsOK
<1>2. r \in LoopType /\ r.at = at /\ r.job = job /\ r.file = loop[i].file
  BY <1>1 DEF LoopType
<1>3. loop' = [loop EXCEPT ![i] = r]
  BY <1>1 DEF Extension!Goes
<1> HIDE DEF r
<1>4. LoopOK(i, r)
  BY <1>2 DEF LoopOK
<1>5. OrdersOK' /\ SweepOK'
  BY DEF Extension!Goes, ExtensionInv, OrdersOK, SweepOK
<1> QED BY <1>2, <1>3, <1>4, <1>5

LEMMA RoundsTurn ==
  ASSUME ExtensionInv, NEW i \in Extension!Ids, NEW job \in Extension!JobType,
         Extension!Rounds(i, job), job.clip \in Clips
  PROVE  \E r : /\ loop' = [loop EXCEPT ![i] = r] /\ LoopOK(i, r) /\ r.at \notin Seeing
                /\ OrdersOK' /\ SweepOK'
<1>1. CASE Extension!Ends(i)
  BY <1>1, EndsTurn DEF Seeing
<1>2. CASE Extension!Goes(i, Extension!Entry(i, job), job)
  <2>1. Extension!Entry(i, job) \in {"rendering", "aligning"}
    BY DEF Extension!Entry
  <2>2. /\ Extension!Entry(i, job) \in Extension!Stages
        /\ Extension!Entry(i, job) \notin Seeing \cup {"marking"}
    BY <2>1 DEF Extension!Stages, Seeing
  <2>3. \E r : /\ loop' = [loop EXCEPT ![i] = r] /\ LoopOK(i, r) /\ r.at = Extension!Entry(i, job)
               /\ OrdersOK' /\ SweepOK'
    BY <1>2, <2>2, GoesTurn
  <2> QED BY <2>2, <2>3
<1> QED BY <1>1, <1>2 DEF Extension!Rounds

\* The steps of a loop that wait, ask the server or give up, and the encoder
\* that fails: a job may be saved, no download is touched.
LEMMA ServerStepKeeps ==
  ASSUME ExtensionInv, NEW i \in Extension!Ids,
         \/ Extension!AlignWaits(i) \/ Extension!Aligned(i) \/ Extension!EncodeFails(i)
         \/ Extension!Post(i) \/ Extension!RenderWaits(i) \/ Extension!Rendered(i)
         \/ Extension!Trouble(i) \/ Extension!GiveUp(i) \/ Extension!Fails(i)
  PROVE  ExtensionInv'
<1> DEFINE own == loop[i].job
<1>1. loop[i] \in LoopType /\ own \in Extension!JobType
      /\ loop[i].at \in {"aligning", "encoding", "posting", "rendering", "fetching"}
  BY DEF ExtensionInv, LoopsOK, LoopType, Extension!AlignWaits, Extension!Aligned,
         Extension!EncodeFails, Extension!Post, Extension!RenderWaits, Extension!Rendered,
         Extension!Trouble, Extension!GiveUp, Extension!Fails, Extension!AtServer
<1>2. own.clip \in Clips /\ loop[i].at \notin Seeing
  BY <1>1 DEF ExtensionInv, LoopsOK, LoopOK, Seeing
<1>3. UNCHANGED <<records, items, news, drawn, again, asks, alarms, deaths, orphans>>
  BY DEF Extension!AlignWaits, Extension!Aligned,
         Extension!EncodeFails, Extension!Post, Extension!RenderWaits, Extension!Rendered,
         Extension!Trouble, Extension!GiveUp, Extension!Fails, Extension!chrome, Extension!counts,
         Extension!durable
<1>4. /\ JobsOK(store')
      /\ \E r : /\ loop' = [loop EXCEPT ![i] = r] /\ LoopOK(i, r) /\ r.at \notin Seeing
                /\ OrdersOK' /\ SweepOK'
  <2> DEFINE working == [own EXCEPT !.status = "working"]
             posted == [working EXCEPT !.task = Extension!RenderTask(i)]
             cloudy == [own EXCEPT !.cloud = TRUE]
             failed == [own EXCEPT !.status = "failed"]
  <2>1. /\ JobOK(working) /\ JobOK(posted) /\ JobOK(cloudy) /\ JobOK(failed)
        /\ working.clip \in Clips /\ posted.clip \in Clips /\ cloudy.clip \in Clips
    BY <1>1, <1>2, TaskFacts DEF JobOK, Extension!JobType, Extension!Status, Extension!Live
  <2>2. /\ working \in Extension!JobType /\ posted \in Extension!JobType
        /\ cloudy \in Extension!JobType
    BY <2>1 DEF JobOK
  <2>3. Extension!AtWork(i) = working
    BY DEF Extension!AtWork
  <2>4. ASSUME NEW at \in {"posting", "encoding", "rendering", "fetching"}
        PROVE  at \in Extension!Stages /\ at \notin Seeing \cup {"marking"}
    BY DEF Extension!Stages, Seeing
  <2>5. "posting" \in {"posting", "encoding", "rendering", "fetching"}
        /\ "rendering" \in {"posting", "encoding", "rendering", "fetching"}
        /\ "fetching" \in {"posting", "encoding", "rendering", "fetching"}
    OBVIOUS
  <2> HIDE DEF working, posted, cloudy, failed, own
  <2>6. ASSUME NEW at \in {"posting", "encoding", "rendering", "fetching"},
               NEW job \in Extension!JobType, job.clip \in Clips, Extension!Goes(i, at, job)
        PROVE  \E r : /\ loop' = [loop EXCEPT ![i] = r] /\ LoopOK(i, r) /\ r.at \notin Seeing
                      /\ OrdersOK' /\ SweepOK'
    <3>1. at \in Extension!Stages /\ at \notin Seeing \cup {"marking"}
      BY <2>4
    <3>2. \E r : /\ loop' = [loop EXCEPT ![i] = r] /\ LoopOK(i, r) /\ r.at = at
                 /\ OrdersOK' /\ SweepOK'
      BY <2>6, <3>1, GoesTurn
    <3> QED BY <3>1, <3>2
  <2>7. ASSUME Extension!Ends(i)
        PROVE  \E r : /\ loop' = [loop EXCEPT ![i] = r] /\ LoopOK(i, r) /\ r.at \notin Seeing
                      /\ OrdersOK' /\ SweepOK'
    BY <2>7, EndsTurn DEF Seeing
  <2>8. JobsOK(store)
    BY DEF ExtensionInv
  <2>9. CASE Extension!AlignWaits(i) \/ Extension!RenderWaits(i)
    <3>1. store' = Extension!Saved(i, working) /\ Extension!Rounds(i, working)
      BY <2>3, <2>9 DEF Extension!AlignWaits, Extension!RenderWaits
    <3>2. JobsOK(Extension!Saved(i, working))
      BY <2>1, <2>8, SavedJobs
    <3> QED BY <2>1, <2>2, <3>1, <3>2, RoundsTurn
  <2>10. CASE Extension!Rendered(i)
    <3>1. store' = Extension!Saved(i, working) /\ Extension!Goes(i, "fetching", working)
      BY <2>3, <2>10 DEF Extension!Rendered
    <3>2. JobsOK(Extension!Saved(i, working))
      BY <2>1, <2>8, SavedJobs
    <3> QED BY <2>1, <2>2, <2>5, <2>6, <3>1, <3>2
  <2>11. CASE Extension!Post(i)
    <3>1. store' = Extension!Saved(i, posted) /\ Extension!Goes(i, "rendering", posted)
      BY <2>3, <2>11 DEF Extension!Post, posted
    <3>2. JobsOK(Extension!Saved(i, posted))
      BY <2>1, <2>8, SavedJobs
    <3> QED BY <2>1, <2>2, <2>5, <2>6, <3>1, <3>2
  <2>12. CASE Extension!EncodeFails(i)
    <3>1. store' = Extension!Saved(i, cloudy) /\ Extension!Goes(i, "posting", cloudy)
      BY <2>12 DEF Extension!EncodeFails, cloudy, own
    <3>2. JobsOK(Extension!Saved(i, cloudy))
      BY <2>1, <2>8, SavedJobs
    <3> QED BY <2>1, <2>2, <2>5, <2>6, <3>1, <3>2
  <2>13. CASE Extension!Aligned(i)
    <3>1. PICK at \in {"posting", "encoding"} : Extension!Goes(i, at, own)
      BY <2>13 DEF Extension!Aligned, own
    <3>2. store' = store
      BY <2>13 DEF Extension!Aligned, Extension!durable
    <3>3. at \in {"posting", "encoding", "rendering", "fetching"}
      OBVIOUS
    <3> QED BY <1>1, <1>2, <2>6, <2>8, <3>1, <3>2, <3>3
  <2>14. CASE Extension!Trouble(i)
    <3>1. store' = store /\ Extension!Rounds(i, own)
      BY <2>14 DEF Extension!Trouble, Extension!durable, own
    <3> QED BY <1>1, <1>2, <2>8, <3>1, RoundsTurn
  <2>15. CASE Extension!GiveUp(i)
    <3>1. store' = store /\ Extension!Ends(i)
      BY <2>15 DEF Extension!GiveUp, Extension!durable
    <3> QED BY <2>7, <2>8, <3>1
  <2>16. CASE Extension!Fails(i)
    <3>1. store' = Extension!Saved(i, failed) /\ Extension!Ends(i)
      BY <2>16 DEF Extension!Fails, failed, own
    <3>2. JobsOK(Extension!Saved(i, failed))
      BY <2>1, <2>8, SavedJobs
    <3> QED BY <2>7, <3>1, <3>2
  <2> QED BY <2>9, <2>10, <2>11, <2>12, <2>13, <2>14, <2>15, <2>16
<1>5. PICK r : /\ loop' = [loop EXCEPT ![i] = r] /\ LoopOK(i, r) /\ r.at \notin Seeing
               /\ OrdersOK' /\ SweepOK'
  BY <1>4
<1>6. Turned(i, r)
  BY <1>2, <1>5 DEF Turned
<1>7. LoopsOK' /\ Corrected'
  BY <1>3, <1>6, TurnKeeps DEF ExtensionInv
<1>8. AgainOK' /\ RecordsOK' /\ ItemsOK' /\ CountsOK'
  BY <1>3 DEF ExtensionInv, AgainOK, RecordsOK, ItemsOK, CountsOK
<1> QED BY <1>4, <1>5, <1>7, <1>8 DEF ExtensionInv

\* A download begins: what was started before stays as it was.
LEMMA BeginGrows ==
  ASSUME ItemsOK, NEW i \in Extension!Ids, Extension!Begin(i)
  PROVE  /\ ItemsOK' /\ Extension!Started \in Extension!Files /\ Extension!Started \in DOMAIN items'
         /\ \A f \in DOMAIN items : f \in DOMAIN items' /\ items'[f] = items[f]
         /\ \A f \in Extension!Files : Extension!Ended(f)' => Extension!Ended(f)
<1> DEFINE new == [state |-> "in_progress", id |-> i]
<1>1. items \in Seq(ItemType) /\ new \in ItemType /\ items' = Append(items, new)
      /\ Len(items) < MaxFiles /\ MaxFiles \in Nat
  BY BrowserAssumption DEF ItemsOK, ItemType, Extension!Begin
<1>2. new.state \notin Extension!Over
  BY DEF Extension!Over
<1> HIDE DEF new
<1>3. /\ items' \in Seq(ItemType) /\ Len(items') = Len(items) + 1
      /\ \A f \in 1..Len(items) : items'[f] = items[f]
      /\ items'[Len(items) + 1] = new /\ Len(items) \in Nat
      /\ DOMAIN items = 1..Len(items) /\ DOMAIN items' = 1..Len(items')
  BY <1>1
<1>4. ItemsOK'
  BY <1>1, <1>3 DEF ItemsOK
<1>5. /\ Extension!Started \in Extension!Files /\ Extension!Started \in DOMAIN items'
      /\ \A f \in DOMAIN items : f \in DOMAIN items' /\ items'[f] = items[f]
  BY <1>1, <1>3 DEF Extension!Started, Extension!Files
<1>6. ASSUME NEW f \in Extension!Files, Extension!Ended(f)' PROVE Extension!Ended(f)
  <2>1. f \in 1..(Len(items) + 1) /\ items'[f].state \in Extension!Over
    BY <1>3, <1>6 DEF Extension!Ended
  <2>2. f # Len(items) + 1
    BY <1>2, <1>3, <2>1
  <2> QED BY <1>3, <2>1, <2>2 DEF Extension!Ended
<1> QED BY <1>4, <1>5, <1>6

\* With the new download nobody is wronged who stays seen.
LEMMA GrownKeeps ==
  ASSUME Corrected, RecordsOK, UNCHANGED records,
         \A f \in DOMAIN items : f \in DOMAIN items' /\ items'[f] = items[f],
         \A f \in Extension!Files : Extension!Ended(f)' => Extension!Ended(f),
         \A f \in Extension!Files : Seen(f) => Seen(f)'
  PROVE  Corrected' /\ RecordsOK'
<1>1. RecordsOK'
  BY DEF RecordsOK
<1>2. Corrected'
  BY DEF Corrected, Extension!Ended
<1> QED BY <1>1, <1>2

LEMMA FetchKeeps ==
  ASSUME ExtensionInv, NEW i \in Extension!Ids, Extension!Encode(i) \/ Extension!Fetch(i)
  PROVE  ExtensionInv'
<1>1. /\ loop[i].at \in {"encoding", "fetching"} /\ Extension!Begin(i)
      /\ UNCHANGED <<store, records, drawn, news, orders, again, sweep, asks, alarms, deaths, orphans>>
  BY DEF Extension!Encode, Extension!Fetch, Extension!durable, Extension!counts
<1>2. PICK at \in {"saving", "tracking"} :
        loop' = [loop EXCEPT ![i].at = at, ![i].file = Extension!Started]
  BY DEF Extension!Encode, Extension!Fetch
<1>3. /\ ItemsOK' /\ Extension!Started \in Extension!Files /\ Extension!Started \in DOMAIN items'
      /\ \A f \in DOMAIN items : f \in DOMAIN items' /\ items'[f] = items[f]
      /\ \A f \in Extension!Files : Extension!Ended(f)' => Extension!Ended(f)
  BY <1>1, BeginGrows DEF ExtensionInv
<1>4. loop \in [Extension!Ids -> LoopType] /\ loop[i] \in LoopType /\ loop[i].job.clip \in Clips
  BY <1>1 DEF ExtensionInv, LoopsOK, LoopOK
<1> DEFINE r == [loop[i] EXCEPT !.at = at, !.file = Extension!Started]
<1>5. r \in LoopType /\ r.at = at /\ r.file = Extension!Started /\ r.job = loop[i].job
  BY <1>3, <1>4 DEF LoopType, Extension!Stages
<1>6. loop' = [loop EXCEPT ![i] = r]
  BY <1>2, <1>4
<1> HIDE DEF r
<1>7. LoopsOK'
  <2>1. loop' \in [Extension!Ids -> LoopType]
    BY <1>4, <1>5, <1>6
  <2>2. ASSUME NEW k \in Extension!Ids PROVE LoopOK(k, loop[k])' 
    <3>1. CASE k = i
      BY <1>3, <1>4, <1>5, <1>6, <3>1 DEF LoopOK
    <3>2. CASE k # i
      BY <1>3, <1>4, <1>6, <3>2 DEF ExtensionInv, LoopsOK, LoopOK
    <3> QED BY <3>1, <3>2
  <2> QED BY <2>1, <2>2 DEF LoopsOK
<1>8. \A f \in Extension!Files : Seen(f) => Seen(f)'
  BY <1>1, <1>4, <1>6 DEF Seen, Seeing
<1>9. Corrected' /\ RecordsOK'
  BY <1>1, <1>3, <1>8, GrownKeeps DEF ExtensionInv
<1>10. JobsOK(store') /\ AgainOK' /\ OrdersOK' /\ SweepOK' /\ CountsOK'
  BY <1>1, <1>3 DEF ExtensionInv, AgainOK, OrdersOK, SweepOK, CountsOK
<1> QED BY <1>3, <1>7, <1>9, <1>10 DEF ExtensionInv

\* The record of the encoded video comes before that of its download.
LEMMA SaveEncodedKeeps ==
  ASSUME ExtensionInv, NEW i \in Extension!Ids, Extension!SaveEncoded(i)
  PROVE  ExtensionInv'
<1> DEFINE job == [loop[i].job EXCEPT !.file = loop[i].file, !.task = Extension!SongTask(loop[i].job.clip),
                                      !.status = "working"]
<1>1. /\ loop[i].at = "saving" /\ store' = Extension!Saved(i, job) /\ Extension!Goes(i, "tracking", job)
      /\ UNCHANGED <<records, drawn, items, news, again, asks, alarms, deaths, orphans>>
  BY DEF Extension!SaveEncoded, Extension!chrome, Extension!counts
<1>2. /\ loop[i] \in LoopType /\ loop[i].job.clip \in Clips /\ loop[i].file \in DOMAIN items
      /\ loop \in [Extension!Ids -> LoopType]
  BY <1>1 DEF ExtensionInv, LoopsOK, LoopOK, Seeing
<1>3. job \in Extension!JobType /\ job.clip \in Clips
  BY <1>2, TaskFacts DEF LoopType, Extension!JobType, Extension!Status, Extension!Live, Extension!NoFile
<1> HIDE DEF job
<1>4. JobsOK(store')
  <2>1. JobOK(job) /\ JobsOK(store)
    BY <1>3 DEF JobOK, ExtensionInv
  <2> QED BY <1>1, <2>1, SavedJobs
<1>5. loop' = [loop EXCEPT ![i] = [loop[i] EXCEPT !.at = "tracking", !.job = job]]
      /\ UNCHANGED <<orders, sweep>>
  BY <1>1, <1>2 DEF Extension!Goes
<1>6. LoopsOK'
  <2> DEFINE r == [loop[i] EXCEPT !.at = "tracking", !.job = job]
  <2>1. r \in LoopType /\ r.at = "tracking" /\ r.job = job /\ r.file = loop[i].file
    BY <1>2, <1>3 DEF LoopType, Extension!Stages
  <2>2. loop' = [loop EXCEPT ![i] = r]
    BY <1>5
  <2> HIDE DEF r
  <2> QED BY <1>1, <1>2, <1>3, <2>1, <2>2 DEF ExtensionInv, LoopsOK, LoopOK
<1>7. \A f \in Extension!Files : Seen(f) => Seen(f)'
  BY <1>1, <1>2, <1>5 DEF Seen, Seeing, LoopType
<1>8. Corrected'
  BY <1>1, <1>7, SightKeeps DEF ExtensionInv
<1>9. AgainOK' /\ OrdersOK' /\ SweepOK' /\ RecordsOK' /\ ItemsOK' /\ CountsOK'
  BY <1>1, <1>5 DEF ExtensionInv, AgainOK, OrdersOK, SweepOK, RecordsOK, ItemsOK, CountsOK
<1> QED BY <1>4, <1>6, <1>8, <1>9 DEF ExtensionInv

\* A new record says that its download is under way; the look follows.
LEMMA TrackedRecords ==
  ASSUME RecordsOK, Corrected, NEW f \in DOMAIN items, NEW task \in Extension!TaskIds,
         f \in Extension!Files, records' = Extension!Tracked(f, task), UNCHANGED items,
         \A g \in Extension!Files : Seen(g) => Seen(g)', Seen(f)'
  PROVE  RecordsOK' /\ Corrected'
<1>1. RecordsOK'
  BY DEF RecordsOK, RecordType, Extension!Tracked
<1>2. \A g \in Extension!Files \ {f} : records'[g] = records[g]
  BY DEF RecordsOK, Extension!Tracked
<1>3. Corrected'
  BY <1>2 DEF Corrected, Extension!Ended
<1> QED BY <1>1, <1>3

LEMMA TrackKeeps ==
  ASSUME ExtensionInv, NEW i \in Extension!Ids, Extension!Track(i)
  PROVE  ExtensionInv'
<1>0. PICK f, task : f = loop[i].file /\ task = loop[i].job.task
  OBVIOUS
<1> DEFINE r == [loop[i] EXCEPT !.at = "searching"]
<1>1. /\ loop[i].at = "tracking" /\ records' = Extension!Tracked(f, task)
      /\ loop' = [loop EXCEPT ![i].at = "searching"]
      /\ UNCHANGED <<store, drawn, items, news, orders, again, sweep, asks, alarms, deaths, orphans>>
  BY <1>0 DEF Extension!Track, Extension!chrome, Extension!counts
<1>2. /\ loop[i] \in LoopType /\ loop[i].job.clip \in Clips /\ f \in DOMAIN items
      /\ loop \in [Extension!Ids -> LoopType]
  BY <1>0, <1>1 DEF ExtensionInv, LoopsOK, LoopOK, Seeing
<1>3. task \in Extension!TaskIds /\ f \in Extension!Files
  <2>1. f \in {0} \cup Extension!Files /\ task \in Extension!TaskIds
    BY <1>0, <1>2 DEF LoopType, Extension!JobType
  <2>2. DOMAIN items = 1..Len(items) /\ Len(items) \in Nat
    BY DEF ExtensionInv, ItemsOK
  <2> QED BY <1>2, <2>1, <2>2
<1>4. r \in LoopType /\ r.at = "searching" /\ r.file = f /\ r.job = loop[i].job
  BY <1>0, <1>2 DEF LoopType, Extension!Stages
<1>5. loop' = [loop EXCEPT ![i] = r]
  BY <1>1, <1>2
<1> HIDE DEF r
<1>6. LoopsOK'
  BY <1>0, <1>1, <1>2, <1>4, <1>5 DEF ExtensionInv, LoopsOK, LoopOK, Seeing
<1>7. (\A g \in Extension!Files : Seen(g) => Seen(g)') /\ Seen(f)'
  BY <1>0, <1>1, <1>2, <1>4, <1>5 DEF Seen, Seeing
<1>8. RecordsOK' /\ Corrected'
  <2>1. RecordsOK /\ Corrected /\ UNCHANGED items
    BY <1>1 DEF ExtensionInv
  <2>2. records' = Extension!Tracked(f, task)
    BY <1>1
  <2> QED BY <1>2, <1>3, <1>7, <2>1, <2>2, TrackedRecords
<1>9. JobsOK(store') /\ AgainOK' /\ OrdersOK' /\ SweepOK' /\ ItemsOK' /\ CountsOK'
  BY <1>1 DEF ExtensionInv, AgainOK, OrdersOK, SweepOK, ItemsOK, CountsOK
<1> QED BY <1>6, <1>8, <1>9 DEF ExtensionInv

LEMMA SearchKeeps ==
  ASSUME ExtensionInv, NEW i \in Extension!Ids, Extension!Search(i)
  PROVE  ExtensionInv'
<1>0. PICK f : f = loop[i].file
  OBVIOUS
<1>1. /\ loop[i].at = "searching" /\ Extension!Looks(f)
      /\ UNCHANGED <<drawn, items, news, again, asks, alarms, deaths, orphans>>
  BY <1>0 DEF Extension!Search, Extension!chrome, Extension!counts
<1>2. /\ loop[i] \in LoopType /\ loop[i].job \in Extension!JobType /\ loop[i].job.clip \in Clips
      /\ f \in DOMAIN items /\ loop \in [Extension!Ids -> LoopType]
  BY <1>0, <1>1 DEF ExtensionInv, LoopsOK, LoopOK, LoopType, Seeing
<1>3. f \in Extension!Files
  <2>1. f \in {0} \cup Extension!Files
    BY <1>0, <1>2 DEF LoopType
  <2>2. DOMAIN items = 1..Len(items) /\ Len(items) \in Nat
    BY DEF ExtensionInv, ItemsOK
  <2> QED BY <1>2, <2>1, <2>2
<1>4. \E r : /\ loop' = [loop EXCEPT ![i] = r] /\ LoopOK(i, r) /\ r.at \notin Seeing
             /\ OrdersOK' /\ SweepOK'
  <2>1. CASE loop[i].job.task = Extension!RenderTask(i)
    <3>1. Extension!Goes(i, "marking", loop[i].job)
      BY <2>1 DEF Extension!Search
    <3>2. "marking" \in Extension!Stages /\ "marking" \notin Seeing
      BY DEF Extension!Stages, Seeing
    <3>3. loop[i].file \in DOMAIN items
      BY <1>0, <1>2
    <3>4. \E r : /\ loop' = [loop EXCEPT ![i] = r] /\ LoopOK(i, r) /\ r.at = "marking"
                 /\ OrdersOK' /\ SweepOK'
      BY <1>2, <2>1, <3>1, <3>2, <3>3, GoesTurn
    <3> QED BY <3>2, <3>4
  <2>2. CASE loop[i].job.task # Extension!RenderTask(i)
    <3>1. Extension!Ends(i)
      BY <2>2 DEF Extension!Search
    <3> QED BY <3>1, EndsTurn DEF Seeing
  <2> QED BY <2>1, <2>2
<1>5. PICK r : /\ loop' = [loop EXCEPT ![i] = r] /\ LoopOK(i, r) /\ r.at \notin Seeing
               /\ OrdersOK' /\ SweepOK'
  BY <1>4
<1>6. LoopsOK'
  BY <1>1, <1>2, <1>5 DEF ExtensionInv, LoopsOK, LoopOK
<1>7. \A g \in Extension!Files \ {f} : Seen(g) => Seen(g)'
  BY <1>0, <1>1, <1>2, <1>5 DEF Seen
<1>8. JobsOK(store') /\ RecordsOK' /\ Corrected'
  BY <1>1, <1>3, <1>7, LookKeeps
<1>9. AgainOK' /\ ItemsOK' /\ CountsOK'
  BY <1>1 DEF ExtensionInv, AgainOK, ItemsOK, CountsOK
<1> QED BY <1>5, <1>6, <1>8, <1>9 DEF ExtensionInv

LEMMA MarkKeeps ==
  ASSUME ExtensionInv, NEW i \in Extension!Ids, Extension!Mark(i)
  PROVE  ExtensionInv'
<1>0. PICK f, task : f = loop[i].file /\ task = loop[i].job.task
  OBVIOUS
<1>1. /\ loop[i].at = "marking" /\ store' = Extension!Marked(f, task) /\ Extension!Ends(i)
      /\ UNCHANGED <<records, drawn, items, news, again, asks, alarms, deaths, orphans>>
  BY <1>0 DEF Extension!Mark, Extension!chrome, Extension!counts
<1>2. /\ loop[i] \in LoopType /\ f \in DOMAIN items /\ task = Extension!RenderTask(i)
  BY <1>0, <1>1 DEF ExtensionInv, LoopsOK, LoopOK, LoopType
<1>3. f \in Extension!Files
  <2>1. f \in {0} \cup Extension!Files
    BY <1>0, <1>2 DEF LoopType
  <2>2. DOMAIN items = 1..Len(items) /\ Len(items) \in Nat
    BY DEF ExtensionInv, ItemsOK
  <2> QED BY <1>2, <2>1, <2>2
<1>4. JobsOK(store')
  <2>1. JobsOK(store) /\ task # Extension!NoTask
    BY <1>2, TaskFacts DEF ExtensionInv
  <2> QED BY <1>1, <1>3, <2>1, MarkedJobs
<1>5. /\ loop' = [loop EXCEPT ![i] = Extension!NoLoop] /\ LoopOK(i, Extension!NoLoop)
      /\ Extension!NoLoop.at = "none" /\ OrdersOK' /\ SweepOK'
  BY <1>1, EndsTurn
<1>6. Turned(i, Extension!NoLoop)
  BY <1>1, <1>5 DEF Turned, Seeing
<1>7. LoopsOK' /\ Corrected'
  BY <1>1, <1>6, TurnKeeps DEF ExtensionInv
<1>8. AgainOK' /\ RecordsOK' /\ ItemsOK' /\ CountsOK'
  BY <1>1 DEF ExtensionInv, AgainOK, RecordsOK, ItemsOK, CountsOK
<1> QED BY <1>4, <1>5, <1>7, <1>8 DEF ExtensionInv

\* finish: a loop is joined, or starts where nothing is under way.
LEMMA WithLoopTurns ==
  ASSUME LoopsOK, Corrected, NEW i \in Extension!Ids, NEW job \in Extension!JobType, job.clip \in Clips,
         NEW once \in BOOLEAN, loop' = Extension!WithLoop(i, job, once),
         UNCHANGED <<records, items, news, orphans, again>>
  PROVE  LoopsOK' /\ Corrected'
<1>1. CASE ~Extension!Idle(i) \/ Extension!Good(job)
  <2>1. loop' = loop
    BY <1>1 DEF Extension!WithLoop
  <2>2. LoopsOK'
    BY <2>1 DEF LoopsOK, LoopOK
  <2>3. \A f \in Extension!Files : Seen(f) => Seen(f)'
    BY <2>1 DEF Seen
  <2> QED BY <2>2, <2>3, SightKeeps
<1>2. CASE ~(~Extension!Idle(i) \/ Extension!Good(job))
  <2> DEFINE r == [at |-> Extension!Entry(i, job), job |-> job, once |-> once, file |-> Extension!NoFile]
  <2>1. loop' = [loop EXCEPT ![i] = r] /\ loop[i].at = "none"
    BY <1>2 DEF Extension!WithLoop, Extension!Idle
  <2>2. r.at \in {"rendering", "aligning"}
    BY DEF Extension!Entry
  <2>3. r \in LoopType /\ r.job = job
    BY <2>2 DEF LoopType, Extension!Stages, Extension!NoFile
  <2> HIDE DEF r
  <2>4. Turned(i, r)
    BY <2>1, <2>2, <2>3 DEF Turned, LoopOK, Seeing
  <2> QED BY <2>4, TurnKeeps
<1> QED BY <1>1, <1>2

\* Nothing about downloads changes while loops and retries rest.
LEMMA LoopsRest ==
  ASSUME LoopsOK, AgainOK, Corrected, RecordsOK, ItemsOK,
         UNCHANGED <<loop, again, records, items, news, orphans>>
  PROVE  LoopsOK' /\ AgainOK' /\ Corrected' /\ RecordsOK' /\ ItemsOK'
<1>1. \A f \in Extension!Files : Seen(f) => Seen(f)'
  BY DEF Seen
<1>2. Corrected'
  BY <1>1, SightKeeps
<1> QED BY <1>2 DEF LoopsOK, LoopOK, AgainOK, RecordsOK, ItemsOK

\* Where an order is placed.
LEMMA PlacedOrders ==
  ASSUME OrdersOK, NEW o \in Asked, Extension!Place(o)
  PROVE  OrdersOK'
<1>1. CASE orders[o].at = "none"
  <2> DEFINE r == [orders[o] EXCEPT !.at = "checking"]
  <2>1. orders' = [orders EXCEPT ![o] = r]
    BY <1>1 DEF OrdersOK, Extension!Place
  <2>2. r \in OrderType /\ r.at = "checking"
    BY DEF OrdersOK, OrderType
  <2> HIDE DEF r
  <2> QED BY <2>1, <2>2 DEF OrdersOK
<1>2. CASE orders[o].at # "none"
  BY <1>2 DEF OrdersOK, Extension!Place
<1> QED BY <1>1, <1>2

LEMMA OrderKeeps ==
  ASSUME ExtensionInv, NEW c \in Clips, Extension!Order(c)
  PROVE  ExtensionInv'
<1>1. /\ Extension!Place(<<"page", c>>) /\ asks < MaxAsks /\ asks' = asks + 1
      /\ UNCHANGED <<store, records, drawn, items, news, loop, again, sweep, alarms, deaths, orphans>>
  BY DEF Extension!Order, Extension!durable, Extension!chrome
<1>2. <<"page", c>> \in Asked
  BY DEF Asked, Extension!Doors
<1>3. OrdersOK'
  BY <1>1, <1>2, PlacedOrders DEF ExtensionInv
<1>4. LoopsOK' /\ AgainOK' /\ Corrected' /\ RecordsOK' /\ ItemsOK'
  BY <1>1, LoopsRest DEF ExtensionInv
<1>5. JobsOK(store') /\ SweepOK' /\ CountsOK'
  BY <1>1, BrowserAssumption DEF ExtensionInv, SweepOK, CountsOK
<1> QED BY <1>3, <1>4, <1>5 DEF ExtensionInv

\* videoJobs is read, and a request id drawn when no job of the clip is live.
LEMMA JobsReadKeeps ==
  ASSUME ExtensionInv, NEW o \in Asked, Extension!Read(o)
  PROVE  ExtensionInv'
<1>1. UNCHANGED <<store, records, items, news, loop, again, sweep, asks, alarms, deaths, orphans>>
  <2>1. UNCHANGED <<store, records, Extension!chrome, loop, again, sweep, Extension!counts>>
    BY DEF Extension!Read
  <2> QED BY <2>1 DEF Extension!chrome, Extension!counts
<1>2. o[2] \in Clips
  BY DEF Asked
<1>3. OrdersOK' /\ drawn' \in 0..MaxJobs
  <2>1. ASSUME NEW i \in Extension!Ids, store[i].clip = o[2],
               orders' = [orders EXCEPT ![o] = [at |-> "publishing", id |-> i, job |-> store[i]]],
               UNCHANGED drawn
        PROVE  OrdersOK' /\ drawn' \in 0..MaxJobs
    <3> DEFINE r == [at |-> "publishing", id |-> i, job |-> store[i]]
    <3>1. r \in OrderType /\ r.id = i /\ r.job = store[i]
      BY DEF OrderType, ExtensionInv, JobsOK
    <3>2. orders' = [orders EXCEPT ![o] = r]
      BY <2>1
    <3> HIDE DEF r
    <3> QED BY <1>2, <2>1, <3>1, <3>2 DEF ExtensionInv, OrdersOK, CountsOK
  <2>2. ASSUME drawn < MaxJobs, drawn' = drawn + 1,
               orders' = [orders EXCEPT ![o] = [at |-> "saving", id |-> drawn', job |-> Extension!New(o[2])]]
        PROVE  OrdersOK' /\ drawn' \in 0..MaxJobs
    <3> DEFINE r == [at |-> "saving", id |-> drawn', job |-> Extension!New(o[2])]
    <3>1. drawn' \in Extension!Ids /\ drawn' \in 0..MaxJobs
      BY <2>2, BrowserAssumption DEF ExtensionInv, CountsOK, Extension!Ids
    <3>2. r \in OrderType /\ r.id \in Extension!Ids /\ r.job.clip \in Clips
      BY <1>2, <3>1, EmptyFacts DEF OrderType
    <3>3. orders' = [orders EXCEPT ![o] = r]
      BY <2>2
    <3> HIDE DEF r
    <3> QED BY <3>1, <3>2, <3>3 DEF ExtensionInv, OrdersOK
  <2> QED BY <2>1, <2>2 DEF Extension!Read
<1>4. LoopsOK' /\ AgainOK' /\ Corrected' /\ RecordsOK' /\ ItemsOK'
  BY <1>1, LoopsRest DEF ExtensionInv
<1>5. JobsOK(store') /\ SweepOK' /\ CountsOK'
  BY <1>1, <1>3 DEF ExtensionInv, SweepOK, CountsOK
<1> QED BY <1>3, <1>4, <1>5 DEF ExtensionInv

LEMMA OrderStepKeeps ==
  ASSUME ExtensionInv, NEW o \in Asked,
         Extension!SaveNew(o) \/ Extension!Published(o) \/ Extension!Refused(o)
  PROVE  ExtensionInv'
<1> DEFINE old == orders[o]
<1>1. UNCHANGED <<records, drawn, items, news, again, sweep, asks, alarms, deaths, orphans>>
  BY DEF Extension!SaveNew, Extension!Published, Extension!Refused, Extension!chrome, Extension!counts,
         Extension!durable
<1>2. /\ old \in OrderType /\ orders \in [Asked -> OrderType]
      /\ old.at \in {"saving", "publishing"} => old.id \in Extension!Ids /\ old.job.clip \in Clips
  BY DEF ExtensionInv, OrdersOK
<1>3. SweepOK' /\ CountsOK' /\ AgainOK' /\ RecordsOK' /\ ItemsOK'
  BY <1>1 DEF ExtensionInv, SweepOK, CountsOK, AgainOK, RecordsOK, ItemsOK
<1>4. ASSUME NEW r \in OrderType, orders' = [orders EXCEPT ![o] = r],
             r.at \in {"saving", "publishing"} => r.id \in Extension!Ids /\ r.job.clip \in Clips
      PROVE  OrdersOK'
  BY <1>4 DEF ExtensionInv, OrdersOK
<1>5. CASE Extension!SaveNew(o)
  <2>1. /\ old.at = "saving" /\ store' = Extension!Saved(old.id, old.job)
        /\ orders' = [orders EXCEPT ![o].at = "publishing"] /\ UNCHANGED loop
    BY <1>5 DEF Extension!SaveNew
  <2>2. JobsOK(store')
    <3>1. old.id \in Extension!Ids /\ JobOK(old.job) /\ JobsOK(store)
      BY <1>2, <2>1 DEF OrderType, JobOK, ExtensionInv
    <3> QED BY <2>1, <3>1, SavedJobs
  <2>3. OrdersOK'
    <3> DEFINE r == [old EXCEPT !.at = "publishing"]
    <3>1. r \in OrderType /\ r.id = old.id /\ r.job = old.job
      BY <1>2 DEF OrderType
    <3>2. orders' = [orders EXCEPT ![o] = r]
      BY <2>1, <1>2
    <3> HIDE DEF r
    <3> QED BY <1>2, <1>4, <2>1, <3>1, <3>2
  <2>4. LoopsOK' /\ Corrected'
    BY <1>1, <2>1, LoopsRest DEF ExtensionInv
  <2> QED BY <1>3, <2>2, <2>3, <2>4 DEF ExtensionInv
<1>6. CASE Extension!Published(o)
  <2> DEFINE r == IF Extension!Done(old.id, old.job) THEN Extension!NoOrder
                  ELSE [at |-> "waiting", id |-> old.id, job |-> Extension!Absent]
  <2>1. /\ old.at = "publishing" /\ loop' = Extension!WithLoop(old.id, old.job, FALSE)
        /\ orders' = [orders EXCEPT ![o] = r] /\ UNCHANGED store
    BY <1>6 DEF Extension!Published, Extension!durable
  <2>2. old.id \in Extension!Ids /\ old.job.clip \in Clips /\ old.job \in Extension!JobType
    BY <1>2, <2>1 DEF OrderType
  <2>3. r \in OrderType /\ r.at \notin {"saving", "publishing"}
    BY <2>2, EmptyFacts DEF OrderType, JobOK
  <2> HIDE DEF r
  <2>4. OrdersOK'
    BY <1>4, <2>1, <2>3
  <2>5. LoopsOK' /\ Corrected'
    <3>1. LoopsOK /\ Corrected /\ FALSE \in BOOLEAN
      BY DEF ExtensionInv
    <3> QED BY <1>1, <2>1, <2>2, <3>1, WithLoopTurns
  <2>6. JobsOK(store')
    BY <2>1 DEF ExtensionInv
  <2> QED BY <1>3, <2>4, <2>5, <2>6 DEF ExtensionInv
<1>7. CASE Extension!Refused(o)
  <2>1. orders' = [orders EXCEPT ![o] = Extension!NoOrder] /\ UNCHANGED <<store, loop>>
    BY <1>7 DEF Extension!Refused, Extension!durable
  <2>2. OrdersOK'
    BY <1>4, <2>1, EmptyFacts
  <2>3. LoopsOK' /\ Corrected'
    BY <1>1, <2>1, LoopsRest DEF ExtensionInv
  <2>4. JobsOK(store')
    BY <2>1 DEF ExtensionInv
  <2> QED BY <1>3, <2>2, <2>3, <2>4 DEF ExtensionInv
<1> QED BY <1>5, <1>6, <1>7

\* RESUME_VIDEO_JOB: an order anew, or the loop of a job that has a task.
LEMMA ResumeKeeps ==
  ASSUME ExtensionInv, NEW i \in Extension!Ids, Extension!Resume(i)
  PROVE  ExtensionInv'
<1>1. /\ asks < MaxAsks /\ asks' = asks + 1 /\ store[i].status # "none"
      /\ IF store[i].task = Extension!NoTask
         THEN Extension!Place(<<"popup", store[i].clip>>) /\ UNCHANGED loop
         ELSE loop' = Extension!WithLoop(i, store[i], FALSE) /\ UNCHANGED orders
      /\ UNCHANGED <<store, records, drawn, items, news, again, sweep, alarms, deaths, orphans>>
  BY DEF Extension!Resume, Extension!durable, Extension!chrome
<1>2. store[i] \in Extension!JobType /\ store[i].clip \in Clips
  BY <1>1 DEF ExtensionInv, JobsOK, JobOK
<1>3. JobsOK(store') /\ SweepOK' /\ CountsOK' /\ AgainOK' /\ RecordsOK' /\ ItemsOK'
  BY <1>1, BrowserAssumption DEF ExtensionInv, SweepOK, CountsOK, AgainOK, RecordsOK, ItemsOK
<1>4. OrdersOK' /\ LoopsOK' /\ Corrected'
  <2>1. CASE store[i].task = Extension!NoTask
    <3>1. PICK c \in Clips : c = store[i].clip
      BY <1>2
    <3>2. <<"popup", c>> \in Asked /\ Extension!Place(<<"popup", c>>) /\ UNCHANGED loop
      BY <1>1, <2>1, <3>1 DEF Asked, Extension!Doors
    <3>3. OrdersOK'
      BY <3>2, PlacedOrders DEF ExtensionInv
    <3>4. LoopsOK' /\ Corrected'
      BY <1>1, <3>2, LoopsRest DEF ExtensionInv
    <3> QED BY <3>3, <3>4
  <2>2. CASE store[i].task # Extension!NoTask
    <3>1. loop' = Extension!WithLoop(i, store[i], FALSE) /\ UNCHANGED orders
      BY <1>1, <2>2
    <3>2. OrdersOK'
      BY <3>1 DEF ExtensionInv, OrdersOK
    <3>3. LoopsOK /\ Corrected /\ FALSE \in BOOLEAN
      BY DEF ExtensionInv
    <3>4. LoopsOK' /\ Corrected'
      BY <1>1, <1>2, <3>1, <3>3, WithLoopTurns
    <3> QED BY <3>2, <3>4
  <2> QED BY <2>1, <2>2
<1> QED BY <1>3, <1>4 DEF ExtensionInv

\* RETRY_DOWNLOAD: the retry has the new download in its hands.
LEMMA RetryKeeps ==
  ASSUME ExtensionInv, NEW f \in Extension!Files, Extension!Retry(f)
  PROVE  ExtensionInv'
<1>1. /\ asks < MaxAsks /\ asks' = asks + 1 /\ records[f].state = "interrupted"
      /\ Extension!Begin(items[f].id)
      /\ records[f].task \in {Extension!RenderTask(i) : i \in Extension!Ids}
      /\ again' = [again EXCEPT ![Extension!Started] = [at |-> "tracking", task |-> records[f].task]]
      /\ UNCHANGED <<store, records, drawn, news, orders, loop, sweep, alarms, deaths, orphans>>
  BY DEF Extension!Retry, Extension!durable
<1>2. items[f].id \in Extension!Ids
  <2>1. f \in 1..Len(items) /\ items \in Seq(ItemType)
    BY <1>1 DEF ExtensionInv, RecordsOK, ItemsOK
  <2>2. items[f] \in ItemType
    BY <2>1
  <2> QED BY <2>2 DEF ItemType
<1>3. /\ ItemsOK' /\ Extension!Started \in Extension!Files /\ Extension!Started \in DOMAIN items'
      /\ \A g \in DOMAIN items : g \in DOMAIN items' /\ items'[g] = items[g]
      /\ \A g \in Extension!Files : Extension!Ended(g)' => Extension!Ended(g)
  BY <1>1, <1>2, BeginGrows DEF ExtensionInv
<1>4. AgainOK'
  <2>1. records[f].task \in Extension!TaskIds /\ records[f].task # Extension!NoTask
    BY <1>1, TaskFacts
  <2>2. AgainOK
    BY DEF ExtensionInv
  <2>3. PICK r : r = [at |-> "tracking", task |-> records[f].task]
    OBVIOUS
  <2>4. r \in RetryType /\ r.task # Extension!NoTask
    BY <2>1, <2>3 DEF RetryType, Extension!Stages
  <2>5. again' = [again EXCEPT ![Extension!Started] = r]
    BY <1>1, <2>3
  <2> QED BY <1>3, <2>2, <2>4, <2>5 DEF AgainOK
<1>5. \A g \in Extension!Files : Seen(g) => Seen(g)'
  <2>1. again \in [Extension!Files -> RetryType]
    BY DEF ExtensionInv, AgainOK
  <2> QED BY <1>1, <1>3, <2>1 DEF Seen
<1>6. Corrected' /\ RecordsOK'
  BY <1>1, <1>3, <1>5, GrownKeeps DEF ExtensionInv
<1>7. LoopsOK'
  BY <1>1, <1>3 DEF ExtensionInv, LoopsOK, LoopOK
<1>8. JobsOK(store') /\ OrdersOK' /\ SweepOK' /\ CountsOK'
  BY <1>1, BrowserAssumption DEF ExtensionInv, OrdersOK, SweepOK, CountsOK
<1> QED BY <1>3, <1>4, <1>6, <1>7, <1>8 DEF ExtensionInv

\* A retry goes on from a point to the next one.
LEMMA RetryTurn ==
  ASSUME AgainOK, NEW f \in Extension!Files,
         NEW at \in {"searching", "marking"}, again' = [again EXCEPT ![f].at = at],
         again[f].at \in {"tracking", "searching"},
         UNCHANGED <<items, news, loop, orphans>>
  PROVE  /\ AgainOK'
         /\ \A g \in Extension!Files \ {f} : Seen(g) => Seen(g)'
         /\ at = "searching" => Seen(f)'
<1>1. again[f] \in RetryType /\ again \in [Extension!Files -> RetryType]
  BY DEF AgainOK
<1> DEFINE r == [again[f] EXCEPT !.at = at]
<1>2. r \in RetryType /\ r.at = at /\ r.task = again[f].task
  BY <1>1 DEF RetryType, Extension!Stages
<1>3. again' = [again EXCEPT ![f] = r]
  BY <1>1
<1> HIDE DEF r
<1>4. AgainOK'
  BY <1>1, <1>2, <1>3 DEF AgainOK
<1>5. \A g \in Extension!Files \ {f} : Seen(g) => Seen(g)'
  BY <1>1, <1>3 DEF Seen
<1>6. at = "searching" => Seen(f)'
  BY <1>1, <1>2, <1>3 DEF Seen
<1> QED BY <1>4, <1>5, <1>6

LEMMA RetryStepKeeps ==
  ASSUME ExtensionInv, NEW f \in Extension!Files,
         Extension!RetryTrack(f) \/ Extension!RetrySearch(f) \/ Extension!RetryMark(f)
  PROVE  ExtensionInv'
<1>0. PICK task : task = again[f].task
  OBVIOUS
<1>1. /\ again[f].at \in {"tracking", "searching", "marking"}
      /\ UNCHANGED <<drawn, items, news, orders, loop, sweep, asks, alarms, deaths, orphans>>
  BY DEF Extension!RetryTrack, Extension!RetrySearch, Extension!RetryMark, Extension!chrome,
         Extension!counts
<1>2. /\ AgainOK /\ f \in DOMAIN items /\ task \in Extension!TaskIds
      /\ task # Extension!NoTask
  BY <1>0, <1>1 DEF ExtensionInv, AgainOK, RetryType
<1>4. LoopsOK' /\ OrdersOK' /\ SweepOK' /\ ItemsOK' /\ CountsOK'
  BY <1>1 DEF ExtensionInv, LoopsOK, LoopOK, OrdersOK, SweepOK, ItemsOK, CountsOK
<1>5. CASE Extension!RetryTrack(f)
  <2>1. /\ again[f].at = "tracking" /\ again' = [again EXCEPT ![f].at = "searching"]
        /\ records' = Extension!Tracked(f, task) /\ UNCHANGED store
    BY <1>0, <1>5 DEF Extension!RetryTrack
  <2>2. /\ AgainOK' /\ Seen(f)' /\ \A g \in Extension!Files \ {f} : Seen(g) => Seen(g)'
    BY <1>1, <1>2, <2>1, RetryTurn
  <2>3. \A g \in Extension!Files : Seen(g) => Seen(g)'
    BY <2>2
  <2>4. RecordsOK' /\ Corrected'
    BY <1>1, <1>2, <2>1, <2>2, <2>3, TrackedRecords DEF ExtensionInv
  <2> QED BY <1>4, <2>1, <2>2, <2>4 DEF ExtensionInv
<1>6. CASE Extension!RetrySearch(f)
  <2>1. /\ again[f].at = "searching" /\ again' = [again EXCEPT ![f].at = "marking"]
        /\ Extension!Looks(f)
    BY <1>6 DEF Extension!RetrySearch
  <2>2. AgainOK' /\ \A g \in Extension!Files \ {f} : Seen(g) => Seen(g)'
    BY <1>1, <1>2, <2>1, RetryTurn
  <2>3. JobsOK(store') /\ RecordsOK' /\ Corrected'
    BY <1>1, <2>1, <2>2, LookKeeps
  <2> QED BY <1>4, <2>2, <2>3 DEF ExtensionInv
<1>7. CASE Extension!RetryMark(f)
  <2>1. /\ again[f].at = "marking" /\ again' = [again EXCEPT ![f] = Extension!NoRetry]
        /\ store' = Extension!Marked(f, task) /\ UNCHANGED records
    BY <1>0, <1>7 DEF Extension!RetryMark
  <2>2. AgainOK'
    BY <1>1, <1>2, <2>1, EmptyFacts DEF AgainOK
  <2>3. \A g \in Extension!Files : Seen(g) => Seen(g)'
    BY <1>1, <1>2, <2>1 DEF Seen, AgainOK
  <2>4. Corrected' /\ RecordsOK'
    BY <1>1, <2>1, <2>3, SightKeeps DEF ExtensionInv, RecordsOK
  <2>5. JobsOK(store')
    BY <1>2, <2>1, MarkedJobs DEF ExtensionInv
  <2> QED BY <1>4, <2>2, <2>4, <2>5 DEF ExtensionInv
<1> QED BY <1>5, <1>6, <1>7

\* reconcileJobs: what it read is still jobs when it comes to them.
LEMMA AlarmKeeps ==
  ASSUME ExtensionInv, Extension!Alarm
  PROVE  ExtensionInv'
<1> DEFINE files == {f \in Extension!Files : records[f].state = "in_progress"}
           working == {k \in Extension!Ids : store[k].status = "working"}
           jobs == {[id |-> i, job |-> store[i]] : i \in working}
<1>1. /\ alarms < MaxAlarms /\ alarms' = alarms + 1
      /\ sweep' = [sweep EXCEPT ![alarms + 1] = [files |-> files, jobs |-> jobs, at |-> Extension!NoId]]
      /\ UNCHANGED <<store, records, drawn, items, news, orders, loop, again, asks, deaths, orphans>>
  BY DEF Extension!Alarm, Extension!durable, Extension!chrome
<1>2. \A e \in jobs : e \in EntryType /\ e.job.clip \in Clips
  BY DEF ExtensionInv, JobsOK, JobOK, EntryType
<1>3. files \subseteq Extension!Files /\ Extension!NoId = 0
  BY DEF Extension!NoId
<1> HIDE DEF files, jobs
<1>4. SweepOK'
  <2>1. PICK read : read = [files |-> files, jobs |-> jobs, at |-> Extension!NoId]
    OBVIOUS
  <2>2. read \in SweepType /\ \A e \in read.jobs : e.job.clip \in Clips
    BY <1>2, <1>3, <2>1 DEF SweepType
  <2>3. SweepOK /\ sweep' = [sweep EXCEPT ![alarms + 1] = read]
    BY <1>1, <2>1 DEF ExtensionInv
  <2> QED BY <2>2, <2>3 DEF SweepOK
<1>5. LoopsOK' /\ AgainOK' /\ Corrected' /\ RecordsOK' /\ ItemsOK'
  BY <1>1, LoopsRest DEF ExtensionInv
<1>6. JobsOK(store') /\ OrdersOK' /\ CountsOK'
  BY <1>1, BrowserAssumption DEF ExtensionInv, OrdersOK, CountsOK
<1> QED BY <1>4, <1>5, <1>6 DEF ExtensionInv

LEMMA SweepFileKeeps ==
  ASSUME ExtensionInv, NEW a \in Extension!Sweeps, NEW f \in Extension!Files, Extension!SweepFile(a, f)
  PROVE  ExtensionInv'
<1>1. /\ sweep' = [sweep EXCEPT ![a].files = @ \ {f}] /\ Extension!Looks(f)
      /\ UNCHANGED <<drawn, items, news, orders, loop, again, asks, alarms, deaths, orphans>>
  BY DEF Extension!SweepFile, Extension!chrome, Extension!counts
<1>2. SweepOK'
  <2>1. SweepOK /\ sweep[a] \in SweepType
    BY DEF ExtensionInv, SweepOK
  <2> DEFINE r == [sweep[a] EXCEPT !.files = @ \ {f}]
  <2>2. r \in SweepType /\ r.jobs = sweep[a].jobs
    BY <2>1 DEF SweepType
  <2>3. sweep' = [sweep EXCEPT ![a] = r]
    BY <1>1, <2>1 DEF SweepOK
  <2> HIDE DEF r
  <2> QED BY <2>1, <2>2, <2>3 DEF SweepOK
<1>3. \A g \in Extension!Files : Seen(g) => Seen(g)'
  BY <1>1 DEF Seen
<1>4. JobsOK(store') /\ RecordsOK' /\ Corrected'
  BY <1>1, <1>3, LookKeeps
<1>5. LoopsOK' /\ AgainOK' /\ OrdersOK' /\ ItemsOK' /\ CountsOK'
  BY <1>1 DEF ExtensionInv, LoopsOK, LoopOK, AgainOK, OrdersOK, ItemsOK, CountsOK
<1> QED BY <1>2, <1>4, <1>5 DEF ExtensionInv

LEMMA SweepJobKeeps ==
  ASSUME ExtensionInv, NEW a \in Extension!Sweeps, NEW entry \in sweep[a].jobs,
         Extension!SweepJob(a, entry)
  PROVE  ExtensionInv'
<1>1. /\ sweep' = [sweep EXCEPT ![a].jobs = @ \ {entry},
                                ![a].at = IF Extension!Done(entry.id, entry.job) THEN 0 ELSE entry.id]
      /\ loop' = Extension!WithLoop(entry.id, entry.job, TRUE)
      /\ UNCHANGED <<store, records, drawn, items, news, orders, again, asks, alarms, deaths, orphans>>
  BY DEF Extension!SweepJob, Extension!NoId, Extension!durable, Extension!chrome, Extension!counts
<1>2. entry.id \in Extension!Ids /\ entry.job \in Extension!JobType /\ entry.job.clip \in Clips
  BY DEF ExtensionInv, SweepOK, SweepType, EntryType
<1>3. SweepOK'
  <2>1. SweepOK /\ sweep[a] \in SweepType
    BY DEF ExtensionInv, SweepOK
  <2>2. PICK at : at = IF Extension!Done(entry.id, entry.job) THEN 0 ELSE entry.id
    OBVIOUS
  <2>3. at \in {0} \cup Extension!Ids
    BY <1>2, <2>2
  <2> DEFINE r == [sweep[a] EXCEPT !.jobs = @ \ {entry}, !.at = at]
  <2>4. r \in SweepType /\ r.jobs \subseteq sweep[a].jobs
    BY <2>1, <2>3 DEF SweepType
  <2>5. sweep' = [sweep EXCEPT ![a] = r]
    BY <1>1, <2>1, <2>2 DEF SweepOK
  <2> HIDE DEF r
  <2> QED BY <2>1, <2>4, <2>5 DEF SweepOK
<1>4. LoopsOK' /\ Corrected'
  <2>1. LoopsOK /\ Corrected /\ TRUE \in BOOLEAN
    BY DEF ExtensionInv
  <2> QED BY <1>1, <1>2, <2>1, WithLoopTurns
<1>5. JobsOK(store') /\ AgainOK' /\ OrdersOK' /\ RecordsOK' /\ ItemsOK' /\ CountsOK'
  BY <1>1 DEF ExtensionInv, AgainOK, OrdersOK, RecordsOK, ItemsOK, CountsOK
<1> QED BY <1>3, <1>4, <1>5 DEF ExtensionInv

\* A download ends; its event is on its way.
LEMMA FileEndsKeeps ==
  ASSUME ExtensionInv, NEW f \in Extension!Files, NEW outcome \in Extension!Over,
         Extension!FileEnds(f, outcome)
  PROVE  ExtensionInv'
<1>1. /\ f \in DOMAIN items /\ items' = [items EXCEPT ![f].state = outcome] /\ news' = news \cup {f}
      /\ UNCHANGED <<store, records, drawn, orders, loop, again, sweep, asks, alarms, deaths, orphans>>
  BY DEF Extension!FileEnds, Extension!durable, Extension!memory, Extension!counts
<1>2. items \in Seq(ItemType) /\ f \in 1..Len(items) /\ Len(items) <= MaxFiles
  BY <1>1 DEF ExtensionInv, ItemsOK
<1>3. items[f] \in ItemType
  BY <1>2
<1> DEFINE r == [items[f] EXCEPT !.state = outcome]
<1>4. r \in ItemType /\ items' = [items EXCEPT ![f] = r]
  BY <1>1, <1>3 DEF ItemType
<1> HIDE DEF r
<1>5. /\ items' \in Seq(ItemType) /\ Len(items') = Len(items) /\ DOMAIN items' = DOMAIN items
      /\ \A g \in DOMAIN items : g # f => items'[g] = items[g]
  BY <1>2, <1>4, ExceptSeq
<1>6. ItemsOK'
  BY <1>2, <1>5 DEF ItemsOK
<1>7. LoopsOK' /\ AgainOK' /\ RecordsOK'
  BY <1>1, <1>5 DEF ExtensionInv, LoopsOK, LoopOK, AgainOK, RecordsOK
<1>8. Corrected'
  <2>1. \A g \in Extension!Files : Seen(g) => Seen(g)'
    BY <1>1 DEF Seen
  <2>2. Seen(f)'
    BY <1>1 DEF Seen
  <2> QED BY <1>1, <1>5, <2>1, <2>2 DEF ExtensionInv, Corrected, Extension!Ended
<1>9. JobsOK(store') /\ OrdersOK' /\ SweepOK' /\ CountsOK'
  BY <1>1 DEF ExtensionInv, OrdersOK, SweepOK, CountsOK
<1> QED BY <1>6, <1>7, <1>8, <1>9 DEF ExtensionInv

\* The event of a download that is not recorded yet changes nothing; the one
\* who records it looks afterwards.
LEMMA EndHeardKeeps ==
  ASSUME ExtensionInv, NEW f \in Extension!Files, Extension!Hear(f)
  PROVE  ExtensionInv'
<1>1. /\ news' = news \ {f} /\ records' = Extension!Reported(f) /\ store' = Extension!Settled(f)
      /\ UNCHANGED <<drawn, items, orders, loop, again, sweep, asks, alarms, deaths, orphans>>
  BY DEF Extension!Hear, Extension!memory, Extension!counts
<1>2. JobsOK(store')
  BY <1>1, SettledJobs DEF ExtensionInv
<1>3. /\ records' \in [Extension!Files -> RecordType]
      /\ \A g \in Extension!Files : /\ (records'[g].state = "none") <=> (records[g].state = "none")
                                    /\ g # f => records'[g] = records[g]
      /\ records[f].state # "none" => records'[f].state = items[f].state
  BY <1>1, ReportedRecords DEF ExtensionInv
<1>4. RecordsOK'
  BY <1>1, <1>3 DEF RecordsOK, ExtensionInv
<1>5. \A g \in Extension!Files \ {f} : Seen(g) => Seen(g)'
  BY <1>1 DEF Seen
<1>6. Corrected'
  BY <1>1, <1>3, <1>5 DEF Corrected, ExtensionInv, Extension!Ended
<1>7. LoopsOK' /\ AgainOK' /\ OrdersOK' /\ SweepOK' /\ ItemsOK' /\ CountsOK'
  BY <1>1 DEF ExtensionInv, LoopsOK, LoopOK, AgainOK, OrdersOK, SweepOK, ItemsOK, CountsOK
<1> QED BY <1>2, <1>4, <1>6, <1>7 DEF ExtensionInv

\* The worker is stopped: what it had in its hands is an orphan.
LEMMA DieKeeps ==
  ASSUME ExtensionInv, NEW torn \in SUBSET news, Extension!Die(torn)
  PROVE  ExtensionInv'
<1>1. /\ deaths < MaxDeaths /\ deaths' = deaths + 1 /\ news' = news \ torn
      /\ orphans' = (orphans \cup torn \cup Extension!InHand) \ {0}
      /\ records' = [f \in Extension!Files |-> IF f \in torn THEN Extension!Reported(f)[f] ELSE records[f]]
      /\ orders' = [o \in Asked |-> Extension!NoOrder] /\ loop' = [i \in Extension!Ids |-> Extension!NoLoop]
      /\ again' = [f \in Extension!Files |-> Extension!NoRetry]
      /\ sweep' = [a \in Extension!Sweeps |-> Extension!Rest]
      /\ UNCHANGED <<store, drawn, items, asks, alarms>>
  BY DEF Extension!Die, Extension!NoFile, Asked
<1>2. Extension!InHand \subseteq {0} \cup Extension!Files
  BY DEF ExtensionInv, LoopsOK, AgainOK, LoopType, RetryType, Extension!InHand
<1>3. torn \subseteq Extension!Files /\ 0 \notin Extension!Files
  BY DEF ExtensionInv, CountsOK, Extension!Files
<1>4. CountsOK'
  <2>1. news' \subseteq Extension!Files /\ orphans' \subseteq Extension!Files
    BY <1>1, <1>2, <1>3 DEF ExtensionInv, CountsOK
  <2>2. drawn' \in 0..MaxJobs /\ asks' \in 0..MaxAsks /\ alarms' \in 0..MaxAlarms /\ deaths' \in 0..MaxDeaths
    BY <1>1, BrowserAssumption DEF ExtensionInv, CountsOK
  <2> QED BY <2>1, <2>2 DEF CountsOK
<1>5. ASSUME NEW f \in Extension!Files
      PROVE  /\ records'[f] \in RecordType
             /\ (records'[f].state = "none") <=> (records[f].state = "none")
             /\ f \notin torn => records'[f] = records[f]
  BY <1>1, ReportedRecords DEF ExtensionInv, RecordsOK
<1>6. RecordsOK'
  BY <1>1, <1>5 DEF ExtensionInv, RecordsOK
<1>7. LoopsOK' /\ AgainOK' /\ OrdersOK'
  BY <1>1, EmptyFacts DEF LoopsOK, LoopOK, AgainOK, OrdersOK, Seeing
<1>8. SweepOK'
  BY <1>1 DEF SweepOK, SweepType, Extension!Rest, Extension!NoId
<1>9. \A f \in Extension!Files : Seen(f) => Seen(f)'
  <2>1. \A f \in Extension!Files :
          (\E i \in Extension!Ids : loop[i].file = f) \/ again[f].at # "none" => f \in Extension!InHand
    BY DEF Extension!InHand
  <2> QED BY <1>1, <1>3, <2>1 DEF Seen
<1>10. torn \subseteq orphans'
  BY <1>1, <1>3
<1>11. Corrected'
  <2>1. \A f \in torn : Seen(f)'
    BY <1>10 DEF Seen
  <2> QED BY <1>1, <1>5, <1>9, <2>1 DEF ExtensionInv, Corrected, Extension!Ended
<1>12. JobsOK(store') /\ ItemsOK'
  BY <1>1 DEF ExtensionInv, ItemsOK
<1> QED BY <1>4, <1>6, <1>7, <1>8, <1>11, <1>12 DEF ExtensionInv

LEMMA ExtensionStarts == Extension!Init => ExtensionInv
<1> SUFFICES ASSUME Extension!Init PROVE ExtensionInv
  OBVIOUS
<1>1. /\ store = [i \in Extension!Ids |-> Extension!Absent]
      /\ records = [f \in Extension!Files |-> Extension!NoRecord]
      /\ items = <<>> /\ news = {} /\ drawn = 0
      /\ orders = [o \in Asked |-> Extension!NoOrder] /\ loop = [i \in Extension!Ids |-> Extension!NoLoop]
      /\ again = [f \in Extension!Files |-> Extension!NoRetry]
      /\ sweep = [a \in Extension!Sweeps |-> Extension!Rest]
      /\ asks = 0 /\ alarms = 0 /\ deaths = 0 /\ orphans = {}
  BY DEF Extension!Init, Asked
<1>2. JobsOK(store)
  BY <1>1, EmptyFacts DEF JobsOK, JobOK
<1>3. LoopsOK /\ AgainOK /\ OrdersOK
  BY <1>1, EmptyFacts DEF LoopsOK, LoopOK, AgainOK, OrdersOK, Seeing
<1>4. SweepOK
  BY <1>1 DEF SweepOK, SweepType, Extension!Rest, Extension!NoId
<1>5. RecordsOK /\ Corrected
  BY <1>1, EmptyFacts DEF RecordsOK, Corrected
<1>6. ItemsOK
  <2>1. <<>> \in Seq(ItemType) /\ Len(<<>>) = 0
    OBVIOUS
  <2> QED BY <1>1, <2>1, BrowserAssumption DEF ItemsOK
<1>7. CountsOK
  BY <1>1, BrowserAssumption DEF CountsOK
<1> QED BY <1>2, <1>3, <1>4, <1>5, <1>6, <1>7 DEF ExtensionInv

\* Every step of the extension keeps the invariant, and so does its rest.
LEMMA ExtensionGoesOn == ExtensionInv /\ [Extension!Next]_extensionVars => ExtensionInv'
<1> SUFFICES ASSUME ExtensionInv, [Extension!Next]_extensionVars PROVE ExtensionInv'
  OBVIOUS
<1>1. ASSUME NEW f \in Extension!Files, NEW outcome \in Extension!Over, Extension!FileEnds(f, outcome)
      PROVE  ExtensionInv'
  BY <1>1, FileEndsKeeps
<1>2. ASSUME NEW f \in Extension!Files, Extension!Hear(f) \/ Extension!Retry(f)
      PROVE  ExtensionInv'
  BY <1>2, EndHeardKeeps, RetryKeeps
<1>10. ASSUME NEW f \in Extension!Files,
              Extension!RetryTrack(f) \/ Extension!RetrySearch(f) \/ Extension!RetryMark(f)
       PROVE  ExtensionInv'
  BY <1>10, RetryStepKeeps
<1>11. ASSUME NEW a \in Extension!Sweeps, NEW f \in Extension!Files, Extension!SweepFile(a, f)
       PROVE  ExtensionInv'
  BY <1>11, SweepFileKeeps
<1>3. ASSUME NEW torn \in SUBSET news, Extension!Die(torn) PROVE ExtensionInv'
  BY <1>3, DieKeeps
<1>4. ASSUME NEW i \in Extension!Ids, Extension!LoopStep(i) \/ Extension!Resume(i) PROVE ExtensionInv'
  BY <1>4, ServerStepKeeps, FetchKeeps, SaveEncodedKeeps, TrackKeeps, SearchKeeps, MarkKeeps, ResumeKeeps
     DEF Extension!LoopStep
<1>5. ASSUME NEW c \in Clips, Extension!Order(c) PROVE ExtensionInv'
  BY <1>5, OrderKeeps
<1>6. ASSUME NEW o \in Asked, Extension!OrderStep(o) PROVE ExtensionInv'
  BY <1>6, JobsReadKeeps, OrderStepKeeps DEF Extension!OrderStep
<1>7. CASE Extension!Alarm
  BY <1>7, AlarmKeeps
<1>8. ASSUME NEW a \in Extension!Sweeps, NEW entry \in sweep[a].jobs, Extension!SweepJob(a, entry)
      PROVE  ExtensionInv'
  BY <1>8, SweepJobKeeps
<1>9. CASE UNCHANGED extensionVars
  <2>1. UNCHANGED <<store, records, items, news, drawn, orders, loop, again, sweep, asks,
                    alarms, deaths, orphans>>
    BY <1>9 DEF extensionVars
  <2>2. LoopsOK' /\ AgainOK' /\ Corrected' /\ RecordsOK' /\ ItemsOK'
    BY <2>1, LoopsRest DEF ExtensionInv
  <2> QED BY <2>1, <2>2 DEF ExtensionInv, OrdersOK, SweepOK, CountsOK
<1> QED BY <1>1, <1>2, <1>3, <1>4, <1>5, <1>6, <1>7, <1>8, <1>9, <1>10, <1>11
    DEF Extension!Next, Asked

-----------------------------------------------------------------------------
(* The browser.                                                            *)

\* Every step of the browser is one of each component's or leaves it alone.
LEMMA SiteSteps ==
  [BrowserNext]_browserVars
  => [Pages!Next]_siteVars /\ [Extension!Next]_extensionVars /\ [Next]_vars
<1> SUFFICES ASSUME [BrowserNext]_browserVars
             PROVE  [Pages!Next]_siteVars /\ [Extension!Next]_extensionVars /\ [Next]_vars
  OBVIOUS
<1>1. CASE LyricOnly \/ StudioOnly \/ UNCHANGED browserVars
  BY <1>1 DEF LyricOnly, StudioOnly, browserVars, soundVars
<1>2. CASE /\ PageOnly
           /\ \/ \E s \in Studios, song \in Pages!SongOrNone : Pages!OpenFromPage(s, song)
              \/ Pages!HashChange
              \/ \E h \in Hashes : Pages!ChooseHash(h)
              \/ \E s \in Studios : Pages!RetryLoad(s)
              \/ \E s \in Studios : Pages!Timeout(s)
              \/ \E s \in Studios : Pages!Boot(s)
              \/ Pages!Fetch
              \/ \E s \in Studios, draft \in BOOLEAN : Pages!Loaded(s, draft)
              \/ \E s \in Studios : Pages!LoadFails(s)
              \/ \E s \in Studios : Pages!Edit(s)
              \/ Pages!Refresh
              \/ \E s \in Studios : Pages!Save(s)
              \/ \E s \in Studios, newer \in BOOLEAN : Pages!Receipt(s, newer)
              \/ \E s \in Studios : Pages!SaveFails(s)
              \/ \E s \in Studios, song \in Songs : Pages!Pick(s, song)
              \/ \E s \in Studios : Pages!Cross(s)
              \/ \E s \in Studios : Pages!Deliver(s)
              \/ \E s \in Studios : Pages!DeliverSwitch(s)
              \/ Pages!Logout \/ Pages!Login
  <2>1. UNCHANGED extensionVars /\ UNCHANGED vars
    BY <1>2 DEF PageOnly, soundVars
  <2>2. Pages!Studios = Studios
    BY DEF Pages!Studios, Studios
  <2>3. Pages!Next
    BY <1>2, <2>2 DEF Pages!Next, Hashes
  <2> QED BY <2>1, <2>3
<1>3. CASE /\ SoundOnly
           /\ \/ \E s \in Studios : Play(s)
              \/ \E s \in Studios : Stop(s)
              \/ \E s \in Studios : Obey(s)
              \/ \E s \in Studios : Reload(s)
              \/ \E s \in Studios : Hear(s)
              \/ \E s \in Studios \cup {NoOne} : Show(s)
              \/ SongChanged
  <2>1. UNCHANGED siteVars /\ UNCHANGED extensionVars
    BY <1>3 DEF SoundOnly
  <2>2. Next
    BY <1>3 DEF Next
  <2> QED BY <2>1, <2>2
<1>4. CASE /\ WorkerOnly
           /\ \/ \E f \in Files, outcome \in Extension!Over : Extension!FileEnds(f, outcome)
              \/ \E f \in Files : Extension!Hear(f)
              \/ \E f \in Files : Extension!Retry(f)
              \/ \E a \in Sweeps, f \in Files : Extension!SweepFile(a, f)
              \/ \E torn \in SUBSET news : Extension!Die(torn)
              \/ \E i \in Jobs : Extension!AlignWaits(i)
              \/ \E i \in Jobs : Extension!Aligned(i)
              \/ \E i \in Jobs : Extension!Encode(i)
              \/ \E i \in Jobs : Extension!EncodeFails(i)
              \/ \E i \in Jobs : Extension!SaveEncoded(i)
              \/ \E i \in Jobs : Extension!Post(i)
              \/ \E i \in Jobs : Extension!RenderWaits(i)
              \/ \E i \in Jobs : Extension!Rendered(i)
              \/ \E i \in Jobs : Extension!Fetch(i)
              \/ \E i \in Jobs : Extension!Track(i)
              \/ \E i \in Jobs : Extension!Search(i)
              \/ \E i \in Jobs : Extension!Mark(i)
              \/ \E i \in Jobs : Extension!Trouble(i)
              \/ \E i \in Jobs : Extension!GiveUp(i)
              \/ \E i \in Jobs : Extension!Fails(i)
              \/ \E i \in Jobs : Extension!Resume(i)
              \/ \E c \in Clips : Extension!Order(c)
              \/ \E o \in Asked : Extension!Read(o)
              \/ \E o \in Asked : Extension!SaveNew(o)
              \/ \E o \in Asked : Extension!Published(o)
              \/ \E o \in Asked : Extension!Refused(o)
              \/ \E f \in Files : Extension!RetryTrack(f)
              \/ \E f \in Files : Extension!RetrySearch(f)
              \/ \E f \in Files : Extension!RetryMark(f)
              \/ Extension!Alarm
              \/ \E a \in Sweeps : \E entry \in sweep[a].jobs : Extension!SweepJob(a, entry)
  <2>1. UNCHANGED siteVars /\ UNCHANGED vars
    BY <1>4 DEF WorkerOnly, soundVars
  <2>2. /\ Files = Extension!Files /\ Jobs = Extension!Ids
        /\ Sweeps = Extension!Sweeps /\ Asked = Extension!Doors \X Clips
    BY DEF Files, Extension!Files, Jobs, Extension!Ids, Sweeps, Extension!Sweeps, Asked
  <2>3. Extension!Next
    BY <1>4, <2>2 DEF Extension!Next, Extension!LoopStep, Extension!OrderStep
  <2> QED BY <2>1, <2>3
<1> QED BY <1>1, <1>2, <1>3, <1>4, ZenonT(60) DEF BrowserNext, Navigating, Disturbing, Making

\* What holds of the page, of who is heard and of the extension in every
\* state of the browser.
THEOREM SiteSound == BrowserSpec => [](PageInv /\ ExtensionInv /\ IInv)
<1>1. BrowserInit => PageInv /\ ExtensionInv /\ IInv
  BY PageStarts, ExtensionStarts, SoundStarts DEF BrowserInit
<1>2. PageInv /\ ExtensionInv /\ IInv /\ [BrowserNext]_browserVars => PageInv' /\ ExtensionInv' /\ IInv'
  BY SiteSteps, PageGoesOn, ExtensionGoesOn, SoundGoesOn
<1> QED BY <1>1, <1>2, PTL DEF BrowserSpec, browserVars

\* The variables of the five modules keep their types: a request, a report, a
\* load or a record is always one of those that the code knows.
THEOREM BrowserTyped == BrowserSpec => []BrowserTypeOK
<1>1. PageInv /\ ExtensionInv /\ IInv /\ LyricInv /\ MotionInv => BrowserTypeOK
  BY PageHolds, ExtensionHolds DEF BrowserTypeOK, IInv, LyricInv, MotionInv
<1> QED BY <1>1, SiteSound, DocumentsSound, PTL

\* A lyric draft is known to the page or about to be, whatever documents,
\* loads and saves came before it (markDirty and its bridge; receive of
\* studio-adapters.js).
THEOREM DraftsAreAlwaysReported == BrowserSpec => []DraftsAreReported
<1>1. PageInv => DraftsAreReported
  BY DraftIsReported DEF DraftsAreReported
<1> QED BY <1>1, SiteSound, PTL

\* An editor is ready for a song only once the document of its own request
\* has opened one (the request id that receive compares).
THEOREM ReadyIsOpened == BrowserSpec => []ReadyMeansOpened
<1>1. PageInv => ReadyMeansOpened
  BY PageHolds DEF ReadyMeansOpened
<1> QED BY <1>1, SiteSound, PTL

\* A draft the page could know is never navigated away (the dirty flag that
\* activate checks before it sets frame.src).
THEOREM DraftsStay == BrowserSpec => DraftsAreNotReplaced
<1>1. PageInv /\ [BrowserNext]_browserVars
      => [\A s \in Pages!Studios :
            doc[s].dirty /\ doc'[s].req > doc[s].req
            => \/ Pages!Undelivered(s, "STATE") # {} \/ Pages!Undelivered(s, "LOADED") # {}
               \/ Pages!Undelivered(s, "SAVED") # {}
               \/ ~doc[s].told
               \/ doc[s].req # adapter[s].req
               \/ doc[s].stage # "open"]_Pages!vars
  BY SiteSteps, DraftIsKept
<1> QED BY <1>1, SiteSound, PTL DEF BrowserSpec, browserVars, DraftsAreNotReplaced, Pages!DraftsAreNotReplaced

\* A download that is over is recorded as it ended, whichever of its record
\* and its event came first (trackDownload and updateDownload).
THEOREM RecordsEndCorrected == BrowserSpec => []RecordsAreCorrected
<1>1. ExtensionInv => RecordsAreCorrected
  BY ExtensionHolds DEF RecordsAreCorrected
<1> QED BY <1>1, SiteSound, PTL
=============================================================================
