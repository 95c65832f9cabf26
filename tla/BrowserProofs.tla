---------------------------- MODULE BrowserProofs ----------------------------
(***************************************************************************)
(* Theorems about the documents of the two editors, as MCBrowser composes  *)
(* them, for any set of songs and any number of loads, edits and saves.    *)
(***************************************************************************)
EXTENDS MCBrowser, SequenceTheorems, TLAPS

-----------------------------------------------------------------------------
(* The lyric editor.                                                       *)

LoadType == [song : Songs, stage : Lyrics!Stages, version : Lyrics!Versions,
             got : Lyrics!TextOrNone]

\* What the last load, the only one in time, has come to, and its song.
Phase == IF loads = <<>> THEN "ended" ELSE loads[Len(loads)].stage
Chosen == IF loads = <<>> THEN NoSong ELSE loads[Len(loads)].song

Drafting == Phase = "draft"

\* The server has held what it has, what the cache has and what it answers.
Stored ==
  /\ \A s \in Songs : server[s].text \in held[s]
  /\ \A s \in Songs : cache[s].text # NoText => cache[s].text \in held[s]
  /\ \A l \in Loads : loads[l].stage = "answered" => loads[l].got \in held[loads[l].song]

\* Until its end the last load is about the current song, which is not open.
Entered ==
  /\ Phase \in {"cache", "fetch", "answered", "draft"} => current = Chosen /\ ~opened
  /\ opened => current \in Songs

Clean == (opened \/ Drafting) /\ ~dirty => text \in held[current]

\* A save that nothing newer has overtaken is of the text on the screen, or of
\* one that a load has replaced with one the server has held.
Sent ==
  /\ saving.stage # "no" => saving.song \in Songs /\ saving.text \in Lyrics!Texts
  /\ saving.stage = "committed" => saving.text \in held[saving.song]
  /\ saving.stage # "no" /\ saving.song = current /\ ~saving.newer /\ (opened \/ Drafting)
     => text = saving.text \/ text \in held[current]

\* What is typed before the draft is read has the timer running.
Timed == Drafting /\ text # NoText /\ text \notin held[current] => timer = current

\* Each save makes one version.
Counted ==
  /\ held \in [Songs -> SUBSET Lyrics!Texts]
  /\ \A s \in Songs : /\ server[s].version <= saves + 1
                      /\ saving.stage = "sent" => server[s].version <= saves

LyricInv ==
  /\ Lyrics!TypeOK /\ Counted
  /\ Stored /\ Entered /\ Clean /\ Sent /\ Timed /\ Lyrics!UnsavedTextSurvives

\* One load goes on.
LEMMA LoadTurns ==
  ASSUME Lyrics!TypeOK, NEW l \in Loads, NEW r \in LoadType, r.song = loads[l].song,
         loads' = [loads EXCEPT ![l] = r]
  PROVE  /\ loads' \in Seq(LoadType) /\ Len(loads') = Len(loads) /\ Loads' = Loads
         /\ loads'[l] = r /\ \A k \in Loads : k # l => loads'[k] = loads[k]
         /\ Chosen' = Chosen
         /\ Lyrics!InTime(l) => Phase = loads[l].stage /\ Phase' = r.stage /\ Chosen = r.song
         /\ ~ Lyrics!InTime(l) => Phase' = Phase
<1>1. loads \in Seq(LoadType)
  BY DEF Lyrics!TypeOK, LoadType
<1>2. l \in 1..Len(loads) /\ Len(loads) \in Nat
  BY <1>1 DEF Loads
<1>3. /\ loads' \in Seq(LoadType) /\ Len(loads') = Len(loads)
      /\ \A k \in 1..Len(loads) : loads'[k] = IF k = l THEN r ELSE loads[k]
  BY <1>1, <1>2, ExceptSeq
<1>4. loads # <<>> /\ loads' # <<>>
  BY <1>1, <1>2, <1>3, EmptySeq
<1>5. Chosen = loads[Len(loads)].song /\ Phase = loads[Len(loads)].stage
  BY <1>4 DEF Chosen, Phase
<1>6. Chosen' = loads'[Len(loads)].song /\ Phase' = loads'[Len(loads)].stage
  BY <1>3, <1>4 DEF Chosen, Phase
<1>7. Len(loads) \in 1..Len(loads)
  BY <1>2
<1>8. Chosen' = Chosen
  BY <1>3, <1>5, <1>6, <1>7
<1>9. Lyrics!InTime(l) <=> l = Len(loads)
  BY DEF Lyrics!InTime
<1>10. Loads' = Loads
  BY <1>3 DEF Loads
<1> QED BY <1>2, <1>3, <1>5, <1>6, <1>7, <1>8, <1>9, <1>10 DEF Loads

\* ... to another stage.
LEMMA LoadReaches ==
  ASSUME Lyrics!TypeOK, NEW l \in Loads, NEW stage \in Lyrics!Stages, Lyrics!Reach(l, stage)
  PROVE  /\ loads' \in Seq(LoadType) /\ Len(loads') = Len(loads) /\ Loads' = Loads
         /\ loads'[l].stage = stage /\ loads'[l].song = loads[l].song
         /\ \A k \in Loads : k # l => loads'[k] = loads[k]
         /\ Chosen' = Chosen
         /\ Lyrics!InTime(l) => Phase = loads[l].stage /\ Phase' = stage /\ Chosen = loads[l].song
         /\ ~ Lyrics!InTime(l) => Phase' = Phase
<1> DEFINE r == [loads[l] EXCEPT !.stage = stage]
<1>0. loads \in Seq(LoadType)
  BY DEF Lyrics!TypeOK, LoadType
<1>1. loads[l] \in LoadType
  BY <1>0 DEF Loads
<1>2. r \in LoadType /\ r.song = loads[l].song /\ r.stage = stage
  BY <1>1 DEF LoadType
<1>3. loads' = [loads EXCEPT ![l] = r]
  BY DEF Lyrics!Reach
<1> HIDE DEF r
<1> QED BY <1>2, <1>3, LoadTurns

\* A song is chosen, or its load ends: the rest of the document stays sound.
LEMMA LoadSongKeeps ==
  ASSUME LyricInv, NEW s \in Songs, Lyrics!LoadSong(s)
  PROVE  LyricInv'
<1> DEFINE stage == IF known[s] = 0 THEN "info" ELSE "cache"
           new == [song |-> s, stage |-> stage, version |-> known[s], got |-> NoText]
<1>1. loads \in Seq(LoadType) /\ known[s] \in Lyrics!Versions
  BY DEF LyricInv, Lyrics!TypeOK, LoadType
<1>2. new \in LoadType
  BY <1>1 DEF LoadType, Lyrics!Stages, Lyrics!TextOrNone
<1>3. loads' = Append(loads, new)
  BY DEF Lyrics!LoadSong, Lyrics!Choosing
<1> HIDE DEF new
<1>4. /\ loads' \in Seq(LoadType) /\ loads' # <<>> /\ Len(loads') = Len(loads) + 1
      /\ \A k \in 1..Len(loads) : loads'[k] = loads[k]
      /\ loads'[Len(loads) + 1] = new
  BY <1>1, <1>2, <1>3, AppendProperties
<1>5. Phase' = stage /\ Chosen' = s
  BY <1>4 DEF Phase, Chosen, new
<1>6. \A k \in Loads' : loads'[k].stage = "answered" => k \in Loads /\ loads'[k] = loads[k]
  <2>1. Loads' = Loads \cup {Len(loads) + 1} /\ new.stage # "answered"
    BY <1>1, <1>4 DEF Loads, new
  <2> QED BY <1>4, <2>1 DEF Loads
<1>7. /\ UNCHANGED <<server, held, known, cache, drafts, timer, saving, writes, saves, text>>
      /\ \/ stage = "info" /\ UNCHANGED <<current, opened, dirty, past, future>>
         \/ /\ stage = "cache" /\ current' = s /\ opened' = FALSE /\ dirty' = FALSE
            /\ past' = <<>> /\ future' = <<>>
  BY DEF Lyrics!LoadSong, Lyrics!Enter, Lyrics!document, Lyrics!stored, Lyrics!counts
<1> HIDE DEF stage
<1>8. Lyrics!TypeOK'
  <2>1. past' \in Seq(Lyrics!TextOrNone) /\ future' \in Seq(Lyrics!TextOrNone)
    <3>1. past \in Seq(Lyrics!TextOrNone) /\ future \in Seq(Lyrics!TextOrNone)
      BY DEF LyricInv, Lyrics!TypeOK
    <3>2. <<>> \in Seq(Lyrics!TextOrNone)
      OBVIOUS
    <3> QED BY <1>7, <3>1, <3>2
  <2> QED BY <1>4, <1>7, <2>1 DEF LyricInv, Lyrics!TypeOK, LoadType
<1>9. Counted'
  BY <1>7 DEF LyricInv, Counted
<1>10. Stored'
  BY <1>6, <1>7 DEF LyricInv, Stored
<1>11. Entered' /\ Clean' /\ Sent' /\ Timed' /\ Lyrics!UnsavedTextSurvives'
  BY <1>5, <1>7
     DEF LyricInv, Entered, Clean, Sent, Timed, Lyrics!UnsavedTextSurvives, Drafting
<1> QED BY <1>8, <1>9, <1>10, <1>11 DEF LyricInv

\* Everything but the loads.
LyricRests ==
  UNCHANGED <<server, held, known, cache, drafts, current, text, opened, dirty, past, future,
              timer, saving, writes, saves>>

\* A load that is late or fails ends, and the document is as sound as it was.
LEMMA EndKeeps ==
  ASSUME LyricInv, NEW l \in Loads, Lyrics!Reach(l, "ended"), LyricRests
  PROVE  LyricInv'
<1> USE DEF LyricRests
<1>1. /\ loads' \in Seq(LoadType) /\ Loads' = Loads /\ Phase' \in {Phase, "ended"} /\ Chosen' = Chosen
      /\ \A k \in Loads : loads'[k].stage = "answered" => k # l /\ loads'[k] = loads[k]
  <2>1. Lyrics!TypeOK /\ "ended" \in Lyrics!Stages
    BY DEF LyricInv, Lyrics!Stages
  <2> QED BY <2>1, LoadReaches
<1>2. Lyrics!TypeOK'
  BY <1>1 DEF LyricInv, Lyrics!TypeOK, LoadType
<1>3. Counted' /\ Stored'
  BY <1>1 DEF LyricInv, Counted, Stored
<1>4. Entered' /\ Clean' /\ Sent' /\ Timed' /\ Lyrics!UnsavedTextSurvives'
  BY <1>1 DEF LyricInv, Entered, Clean, Sent, Timed, Lyrics!UnsavedTextSurvives, Drafting
<1> QED BY <1>2, <1>3, <1>4 DEF LyricInv

\* The details of a song have arrived, or not.
LEMMA InfoKeeps ==
  ASSUME LyricInv, NEW l \in Loads, Lyrics!InfoArrives(l) \/ Lyrics!InfoFails(l)
  PROVE  LyricInv'
<1> USE DEF Lyrics!document, Lyrics!stored, Lyrics!counts
<1>1. Lyrics!TypeOK /\ loads \in Seq(LoadType) /\ loads[l] \in LoadType /\ loads[l].stage = "info"
  <2>1. Lyrics!TypeOK /\ loads \in Seq(LoadType)
    BY DEF LyricInv, Lyrics!TypeOK, LoadType
  <2> QED BY <2>1 DEF Loads, Lyrics!InfoArrives, Lyrics!InfoFails
<1>2. CASE Lyrics!Reach(l, "ended") /\ LyricRests
  BY <1>2, EndKeeps
<1>3. CASE Lyrics!InTime(l) /\ Lyrics!InfoArrives(l)
  <2> DEFINE s == loads[l].song
             r == [loads[l] EXCEPT !.stage = "cache", !.version = server[s].version]
  <2>1. s \in Songs /\ server[s].version \in Lyrics!Versions
    BY <1>1 DEF LoadType, Lyrics!TypeOK
  <2>2. r \in LoadType /\ r.song = s /\ r.stage = "cache"
    BY <1>1, <2>1 DEF LoadType, Lyrics!Stages
  <2>3. /\ loads' = [loads EXCEPT ![l] = r]
        /\ known' = [known EXCEPT ![s] = server[s].version]
        /\ current' = s /\ opened' = FALSE /\ dirty' = FALSE /\ past' = <<>> /\ future' = <<>>
        /\ UNCHANGED <<text, server, held, cache, drafts, timer, saving, writes, saves>>
    BY <1>3 DEF Lyrics!InfoArrives, Lyrics!Enter
  <2> HIDE DEF r
  <2>4. /\ loads' \in Seq(LoadType) /\ Loads' = Loads /\ Phase' = "cache" /\ Chosen' = s
        /\ \A k \in Loads : loads'[k].stage = "answered" => loads'[k] = loads[k]
    BY <1>1, <1>3, <2>2, <2>3, LoadTurns
  <2> HIDE DEF s
  <2>5. past' \in Seq(Lyrics!TextOrNone) /\ future' \in Seq(Lyrics!TextOrNone)
    BY <2>3
  <2>6. Lyrics!TypeOK'
    BY <1>1, <2>1, <2>3, <2>4, <2>5 DEF Lyrics!TypeOK, LoadType
  <2>7. Counted' /\ Stored'
    BY <2>3, <2>4 DEF LyricInv, Counted, Stored
  <2>8. Entered' /\ Clean' /\ Sent' /\ Timed' /\ Lyrics!UnsavedTextSurvives'
    BY <2>3, <2>4
       DEF LyricInv, Entered, Clean, Sent, Timed, Lyrics!UnsavedTextSurvives, Drafting
  <2> QED BY <2>6, <2>7, <2>8 DEF LyricInv
<1> QED BY <1>2, <1>3 DEF Lyrics!InfoArrives, Lyrics!InfoFails, LyricRests

\* IndexedDB has answered: from it, or on to the server.
LEMMA CacheKeeps ==
  ASSUME LyricInv, NEW l \in Loads, Lyrics!CacheAnswers(l)
  PROVE  LyricInv'
<1> USE DEF Lyrics!stored, Lyrics!counts
<1>1. Lyrics!TypeOK /\ loads \in Seq(LoadType) /\ loads[l] \in LoadType /\ loads[l].stage = "cache"
  <2>1. Lyrics!TypeOK /\ loads \in Seq(LoadType)
    BY DEF LyricInv, Lyrics!TypeOK, LoadType
  <2> QED BY <2>1 DEF Loads, Lyrics!CacheAnswers
<1>2. CASE ~ Lyrics!InTime(l)
  BY <1>2, EndKeeps DEF Lyrics!CacheAnswers, LyricRests
<1>3. ASSUME Lyrics!InTime(l), NEW stage \in {"draft", "fetch"}, Lyrics!Reach(l, stage),
             stage = "draft" => text' = cache[loads[l].song].text /\ text' # NoText,
             stage = "fetch" => text' = text
      PROVE  LyricInv'
  <2>1. /\ loads' \in Seq(LoadType) /\ Loads' = Loads /\ Phase = "cache" /\ Phase' = stage
        /\ Chosen' = Chosen /\ Chosen = loads[l].song
        /\ \A k \in Loads : loads'[k].stage = "answered" => loads'[k] = loads[k]
    BY <1>1, <1>3, LoadReaches DEF Lyrics!Stages
  <2>2. UNCHANGED <<server, held, known, cache, drafts, current, opened, dirty, past, future,
                    timer, saving, writes, saves>>
    BY DEF Lyrics!CacheAnswers
  <2>3. text' \in Lyrics!TextOrNone
    BY <1>1, <1>3 DEF Lyrics!TypeOK, LoadType
  <2>4. Lyrics!TypeOK'
    BY <1>1, <2>1, <2>2, <2>3 DEF Lyrics!TypeOK, LoadType
  <2>5. Counted' /\ Stored'
    BY <2>1, <2>2 DEF LyricInv, Counted, Stored
  <2>6. current = loads[l].song /\ current \in Songs /\ ~ opened
    BY <1>1, <2>1 DEF LyricInv, Entered, LoadType
  <2>7. stage = "draft" => text' \in held[current]
    BY <1>3, <2>6 DEF LyricInv, Stored
  <2>8. Entered' /\ Clean' /\ Sent' /\ Timed' /\ Lyrics!UnsavedTextSurvives'
    BY <1>3, <2>1, <2>2, <2>6, <2>7
       DEF LyricInv, Entered, Clean, Sent, Timed, Lyrics!UnsavedTextSurvives, Drafting
  <2> QED BY <2>4, <2>5, <2>8 DEF LyricInv
<1>4. CASE Lyrics!InTime(l) /\ Lyrics!Hit(l)
  <2>1. cache[loads[l].song].text # NoText
    BY <1>4 DEF Lyrics!Hit
  <2> QED BY <1>3, <1>4, <2>1 DEF Lyrics!CacheAnswers
<1>5. CASE Lyrics!InTime(l) /\ ~ Lyrics!Hit(l)
  BY <1>3, <1>5 DEF Lyrics!CacheAnswers
<1> QED BY <1>2, <1>4, <1>5

\* The server reads the alignment.
LEMMA ReadKeeps ==
  ASSUME LyricInv, NEW l \in Loads, Lyrics!ServerReads(l)
  PROVE  LyricInv'
<1> USE DEF Lyrics!stored, Lyrics!document, Lyrics!counts
<1> DEFINE s == loads[l].song
           r == [loads[l] EXCEPT !.stage = "answered", !.got = server[s].text,
                                 !.version = server[s].version]
<1>1. Lyrics!TypeOK /\ loads \in Seq(LoadType) /\ loads[l] \in LoadType /\ loads[l].stage = "fetch"
  <2>1. Lyrics!TypeOK /\ loads \in Seq(LoadType)
    BY DEF LyricInv, Lyrics!TypeOK, LoadType
  <2> QED BY <2>1 DEF Loads, Lyrics!ServerReads
<1>2. /\ s \in Songs /\ server[s].version \in Lyrics!Versions /\ server[s].text \in Lyrics!Texts
      /\ server[s].text \in held[s]
  BY <1>1 DEF LoadType, Lyrics!TypeOK, LyricInv, Stored
<1>3. r \in LoadType /\ r.song = s /\ r.stage = "answered" /\ r.got = server[s].text
  BY <1>1, <1>2 DEF LoadType, Lyrics!Stages, Lyrics!TextOrNone
<1>4. loads' = [loads EXCEPT ![l] = r] /\ LyricRests
  BY DEF Lyrics!ServerReads, LyricRests
<1> HIDE DEF r
<1>5. /\ loads' \in Seq(LoadType) /\ Loads' = Loads /\ Chosen' = Chosen
      /\ Phase' = Phase \/ (Phase = "fetch" /\ Phase' = "answered")
      /\ loads'[l] = r /\ \A k \in Loads : k # l => loads'[k] = loads[k]
  <2>1. r \in LoadType /\ r.song = loads[l].song /\ loads' = [loads EXCEPT ![l] = r]
    BY <1>3, <1>4
  <2>2. /\ loads' \in Seq(LoadType) /\ Loads' = Loads /\ Chosen' = Chosen
        /\ loads'[l] = r /\ \A k \in Loads : k # l => loads'[k] = loads[k]
        /\ Lyrics!InTime(l) => Phase = loads[l].stage /\ Phase' = r.stage
        /\ ~ Lyrics!InTime(l) => Phase' = Phase
    BY <1>1, <2>1, LoadTurns
  <2> QED BY <1>1, <1>3, <2>2
<1>6. Lyrics!TypeOK'
  BY <1>1, <1>4, <1>5 DEF Lyrics!TypeOK, LoadType, LyricRests
<1>7. Stored'
  <2>1. \A k \in Loads : loads'[k].stage = "answered" => loads'[k].got \in held[loads'[k].song]
    BY <1>2, <1>3, <1>5 DEF LyricInv, Stored
  <2> QED BY <1>4, <1>5, <2>1 DEF LyricInv, Stored, LyricRests
<1>8. Counted' /\ Entered' /\ Clean' /\ Sent' /\ Timed' /\ Lyrics!UnsavedTextSurvives'
  BY <1>4, <1>5 DEF LyricInv, Counted, Entered, Clean, Sent, Timed, Lyrics!UnsavedTextSurvives,
                    Drafting, LyricRests
<1> QED BY <1>6, <1>7, <1>8 DEF LyricInv

\* The alignment arrives: whatever was typed meanwhile was typed into what was
\* left of the last document.
LEMMA ArriveKeeps ==
  ASSUME LyricInv, NEW l \in Loads, Lyrics!Arrives(l)
  PROVE  LyricInv'
<1> USE DEF Lyrics!counts
<1> DEFINE s == loads[l].song
<1>1. Lyrics!TypeOK /\ loads \in Seq(LoadType) /\ loads[l] \in LoadType /\ loads[l].stage = "answered"
  <2>1. Lyrics!TypeOK /\ loads \in Seq(LoadType)
    BY DEF LyricInv, Lyrics!TypeOK, LoadType
  <2> QED BY <2>1 DEF Loads, Lyrics!Arrives
<1>2. CASE ~ Lyrics!InTime(l)
  BY <1>2, EndKeeps DEF Lyrics!Arrives, LyricRests
<1>3. CASE Lyrics!InTime(l)
  <2>1. /\ loads' \in Seq(LoadType) /\ Loads' = Loads /\ Phase = "answered" /\ Phase' = "draft"
        /\ Chosen' = Chosen /\ Chosen = s
        /\ \A k \in Loads : loads'[k].stage = "answered" => loads'[k] = loads[k]
    BY <1>1, <1>3, LoadReaches DEF Lyrics!Arrives, Lyrics!Stages
  <2>2. /\ text' = loads[l].got
        /\ cache' = [cache EXCEPT ![s] = [text |-> loads[l].got, version |-> loads[l].version]]
        /\ UNCHANGED <<server, held, known, drafts, current, opened, dirty, past, future,
                       timer, saving, writes, saves>>
    BY <1>3 DEF Lyrics!Arrives
  <2>3. s \in Songs /\ loads[l].got \in Lyrics!TextOrNone /\ loads[l].version \in Lyrics!Versions
    BY <1>1 DEF LoadType
  <2>4. loads[l].got \in held[s]
    BY <1>1 DEF LyricInv, Stored
  <2>5. current = s /\ ~ opened
    BY <2>1 DEF LyricInv, Entered
  <2> HIDE DEF s
  <2>6. Lyrics!TypeOK'
    BY <1>1, <2>1, <2>2, <2>3 DEF Lyrics!TypeOK, LoadType
  <2>7. Counted'
    BY <2>2 DEF LyricInv, Counted
  <2>8. Stored'
    <3>1. \A q \in Songs : cache'[q].text # NoText => cache'[q].text \in held[q]
      BY <1>1, <2>2, <2>3, <2>4 DEF LyricInv, Stored, Lyrics!TypeOK
    <3> QED BY <2>1, <2>2, <3>1 DEF LyricInv, Stored
  <2>9. Entered' /\ Clean' /\ Sent' /\ Timed' /\ Lyrics!UnsavedTextSurvives'
    BY <2>1, <2>2, <2>3, <2>4, <2>5
       DEF LyricInv, Entered, Clean, Sent, Timed, Lyrics!UnsavedTextSurvives, Drafting
  <2> QED BY <2>6, <2>7, <2>8, <2>9 DEF LyricInv
<1> QED BY <1>2, <1>3

\* It does not.
LEMMA FetchFailsKeeps ==
  ASSUME LyricInv, NEW l \in Loads, Lyrics!FetchFails(l)
  PROVE  LyricInv'
<1> USE DEF Lyrics!stored, Lyrics!counts
<1>1. Lyrics!TypeOK /\ loads \in Seq(LoadType) /\ loads[l] \in LoadType /\ loads[l].stage = "fetch"
  <2>1. Lyrics!TypeOK /\ loads \in Seq(LoadType)
    BY DEF LyricInv, Lyrics!TypeOK, LoadType
  <2> QED BY <2>1 DEF Loads, Lyrics!FetchFails
<1>2. CASE ~ Lyrics!InTime(l)
  BY <1>2, EndKeeps DEF Lyrics!FetchFails, LyricRests
<1>3. CASE Lyrics!InTime(l)
  <2>1. /\ loads' \in Seq(LoadType) /\ Loads' = Loads /\ Phase = "fetch" /\ Phase' = "ended"
        /\ Chosen' = Chosen
        /\ \A k \in Loads : loads'[k].stage = "answered" => loads'[k] = loads[k]
    BY <1>1, <1>3, LoadReaches DEF Lyrics!FetchFails, Lyrics!Stages
  <2>2. /\ text' = NoText
        /\ UNCHANGED <<server, held, known, cache, drafts, current, opened, dirty, past, future,
                       timer, saving, writes, saves>>
    BY <1>3 DEF Lyrics!FetchFails
  <2>3. ~ opened
    BY <2>1 DEF LyricInv, Entered
  <2>4. Lyrics!TypeOK'
    BY <1>1, <2>1, <2>2 DEF Lyrics!TypeOK, LoadType, Lyrics!TextOrNone
  <2>5. Counted' /\ Stored'
    BY <2>1, <2>2 DEF LyricInv, Counted, Stored
  <2>6. Entered' /\ Clean' /\ Sent' /\ Timed' /\ Lyrics!UnsavedTextSurvives'
    BY <2>1, <2>2, <2>3
       DEF LyricInv, Entered, Clean, Sent, Timed, Lyrics!UnsavedTextSurvives, Drafting
  <2> QED BY <2>4, <2>5, <2>6 DEF LyricInv
<1> QED BY <1>2, <1>3

\* What markDirty leaves: a newer revision, a draft flag and a timer.
LEMMA Marks ==
  ASSUME Lyrics!TypeOK, Lyrics!MarkDirty
  PROVE  /\ dirty' = TRUE
         /\ current # NoSong => timer' = current
         /\ saving' \in [stage : {"no", "sent", "committed"}, song : Songs \cup {NoSong},
                         text : Lyrics!TextOrNone, newer : BOOLEAN, version : Lyrics!Versions]
         /\ saving'.stage = saving.stage /\ saving'.song = saving.song
         /\ saving'.text = saving.text
         /\ saving.stage # "no" => saving'.newer
         /\ timer' \in Songs \cup {NoSong}
  BY DEF Lyrics!TypeOK, Lyrics!MarkDirty

\* The draft is read and taken up, or given up: the song is open.
LEMMA DraftKeeps ==
  ASSUME LyricInv, NEW l \in Loads, Lyrics!DraftAnswers(l)
  PROVE  LyricInv'
<1> USE DEF Lyrics!counts
<1> DEFINE s == loads[l].song
<1>1. Lyrics!TypeOK /\ loads \in Seq(LoadType) /\ loads[l] \in LoadType /\ loads[l].stage = "draft"
  <2>1. Lyrics!TypeOK /\ loads \in Seq(LoadType)
    BY DEF LyricInv, Lyrics!TypeOK, LoadType
  <2> QED BY <2>1 DEF Loads, Lyrics!DraftAnswers
<1>2. CASE ~ Lyrics!InTime(l)
  BY <1>2, EndKeeps DEF Lyrics!DraftAnswers, LyricRests
<1>3. CASE Lyrics!InTime(l)
  <2>1. /\ loads' \in Seq(LoadType) /\ Loads' = Loads /\ Phase = "draft" /\ Phase' = "ended"
        /\ Chosen' = Chosen /\ Chosen = s
        /\ \A k \in Loads : loads'[k].stage = "answered" => loads'[k] = loads[k]
    BY <1>1, <1>3, LoadReaches DEF Lyrics!DraftAnswers, Lyrics!Stages
  <2>2. /\ opened' = TRUE
        /\ UNCHANGED <<server, held, known, cache, current, past, future, writes, saves>>
    BY <1>3 DEF Lyrics!DraftAnswers
  <2>3. current = s /\ ~ opened /\ Drafting /\ s \in Songs /\ current # NoSong
    BY <1>1, <2>1, BrowserAssumption DEF LyricInv, Entered, LoadType, Drafting
  <2>4. Counted'
    <3>1. saving'.stage = saving.stage
      BY <1>1, <1>3, Marks DEF Lyrics!DraftAnswers
    <3> QED BY <2>2, <3>1 DEF LyricInv, Counted
  <2>5. Stored' /\ Entered'
    BY <2>1, <2>2, <2>3 DEF LyricInv, Stored, Entered
  <2>6. CASE /\ text' = drafts[s] /\ drafts[s] # NoText /\ Lyrics!MarkDirty /\ UNCHANGED drafts
    <3> HIDE DEF s
    <3>1. Lyrics!TypeOK'
      BY <1>1, <2>1, <2>2, <2>3, <2>6, Marks DEF Lyrics!TypeOK, LoadType
    <3>2. Sent'
      BY <1>1, <2>1, <2>2, <2>3, <2>6, Marks DEF LyricInv, Sent, Drafting
    <3>3. Clean' /\ Timed' /\ Lyrics!UnsavedTextSurvives'
      BY <1>1, <2>1, <2>2, <2>3, <2>6, Marks
         DEF LyricInv, Clean, Timed, Lyrics!UnsavedTextSurvives, Drafting
    <3> QED BY <2>4, <2>5, <3>1, <3>2, <3>3 DEF LyricInv
  <2>7. CASE /\ drafts' = [drafts EXCEPT ![s] = NoText]
             /\ UNCHANGED <<text, dirty, saving, timer>>
    <3> HIDE DEF s
    <3>1. Lyrics!TypeOK'
      BY <1>1, <2>1, <2>2, <2>3, <2>7 DEF Lyrics!TypeOK, LoadType, Lyrics!TextOrNone
    <3>2. Clean' /\ Sent' /\ Timed' /\ Lyrics!UnsavedTextSurvives'
      BY <2>1, <2>2, <2>3, <2>7
         DEF LyricInv, Clean, Sent, Timed, Lyrics!UnsavedTextSurvives, Drafting
    <3> QED BY <2>4, <2>5, <3>1, <3>2 DEF LyricInv
  <2> QED BY <1>3, <2>6, <2>7 DEF Lyrics!DraftAnswers
<1> QED BY <1>2, <1>3

\* The loads rest, and with them which one is in time.
LEMMA LoadsRest ==
  ASSUME UNCHANGED loads
  PROVE  Phase' = Phase /\ Chosen' = Chosen /\ Loads' = Loads
  BY DEF Phase, Chosen, Loads

\* There is a song to be open, or to be opened.
LEMMA CurrentSong ==
  ASSUME LyricInv, opened \/ Drafting
  PROVE  current \in Songs /\ current # NoSong
<1>1. CASE opened
  BY <1>1, BrowserAssumption DEF LyricInv, Entered
<1>2. CASE Drafting
  <2>1. loads \in Seq(LoadType) /\ loads # <<>>
    BY <1>2 DEF LyricInv, Lyrics!TypeOK, LoadType, Drafting, Phase
  <2>2. loads[Len(loads)] \in LoadType
    BY <2>1, EmptySeq
  <2>3. Chosen \in Songs
    BY <2>1, <2>2 DEF Chosen, LoadType
  <2> QED BY <1>2, <2>3, BrowserAssumption DEF LyricInv, Entered, Drafting
<1> QED BY <1>1, <1>2

\* Whatever is typed, taken back or put back is marked as newer than any save,
\* and has its timer.
LEMMA TypingKeeps ==
  ASSUME LyricInv, text' \in Lyrics!TextOrNone, Lyrics!MarkDirty,
         past' \in Seq(Lyrics!TextOrNone), future' \in Seq(Lyrics!TextOrNone),
         writes' \in 0..MaxWrites,
         UNCHANGED <<server, held, known, cache, drafts, current, opened, loads, saves>>
  PROVE  LyricInv'
<1>1. Lyrics!TypeOK /\ Phase' = Phase /\ Chosen' = Chosen /\ Loads' = Loads
  BY LoadsRest DEF LyricInv
<1>2. Lyrics!TypeOK'
  BY <1>1, Marks DEF Lyrics!TypeOK
<1>3. Counted' /\ Stored' /\ Entered'
  <2>1. saving'.stage = saving.stage
    BY <1>1, Marks
  <2> QED BY <1>1, <2>1 DEF LyricInv, Counted, Stored, Entered
<1>4. Sent'
  BY <1>1, Marks DEF LyricInv, Sent, Drafting
<1>5. Clean' /\ Timed' /\ Lyrics!UnsavedTextSurvives'
  BY <1>1, Marks, CurrentSong DEF LyricInv, Clean, Timed, Lyrics!UnsavedTextSurvives, Drafting
<1> QED BY <1>2, <1>3, <1>4, <1>5 DEF LyricInv

LEMMA EditKeeps ==
  ASSUME LyricInv, Lyrics!Edit
  PROVE  LyricInv'
<1>1. /\ text \in Lyrics!TextOrNone /\ text # NoText /\ past \in Seq(Lyrics!TextOrNone)
      /\ writes \in 0..MaxWrites /\ writes < MaxWrites
  BY DEF LyricInv, Lyrics!TypeOK, Lyrics!Edit
<1>2. text \in Lyrics!Texts /\ writes + 1 \in 0..MaxWrites
  BY <1>1, BrowserAssumption DEF Lyrics!TextOrNone
<1>3. text' \in Lyrics!TextOrNone
  BY <1>2 DEF Lyrics!Edit, Lyrics!TextOrNone, Lyrics!Texts
<1>4. past' \in Seq(Lyrics!TextOrNone) /\ future' \in Seq(Lyrics!TextOrNone)
  BY <1>1 DEF Lyrics!Edit
<1> QED BY <1>2, <1>3, <1>4, TypingKeeps DEF Lyrics!Edit, Lyrics!stored

\* The ends of a sequence of texts.
LEMMA BackAndFront ==
  ASSUME NEW q \in Seq(Lyrics!TextOrNone), q # <<>>
  PROVE  Lyrics!Back(q) \in Lyrics!TextOrNone /\ Lyrics!Front(q) \in Seq(Lyrics!TextOrNone)
<1>1. Len(q) \in Nat \ {0}
  BY EmptySeq
<1>2. Lyrics!Back(q) \in Lyrics!TextOrNone
  BY <1>1 DEF Lyrics!Back
<1>3. Lyrics!Front(q) \in Seq(Lyrics!TextOrNone)
  BY <1>1, SubSeqProperties DEF Lyrics!Front
<1> QED BY <1>2, <1>3

LEMMA UndoKeeps ==
  ASSUME LyricInv, Lyrics!Undo \/ Lyrics!Redo
  PROVE  LyricInv'
<1>1. /\ text \in Lyrics!TextOrNone /\ writes \in 0..MaxWrites
      /\ past \in Seq(Lyrics!TextOrNone) /\ future \in Seq(Lyrics!TextOrNone)
  BY DEF LyricInv, Lyrics!TypeOK
<1>2. /\ text' \in Lyrics!TextOrNone
      /\ past' \in Seq(Lyrics!TextOrNone) /\ future' \in Seq(Lyrics!TextOrNone)
  <2>1. CASE Lyrics!Undo
    <3>1. Lyrics!Back(past) \in Lyrics!TextOrNone /\ Lyrics!Front(past) \in Seq(Lyrics!TextOrNone)
      BY <1>1, <2>1, BackAndFront DEF Lyrics!Undo
    <3> QED BY <1>1, <2>1, <3>1 DEF Lyrics!Undo
  <2>2. CASE Lyrics!Redo
    <3>1. Lyrics!Back(future) \in Lyrics!TextOrNone /\ Lyrics!Front(future) \in Seq(Lyrics!TextOrNone)
      BY <1>1, <2>2, BackAndFront DEF Lyrics!Redo
    <3> QED BY <1>1, <2>2, <3>1 DEF Lyrics!Redo
  <2> QED BY <2>1, <2>2
<1> QED BY <1>1, <1>2, TypingKeeps DEF Lyrics!Undo, Lyrics!Redo, Lyrics!stored, Lyrics!counts

\* The timer writes what is on the screen to the song it was set for.
LEMMA TimerKeeps ==
  ASSUME LyricInv, Lyrics!TimerFires
  PROVE  LyricInv'
<1>1. Phase' = Phase /\ Chosen' = Chosen /\ Loads' = Loads
  BY LoadsRest DEF Lyrics!TimerFires
<1>2. ~ Drafting
  <2>1. loads \in Seq(LoadType)
    BY DEF LyricInv, Lyrics!TypeOK, LoadType
  <2> SUFFICES ASSUME Drafting PROVE FALSE
    OBVIOUS
  <2>2. loads # <<>> /\ loads[Len(loads)].stage = "draft"
    BY DEF Drafting, Phase
  <2>3. Len(loads) \in 1..Len(loads)
    BY <2>1, <2>2, EmptySeq
  <2> QED BY <2>2, <2>3 DEF Lyrics!TimerFires, Lyrics!InTime
<1>3. /\ timer # NoSong /\ timer' = NoSong
      /\ drafts' = IF text = NoText THEN drafts ELSE [drafts EXCEPT ![timer] = text]
      /\ UNCHANGED <<server, held, known, cache, current, text, opened, dirty, past, future,
                     loads, saving, writes, saves>>
  BY DEF Lyrics!TimerFires, Lyrics!document, Lyrics!counts
<1>4. Lyrics!TypeOK'
  BY <1>3 DEF LyricInv, Lyrics!TypeOK
<1>5. Counted' /\ Stored' /\ Entered' /\ Clean' /\ Sent' /\ Timed'
  BY <1>1, <1>2, <1>3 DEF LyricInv, Counted, Stored, Entered, Clean, Sent, Timed, Drafting
<1>6. Lyrics!UnsavedTextSurvives'
  <2>1. drafts \in [Songs -> Lyrics!TextOrNone] /\ (opened => current \in Songs)
    BY DEF LyricInv, Lyrics!TypeOK, Entered
  <2> QED BY <1>3, <2>1 DEF LyricInv, Lyrics!UnsavedTextSurvives
<1> QED BY <1>4, <1>5, <1>6 DEF LyricInv

LEMMA SaveKeeps ==
  ASSUME LyricInv, Lyrics!Save
  PROVE  LyricInv'
<1>1. /\ current \in Songs /\ text \in Lyrics!Texts /\ text \in Lyrics!TextOrNone
      /\ saves \in Nat /\ saves + 1 \in 0..MaxSaves
  BY BrowserAssumption DEF LyricInv, Lyrics!TypeOK, Lyrics!Save, Lyrics!Savable, Lyrics!TextOrNone
<1>2. /\ saving' = [stage |-> "sent", song |-> current, text |-> text, newer |-> FALSE, version |-> 0]
      /\ saves' = saves + 1 /\ saving.stage = "no"
      /\ UNCHANGED <<server, held, known, cache, drafts, current, text, opened, dirty, past, future,
                     loads, timer, writes>>
  BY DEF Lyrics!Save, Lyrics!document, Lyrics!stored
<1>3. Phase' = Phase /\ Chosen' = Chosen /\ Loads' = Loads
  BY <1>2, LoadsRest
<1>4. 0 \in Lyrics!Versions
  BY BrowserAssumption DEF Lyrics!Versions
<1>5. Lyrics!TypeOK'
  BY <1>1, <1>2, <1>4 DEF LyricInv, Lyrics!TypeOK
<1>6. Counted'
  <2>1. \A s \in Songs : server[s].version \in Nat
    BY DEF LyricInv, Lyrics!TypeOK, Lyrics!Versions
  <2> QED BY <1>1, <1>2, <2>1 DEF LyricInv, Counted
<1>7. Stored' /\ Entered' /\ Clean' /\ Timed' /\ Lyrics!UnsavedTextSurvives'
  BY <1>2, <1>3 DEF LyricInv, Stored, Entered, Clean, Timed, Lyrics!UnsavedTextSurvives, Drafting
<1>8. Sent'
  BY <1>1, <1>2, <1>3 DEF Sent, Drafting
<1> QED BY <1>5, <1>6, <1>7, <1>8 DEF LyricInv

\* The server's new version is one the server has held.
LEMMA ServerSavesKeeps ==
  ASSUME LyricInv, Lyrics!ServerSaves
  PROVE  LyricInv'
<1> DEFINE s == saving.song
<1>1. /\ s \in Songs /\ saving.text \in Lyrics!Texts /\ saving.stage = "sent"
      /\ server[s].version \in Nat /\ server[s].version <= saves /\ saves \in 0..MaxSaves
      /\ server \in [Songs -> [text : Lyrics!Texts, version : Lyrics!Versions]]
      /\ held \in [Songs -> SUBSET Lyrics!Texts]
  BY SMTT(40) DEF LyricInv, Sent, Counted, Lyrics!TypeOK, Lyrics!ServerSaves, Lyrics!Versions
<1>2. server[s].version + 1 \in Lyrics!Versions /\ server[s].version + 1 <= saves + 1
  BY <1>1, BrowserAssumption DEF Lyrics!Versions
<1>3. /\ server' = [server EXCEPT ![s] = [text |-> saving.text, version |-> server[s].version + 1]]
      /\ held' = [held EXCEPT ![s] = held[s] \cup {saving.text}]
      /\ saving' = [saving EXCEPT !.stage = "committed", !.version = server[s].version + 1]
      /\ UNCHANGED <<known, cache, drafts, current, text, opened, dirty, past, future,
                     loads, timer, writes, saves>>
  BY DEF Lyrics!ServerSaves, Lyrics!document, Lyrics!counts
<1>4. Phase' = Phase /\ Chosen' = Chosen /\ Loads' = Loads
  BY <1>3, LoadsRest
<1>5. /\ saving' \in [stage : {"no", "sent", "committed"}, song : Songs \cup {NoSong},
                      text : Lyrics!TextOrNone, newer : BOOLEAN, version : Lyrics!Versions]
      /\ saving'.stage = "committed" /\ saving'.song = s /\ saving'.text = saving.text
      /\ saving'.newer = saving.newer
  BY <1>2, <1>3 DEF LyricInv, Lyrics!TypeOK
<1>6. /\ server' \in [Songs -> [text : Lyrics!Texts, version : Lyrics!Versions]]
      /\ \A q \in Songs : server'[q].version <= saves + 1
      /\ \A q \in Songs : server'[q].text \in held'[q]
  BY <1>1, <1>2, <1>3 DEF LyricInv, Counted, Stored
<1>7. /\ held' \in [Songs -> SUBSET Lyrics!Texts]
      /\ saving.text \in held'[s] /\ \A q \in Songs : held[q] \subseteq held'[q]
  BY <1>1, <1>3
<1> HIDE DEF s
<1>8. Lyrics!TypeOK'
  BY <1>3, <1>5, <1>6, <1>7 DEF LyricInv, Lyrics!TypeOK
<1>9. Counted' /\ Entered'
  BY <1>3, <1>4, <1>5, <1>6, <1>7 DEF LyricInv, Counted, Entered
<1>10. Stored'
  <2>1. \A l \in Loads : loads[l].song \in Songs
    <3>1. loads \in Seq(LoadType)
      BY DEF LyricInv, Lyrics!TypeOK, LoadType
    <3>2. \A l \in Loads : loads[l] \in LoadType
      BY <3>1 DEF Loads
    <3> QED BY <3>2 DEF LoadType
  <2> QED BY <1>3, <1>4, <1>6, <1>7, <2>1 DEF LyricInv, Stored
<1>11. Clean' /\ Timed'
  BY <1>3, <1>4, <1>7, CurrentSong DEF LyricInv, Clean, Timed, Drafting
<1>12. Sent'
  BY <1>1, <1>3, <1>4, <1>5, <1>7, CurrentSong DEF LyricInv, Sent, Drafting
<1>13. Lyrics!UnsavedTextSurvives'
  BY <1>3, <1>7, CurrentSong DEF LyricInv, Lyrics!UnsavedTextSurvives
<1> QED BY <1>8, <1>9, <1>10, <1>11, <1>12, <1>13 DEF LyricInv

\* A receipt clears the draft flag only of a text the server has held.
LEMMA ReceiptKeeps ==
  ASSUME LyricInv, Lyrics!Receipt
  PROVE  LyricInv'
<1> DEFINE s == saving.song
<1>1. /\ s \in Songs /\ saving.text \in Lyrics!TextOrNone /\ saving.text \in held[s]
      /\ saving.stage = "committed" /\ saving.version \in Lyrics!Versions /\ saving.newer \in BOOLEAN
  BY DEF LyricInv, Sent, Lyrics!TypeOK, Lyrics!Receipt
<1>2. /\ saving' = Lyrics!Idle
      /\ UNCHANGED <<server, held, current, text, opened, past, future, loads, timer, writes, saves>>
  BY DEF Lyrics!Receipt, Lyrics!counts
<1>3. Phase' = Phase /\ Chosen' = Chosen /\ Loads' = Loads
  BY <1>2, LoadsRest
<1>4. saving'.stage = "no" /\ Lyrics!Idle \in [stage : {"no", "sent", "committed"},
         song : Songs \cup {NoSong}, text : Lyrics!TextOrNone, newer : BOOLEAN, version : Lyrics!Versions]
  BY <1>2, BrowserAssumption DEF Lyrics!Idle, Lyrics!TextOrNone, Lyrics!Versions
<1>5. Counted' /\ Entered' /\ Sent' /\ Timed'
  BY <1>2, <1>3, <1>4 DEF LyricInv, Counted, Entered, Sent, Timed, Drafting
<1>6. CASE current # s
  <2>1. UNCHANGED <<dirty, known, cache, drafts>>
    BY <1>6 DEF Lyrics!Receipt
  <2>2. Lyrics!TypeOK'
    BY <1>2, <1>4, <2>1 DEF LyricInv, Lyrics!TypeOK
  <2>3. Stored' /\ Clean' /\ Lyrics!UnsavedTextSurvives'
    BY <1>2, <1>3, <2>1 DEF LyricInv, Stored, Clean, Lyrics!UnsavedTextSurvives, Drafting
  <2> QED BY <1>5, <2>2, <2>3 DEF LyricInv
<1>7. CASE current = s
  <2>1. /\ dirty' = saving.newer
        /\ known' = [known EXCEPT ![s] = saving.version]
        /\ cache' = [cache EXCEPT ![s] = [text |-> saving.text, version |-> saving.version]]
        /\ drafts' = IF ~ dirty' THEN [drafts EXCEPT ![s] = NoText] ELSE drafts
    BY <1>7 DEF Lyrics!Receipt, Lyrics!StillDirty, Lyrics!DraftIsDone
  <2>2. (opened \/ Drafting) /\ ~ dirty' => text \in held[current]
    BY <1>1, <1>7, <2>1 DEF LyricInv, Sent
  <2> HIDE DEF s
  <2>3. Lyrics!TypeOK'
    BY <1>1, <1>2, <1>4, <2>1 DEF LyricInv, Lyrics!TypeOK, Lyrics!TextOrNone
  <2>4. Stored'
    <3>1. \A q \in Songs : cache'[q].text # NoText => cache'[q].text \in held[q]
      BY <1>1, <2>1 DEF LyricInv, Stored, Lyrics!TypeOK
    <3> QED BY <1>2, <1>3, <3>1 DEF LyricInv, Stored
  <2>5. Clean'
    BY <1>2, <1>3, <2>2 DEF Clean, Drafting
  <2>6. Lyrics!UnsavedTextSurvives'
    BY <1>2, <2>1, <2>2 DEF LyricInv, Lyrics!UnsavedTextSurvives
  <2> QED BY <1>5, <2>3, <2>4, <2>5, <2>6 DEF LyricInv
<1> QED BY <1>6, <1>7

LEMMA SaveFailsKeeps ==
  ASSUME LyricInv, Lyrics!SaveFails
  PROVE  LyricInv'
<1>1. /\ saving' = Lyrics!Idle
      /\ UNCHANGED <<server, held, known, cache, drafts, current, text, opened, dirty, past, future,
                     loads, timer, writes, saves>>
  BY DEF Lyrics!SaveFails, Lyrics!stored, Lyrics!document, Lyrics!counts
<1>2. Phase' = Phase /\ Chosen' = Chosen /\ Loads' = Loads
  BY <1>1, LoadsRest
<1>3. saving'.stage = "no" /\ Lyrics!Idle \in [stage : {"no", "sent", "committed"},
         song : Songs \cup {NoSong}, text : Lyrics!TextOrNone, newer : BOOLEAN, version : Lyrics!Versions]
  BY <1>1, BrowserAssumption DEF Lyrics!Idle, Lyrics!TextOrNone, Lyrics!Versions
<1>4. Lyrics!TypeOK'
  BY <1>1, <1>3 DEF LyricInv, Lyrics!TypeOK
<1>5. /\ Counted' /\ Stored' /\ Entered' /\ Clean' /\ Sent' /\ Timed'
      /\ Lyrics!UnsavedTextSurvives'
  BY <1>1, <1>2, <1>3 DEF LyricInv, Counted, Stored, Entered, Clean, Sent, Timed,
                          Lyrics!UnsavedTextSurvives, Drafting
<1> QED BY <1>4, <1>5 DEF LyricInv

\* The editor starts anew, with nothing open and nothing under way.
LEMMA CloseKeeps ==
  ASSUME LyricInv, NEW crash \in BOOLEAN, Lyrics!Close(crash)
  PROVE  LyricInv'
<1>1. /\ known' = [s \in Songs |-> 0]
      /\ current' = NoSong /\ text' = NoText /\ opened' = FALSE /\ dirty' = FALSE
      /\ past' = <<>> /\ future' = <<>> /\ timer' = NoSong /\ saving' = Lyrics!Idle
      /\ loads' = [l \in 1..Len(loads) |-> [loads[l] EXCEPT !.stage = "ended"]]
      /\ UNCHANGED <<server, held, cache, writes, saves>>
  BY DEF Lyrics!Close, Lyrics!counts
<1>2. loads \in Seq(LoadType) /\ Len(loads) \in Nat
  BY DEF LyricInv, Lyrics!TypeOK, LoadType
<1>3. ASSUME NEW l \in 1..Len(loads)
      PROVE  /\ loads[l] \in LoadType
             /\ [loads[l] EXCEPT !.stage = "ended"] \in LoadType
             /\ [loads[l] EXCEPT !.stage = "ended"].stage = "ended"
  <2>1. loads[l] \in LoadType
    BY <1>2
  <2> QED BY <2>1 DEF LoadType, Lyrics!Stages
<1>4. loads' \in Seq(LoadType) /\ Len(loads') = Len(loads)
  BY <1>1, <1>2, <1>3
<1>5. \A l \in 1..Len(loads') : loads'[l].stage = "ended"
  BY <1>1, <1>2, <1>3, <1>4
<1>6. Phase' = "ended"
  <2>1. loads' # <<>> => Len(loads') \in 1..Len(loads')
    BY <1>4, EmptySeq
  <2> QED BY <1>5, <2>1 DEF Phase
<1>7. saving'.stage = "no" /\ Lyrics!Idle \in [stage : {"no", "sent", "committed"},
         song : Songs \cup {NoSong}, text : Lyrics!TextOrNone, newer : BOOLEAN, version : Lyrics!Versions]
  BY <1>1, BrowserAssumption DEF Lyrics!Idle, Lyrics!TextOrNone, Lyrics!Versions
<1>8. drafts' \in [Songs -> Lyrics!TextOrNone] /\ known' \in [Songs -> Lyrics!Versions]
  <2>1. 0 \in Lyrics!Versions
    BY BrowserAssumption DEF Lyrics!Versions
  <2>2. known' \in [Songs -> Lyrics!Versions]
    BY <1>1, <2>1
  <2>3. drafts \in [Songs -> Lyrics!TextOrNone] /\ text \in Lyrics!TextOrNone
    BY DEF LyricInv, Lyrics!TypeOK
  <2>4. drafts' = [drafts EXCEPT ![current] = text] \/ drafts' = drafts
    BY DEF Lyrics!Close
  <2> QED BY <2>2, <2>3, <2>4
<1>9. past' \in Seq(Lyrics!TextOrNone) /\ future' \in Seq(Lyrics!TextOrNone)
  BY <1>1
<1>10. Lyrics!TypeOK'
  BY <1>1, <1>4, <1>7, <1>8, <1>9 DEF LyricInv, Lyrics!TypeOK, LoadType, Lyrics!TextOrNone
<1>11. Counted' /\ Stored'
  BY <1>1, <1>5, <1>7 DEF LyricInv, Counted, Stored, Loads
<1>12. Entered' /\ Clean' /\ Sent' /\ Timed' /\ Lyrics!UnsavedTextSurvives'
  BY <1>1, <1>6, <1>7 DEF Entered, Clean, Sent, Timed, Lyrics!UnsavedTextSurvives, Drafting
<1> QED BY <1>10, <1>11, <1>12 DEF LyricInv

LEMMA LyricStarts == Lyrics!Init => LyricInv
<1> SUFFICES ASSUME Lyrics!Init PROVE LyricInv
  OBVIOUS
<1>1. /\ server = [s \in Songs |-> [text |-> Lyrics!Original(s), version |-> 1]]
      /\ held = [s \in Songs |-> {Lyrics!Original(s)}]
      /\ known = [s \in Songs |-> 0]
      /\ cache = [s \in Songs |-> [text |-> NoText, version |-> 0]]
      /\ drafts = [s \in Songs |-> NoText]
      /\ current = NoSong /\ text = NoText /\ opened = FALSE /\ dirty = FALSE
      /\ past = <<>> /\ future = <<>>
      /\ loads = <<>> /\ timer = NoSong /\ saving = Lyrics!Idle
      /\ writes = 0 /\ saves = 0
  BY DEF Lyrics!Init
<1>2. \A s \in Songs : Lyrics!Original(s) \in Lyrics!Texts
  BY BrowserAssumption DEF Lyrics!Original, Lyrics!Texts
<1>3. 0 \in Lyrics!Versions /\ 1 \in Lyrics!Versions /\ 0 \in 0..MaxWrites /\ 0 \in 0..MaxSaves
  BY BrowserAssumption DEF Lyrics!Versions
<1>4. Phase = "ended" /\ Loads = {}
  BY <1>1 DEF Phase, Loads
<1>5. saving.stage = "no" /\ Lyrics!Idle \in [stage : {"no", "sent", "committed"},
         song : Songs \cup {NoSong}, text : Lyrics!TextOrNone, newer : BOOLEAN, version : Lyrics!Versions]
  BY <1>1, <1>3 DEF Lyrics!Idle, Lyrics!TextOrNone
<1>6. past \in Seq(Lyrics!TextOrNone) /\ future \in Seq(Lyrics!TextOrNone) /\ loads \in Seq(LoadType)
  BY <1>1
<1>7. /\ server \in [Songs -> [text : Lyrics!Texts, version : Lyrics!Versions]]
      /\ held \in [Songs -> SUBSET Lyrics!Texts]
      /\ \A s \in Songs : server[s].version = 1 /\ server[s].text \in held[s]
  BY <1>1, <1>2, <1>3
<1>8. Lyrics!TypeOK
  BY <1>1, <1>3, <1>5, <1>6, <1>7 DEF Lyrics!TypeOK, Lyrics!TextOrNone, LoadType
<1>9. Counted /\ Stored
  BY <1>1, <1>4, <1>5, <1>7 DEF Counted, Stored
<1>10. Entered /\ Clean /\ Sent /\ Timed /\ Lyrics!UnsavedTextSurvives
  BY <1>1, <1>4, <1>5 DEF Entered, Clean, Sent, Timed, Lyrics!UnsavedTextSurvives, Drafting
<1> QED BY <1>8, <1>9, <1>10 DEF LyricInv

\* Every step of the editor keeps the invariant, and so does its rest.
LEMMA LyricGoesOn == LyricInv /\ [Lyrics!Next]_lyricVars => LyricInv'
<1> SUFFICES ASSUME LyricInv, [Lyrics!Next]_lyricVars PROVE LyricInv'
  OBVIOUS
<1>1. ASSUME NEW s \in Songs, Lyrics!LoadSong(s) PROVE LyricInv'
  BY <1>1, LoadSongKeeps
<1>2. ASSUME NEW l \in Loads,
             \/ Lyrics!InfoArrives(l) \/ Lyrics!InfoFails(l) \/ Lyrics!CacheAnswers(l)
             \/ Lyrics!ServerReads(l) \/ Lyrics!Arrives(l) \/ Lyrics!FetchFails(l)
             \/ Lyrics!DraftAnswers(l)
      PROVE  LyricInv'
  BY <1>2, InfoKeeps, CacheKeeps, ReadKeeps, ArriveKeeps, FetchFailsKeeps, DraftKeeps
<1>3. CASE Lyrics!Edit \/ Lyrics!Undo \/ Lyrics!Redo \/ Lyrics!TimerFires
  BY <1>3, EditKeeps, UndoKeeps, TimerKeeps
<1>4. CASE Lyrics!Save \/ Lyrics!ServerSaves \/ Lyrics!Receipt \/ Lyrics!SaveFails
  BY <1>4, SaveKeeps, ServerSavesKeeps, ReceiptKeeps, SaveFailsKeeps
<1>5. ASSUME NEW crash \in BOOLEAN, Lyrics!Close(crash) PROVE LyricInv'
  BY <1>5, CloseKeeps
<1>6. CASE UNCHANGED lyricVars
  <2>1. Phase' = Phase /\ Chosen' = Chosen /\ Loads' = Loads
    BY <1>6, LoadsRest DEF lyricVars
  <2>2. Lyrics!TypeOK'
    BY <1>6 DEF lyricVars, LyricInv, Lyrics!TypeOK
  <2>3. /\ Counted' /\ Stored' /\ Entered' /\ Clean' /\ Sent' /\ Timed'
        /\ Lyrics!UnsavedTextSurvives'
    BY <1>6, <2>1 DEF lyricVars, LyricInv, Counted, Stored, Entered, Clean, Sent, Timed,
                      Lyrics!UnsavedTextSurvives, Drafting
  <2> QED BY <2>2, <2>3 DEF LyricInv
<1> QED BY <1>1, <1>2, <1>3, <1>4, <1>5, <1>6 DEF Lyrics!Next, Loads

-----------------------------------------------------------------------------
(* The Motion studio.                                                      *)

OpenType == [song : Songs, stage : {"project", "answered", "audio", "ended"}, got : Motion!Values]

\* The server has had what it has and what it answers.
Had ==
  /\ \A s \in Songs, p \in Motion!Parts : remote[s][p] \in had[s][p]
  /\ \A l \in Opens, p \in Motion!Parts : opens[l].got[p] \in had[opens[l].song][p]

\* A save is of a song, and what it has committed the server has had.
Sending ==
  /\ (\E p \in Motion!Parts : sending.part[p] # "idle") => sending.song \in Songs
  /\ \A p \in Motion!Parts :
       sending.part[p] = "committed" => sending.values[p] \in had[sending.song][p]

\* A changed design that is not to be kept any more has been kept.
DraftKept ==
  selected # NoSong /\ ~ due /\ Motion!Unsaved(changed) => kept[selected] = design

\* A queue is of a song, and never outlives the selected one.
Queued ==
  \A q \in Queues : /\ queues[q].stage # "ended" => selected \in Songs
                    /\ queues[q].stage \in {"pricing", "encoding"} => queues[q].song \in Songs

MotionInv ==
  /\ Motion!TypeOK /\ Len(opens) <= MaxOpens
  /\ Had /\ Sending /\ Motion!CleanMeansHad /\ DraftKept /\ Queued

SendType == [song : Songs \cup {NoSong}, open : 0..MaxOpens, values : Motion!Values,
             part : [Motion!Parts -> {"idle", "sent", "committed", "settled"}]]
QueueType == [stage : {"saving", "pricing", "encoding", "ended"}, song : Songs \cup {NoSong}]

\* The types, with these names.
LEMMA MotionTypes ==
  ASSUME MotionInv
  PROVE  /\ remote \in [Songs -> Motion!Values]
         /\ had \in [Songs -> [Motion!Parts -> SUBSET (0..MaxChanges)]]
         /\ kept \in [Songs -> Motion!Values \cup {NoDraft}]
         /\ selected \in Songs \cup {NoSong} /\ design \in Motion!Values /\ changed \in Motion!Flags
         /\ opens \in Seq(OpenType) /\ Len(opens) \in 0..MaxOpens
         /\ \A l \in Opens : opens[l] \in OpenType
         /\ due \in BOOLEAN /\ running \in BOOLEAN /\ sending \in SendType
         /\ queues \in Seq(QueueType) /\ \A q \in Queues : queues[q] \in QueueType
<1>1. opens \in Seq(OpenType) /\ queues \in Seq(QueueType) /\ Len(opens) <= MaxOpens
  BY DEF MotionInv, Motion!TypeOK, OpenType, QueueType
<1>2. /\ \A l \in Opens : opens[l] \in OpenType
      /\ \A q \in Queues : queues[q] \in QueueType
  BY <1>1 DEF Opens, Queues
<1>3. Len(opens) \in 0..MaxOpens
  BY <1>1, BrowserAssumption
<1> QED BY <1>1, <1>2, <1>3 DEF MotionInv, Motion!TypeOK, SendType

\* updateSaveState: what is unsaved falls due.
LEMMA SaveState ==
  ASSUME kept \in [Songs -> Motion!Values \cup {NoDraft}], due \in BOOLEAN,
         NEW song \in Songs \cup {NoSong}, NEW flags, NEW still,
         Motion!UpdateSaveState(song, flags, still)
  PROVE  /\ kept' \in [Songs -> Motion!Values \cup {NoDraft}] /\ due' \in BOOLEAN
         /\ song # NoSong /\ Motion!Unsaved(flags) => due' = TRUE
  BY DEF Motion!UpdateSaveState

\* What changes nothing on the screen.
LEMMA QuietKeeps ==
  ASSUME MotionInv, UNCHANGED <<remote, had, selected, design, changed, changes>>,
         opens' \in Seq(OpenType), Len(opens') <= MaxOpens, Had',
         sending' \in SendType, Sending',
         audioOf' \in Songs \cup {NoSong}, running' \in BOOLEAN,
         queues' \in Seq(QueueType), Queued',
         encoded' \subseteq [project : Songs, audio : Songs \cup {NoSong}],
         UNCHANGED <<due, kept>> \/ \E still \in BOOLEAN : Motion!UpdateSaveState(selected, changed, still)
  PROVE  MotionInv'
<1>1. /\ kept' \in [Songs -> Motion!Values \cup {NoDraft}] /\ due' \in BOOLEAN
      /\ \/ UNCHANGED <<due, kept>>
         \/ selected # NoSong /\ Motion!Unsaved(changed) => due' = TRUE
  <2>1. CASE UNCHANGED <<due, kept>>
    BY <2>1, MotionTypes
  <2>2. CASE \E still \in BOOLEAN : Motion!UpdateSaveState(selected, changed, still)
    BY <2>2, MotionTypes, SaveState
  <2> QED BY <2>1, <2>2
<1>2. Motion!TypeOK'
  BY <1>1, MotionTypes DEF MotionInv, Motion!TypeOK, OpenType, SendType, QueueType
<1>3. Motion!CleanMeansHad'
  BY DEF MotionInv, Motion!CleanMeansHad
<1>4. DraftKept'
  BY <1>1 DEF MotionInv, DraftKept, Motion!Unsaved
<1> QED BY <1>2, <1>3, <1>4 DEF MotionInv

\* One load goes on.
LEMMA OpenTurns ==
  ASSUME MotionInv, NEW l \in Opens, NEW r \in OpenType, opens' = [opens EXCEPT ![l] = r]
  PROVE  /\ opens' \in Seq(OpenType) /\ Len(opens') = Len(opens) /\ Len(opens') <= MaxOpens
         /\ Opens' = Opens /\ opens'[l] = r /\ \A k \in Opens : k # l => opens'[k] = opens[k]
<1>1. opens \in Seq(OpenType) /\ l \in 1..Len(opens) /\ Len(opens) <= MaxOpens
  BY MotionTypes DEF MotionInv, Opens
<1> QED BY <1>1, ExceptSeq DEF Opens

\* ... to another stage.
LEMMA OpenPasses ==
  ASSUME MotionInv, NEW l \in Opens, NEW stage \in {"project", "answered", "audio", "ended"},
         Motion!Pass(l, stage), UNCHANGED <<remote, had>>
  PROVE  /\ opens' \in Seq(OpenType) /\ Len(opens') = Len(opens) /\ Len(opens') <= MaxOpens
         /\ Had'
<1> DEFINE r == [opens[l] EXCEPT !.stage = stage]
<1>1. r \in OpenType /\ r.song = opens[l].song /\ r.got = opens[l].got
  BY MotionTypes DEF OpenType
<1>2. opens' = [opens EXCEPT ![l] = r]
  BY DEF Motion!Pass
<1> HIDE DEF r
<1>3. /\ opens' \in Seq(OpenType) /\ Len(opens') = Len(opens) /\ Len(opens') <= MaxOpens
      /\ Opens' = Opens /\ opens'[l] = r /\ \A k \in Opens : k # l => opens'[k] = opens[k]
  BY <1>1, <1>2, OpenTurns
<1>4. \A k \in Opens : opens'[k].got = opens[k].got /\ opens'[k].song = opens[k].song
  BY <1>1, <1>3
<1> QED BY <1>3, <1>4 DEF MotionInv, Had

\* Queues that rest stay sound, and so does a save.
LEMMA OthersRest ==
  ASSUME MotionInv, UNCHANGED selected
  PROVE  /\ UNCHANGED queues => queues' \in Seq(QueueType) /\ Queued'
         /\ UNCHANGED <<sending, had>> => sending' \in SendType /\ Sending'
         /\ UNCHANGED <<opens, had, remote>> => opens' \in Seq(OpenType) /\ Len(opens') <= MaxOpens /\ Had'
         /\ audioOf \in Songs \cup {NoSong} /\ running \in BOOLEAN
         /\ encoded \subseteq [project : Songs, audio : Songs \cup {NoSong}]
<1>1. UNCHANGED queues => queues' \in Seq(QueueType) /\ Queued'
  BY MotionTypes DEF MotionInv, Queued, Queues
<1>2. UNCHANGED <<sending, had>> => sending' \in SendType /\ Sending'
  BY MotionTypes DEF MotionInv, Sending
<1>3. UNCHANGED <<opens, had, remote>> => opens' \in Seq(OpenType) /\ Len(opens') <= MaxOpens /\ Had'
  BY MotionTypes DEF MotionInv, Had, Opens
<1> QED BY <1>1, <1>2, <1>3 DEF MotionInv, Motion!TypeOK

\* A save that has not begun.
LEMMA NothingSent ==
  /\ Motion!NotSending \in SendType
  /\ \A p \in Motion!Parts : Motion!NotSending.part[p] = "idle"
  BY BrowserAssumption DEF Motion!NotSending, SendType, Motion!Values

\* One that begins.
LEMMA BeginsSound ==
  ASSUME MotionInv, Motion!BeginSaving, selected # NoSong, UNCHANGED had
  PROVE  /\ sending' \in SendType /\ Sending'
         /\ Motion!UpdateSaveState(selected, changed, TRUE)
<1>1. /\ sending' = [song |-> selected, open |-> Len(opens), values |-> design,
                    part |-> [p \in Motion!Parts |-> IF changed[p] THEN "sent" ELSE "settled"]]
      /\ Motion!UpdateSaveState(selected, changed, TRUE)
  BY DEF Motion!BeginSaving
<1>2. sending' \in SendType
  BY <1>1, MotionTypes DEF SendType
<1>3. Sending'
  BY <1>1, MotionTypes DEF Sending
<1> QED BY <1>1, <1>2, <1>3

\* load and what comes of it, but for the project that arrives in time.
LEMMA LoadingKeeps ==
  ASSUME MotionInv,
         \/ \E s \in Songs : Motion!Load(s)
         \/ \E l \in Opens : \/ Motion!ServerReads(l) \/ Motion!ProjectLate(l) \/ Motion!LoadFails(l)
                            \/ \E fails \in BOOLEAN : Motion!AudioArrives(l, fails)
  PROVE  MotionInv'
<1> USE DEF Motion!server, Motion!page, Motion!exports
<1>0. Motion!Saving \in BOOLEAN
  BY DEF Motion!Saving
<1>1. ASSUME NEW s \in Songs, Motion!Load(s) PROVE MotionInv'
  <2> DEFINE new == [song |-> s, stage |-> "project", got |-> remote[s]]
  <2>1. opens \in Seq(OpenType) /\ Len(opens) \in Nat /\ Len(opens) < MaxOpens
    BY <1>1, MotionTypes DEF Motion!Load
  <2>2. new \in OpenType /\ new.song = s /\ new.got = remote[s]
    BY MotionTypes DEF OpenType
  <2>3. opens' = Append(opens, new)
    BY <1>1 DEF Motion!Load
  <2> HIDE DEF new
  <2>4. /\ opens' \in Seq(OpenType) /\ Len(opens') = Len(opens) + 1
        /\ \A k \in 1..Len(opens) : opens'[k] = opens[k]
        /\ opens'[Len(opens) + 1] = new
    BY <2>1, <2>2, <2>3, AppendProperties
  <2>5. Len(opens') <= MaxOpens
    BY <2>1, <2>4, BrowserAssumption
  <2>6. \A k \in Opens' : k \in Opens \/ k = Len(opens) + 1
    BY <2>1, <2>4 DEF Opens
  <2>7. UNCHANGED <<remote, had, selected, design, changed, changes, sending, audioOf, running, queues, encoded>>
    BY <1>1 DEF Motion!Load
  <2>8. Had'
    <3>1. \A k \in Opens', q \in Motion!Parts : opens'[k].got[q] \in had[opens'[k].song][q]
      BY <2>2, <2>4, <2>6 DEF MotionInv, Had, Opens
    <3> QED BY <2>7, <3>1 DEF MotionInv, Had
  <2>9. \E still \in BOOLEAN : Motion!UpdateSaveState(selected, changed, still)
    BY <1>0, <1>1 DEF Motion!Load
  <2> QED BY <2>4, <2>5, <2>7, <2>8, <2>9, QuietKeeps, OthersRest
<1>2. ASSUME NEW l \in Opens, Motion!ServerReads(l) PROVE MotionInv'
  <2> DEFINE r == [opens[l] EXCEPT !.stage = "answered", !.got = remote[opens[l].song]]
  <2>1. opens[l].song \in Songs /\ r \in OpenType /\ r.song = opens[l].song /\ r.got = remote[r.song]
    BY MotionTypes DEF OpenType
  <2>2. opens' = [opens EXCEPT ![l] = r]
    BY <1>2 DEF Motion!ServerReads
  <2> HIDE DEF r
  <2>3. /\ opens' \in Seq(OpenType) /\ Len(opens') <= MaxOpens
        /\ Opens' = Opens /\ opens'[l] = r /\ \A k \in Opens : k # l => opens'[k] = opens[k]
    BY <2>1, <2>2, OpenTurns
  <2>4. UNCHANGED <<remote, had, selected, design, changed, changes, sending, audioOf, running,
                    queues, encoded, kept, due>>
    BY <1>2 DEF Motion!ServerReads
  <2>5. Had'
    <3>1. \A k \in Opens, q \in Motion!Parts : opens'[k].got[q] \in had[opens'[k].song][q]
      BY <2>1, <2>3 DEF MotionInv, Had
    <3> QED BY <2>3, <2>4, <3>1 DEF MotionInv, Had
  <2> QED BY <2>3, <2>4, <2>5, QuietKeeps, OthersRest
<1>3. ASSUME NEW l \in Opens, Motion!ProjectLate(l) PROVE MotionInv'
  BY <1>3, OpenPasses, QuietKeeps, OthersRest DEF Motion!ProjectLate
<1>4. ASSUME NEW l \in Opens, Motion!LoadFails(l) PROVE MotionInv'
  <2>1. UNCHANGED <<due, kept>> \/ \E still \in BOOLEAN : Motion!UpdateSaveState(selected, changed, still)
    BY <1>0, <1>4 DEF Motion!LoadFails
  <2>2. /\ Motion!Pass(l, "ended")
        /\ UNCHANGED <<remote, had, selected, design, changed, changes, sending, audioOf, running,
                       queues, encoded>>
    BY <1>4 DEF Motion!LoadFails
  <2> QED BY <2>1, <2>2, OpenPasses, QuietKeeps, OthersRest
<1>5. ASSUME NEW l \in Opens, NEW fails \in BOOLEAN, Motion!AudioArrives(l, fails) PROVE MotionInv'
  <2>1. UNCHANGED <<due, kept>> \/ \E still \in BOOLEAN : Motion!UpdateSaveState(selected, changed, still)
    BY <1>0, <1>5 DEF Motion!AudioArrives
  <2>2. /\ Motion!Pass(l, "ended") /\ audioOf' \in {audioOf, opens[l].song}
        /\ UNCHANGED <<remote, had, selected, design, changed, changes, sending, running,
                       queues, encoded>>
    BY <1>5 DEF Motion!AudioArrives
  <2>3. opens[l].song \in Songs
    BY MotionTypes DEF OpenType
  <2> QED BY <2>1, <2>2, <2>3, OpenPasses, QuietKeeps, OthersRest
<1> QED BY <1>1, <1>2, <1>3, <1>4, <1>5

\* Of the two requests of a save only the answer of an unaltered part is taken.
LEMMA SavingKeeps ==
  ASSUME MotionInv,
         \/ Motion!SaveAll \/ Motion!SaveEnds
         \/ \E p \in Motion!Parts : Motion!PartFails(p)
  PROVE  MotionInv'
<1> USE DEF Motion!server, Motion!page, Motion!exports
<1>1. CASE Motion!SaveAll
  <2>1. /\ sending' \in SendType /\ Sending'
        /\ Motion!UpdateSaveState(selected, changed, TRUE)
    BY <1>1, BeginsSound DEF Motion!SaveAll
  <2> QED BY <1>1, <2>1, QuietKeeps, OthersRest DEF Motion!SaveAll
<1>2. CASE Motion!SaveEnds
  <2>1. /\ sending' = Motion!NotSending /\ Motion!UpdateSaveState(selected, changed, FALSE)
        /\ UNCHANGED <<remote, had, selected, design, changed, changes, opens, audioOf, running,
                       queues, encoded>>
    BY <1>2 DEF Motion!SaveEnds
  <2>2. sending' \in SendType /\ Sending'
    BY <2>1, NothingSent DEF Sending
  <2> QED BY <2>1, <2>2, QuietKeeps, OthersRest
<1>3. ASSUME NEW p \in Motion!Parts, Motion!PartFails(p) PROVE MotionInv'
  <2>1. /\ sending' = [sending EXCEPT !.part[p] = "settled"] /\ sending.part[p] # "idle"
        /\ UNCHANGED <<remote, had, kept, selected, design, changed, opens, due, audioOf, running,
                       queues, encoded, changes>>
    BY <1>3 DEF Motion!PartFails
  <2>2. sending' \in SendType /\ Sending'
    BY <2>1, MotionTypes DEF MotionInv, Sending, SendType
  <2> QED BY <2>1, <2>2, QuietKeeps, OthersRest
<1> QED BY <1>1, <1>2, <1>3

\* The server has had what it saves.
LEMMA SavedKeeps ==
  ASSUME MotionInv, NEW p \in Motion!Parts, Motion!ServerSaves(p)
  PROVE  MotionInv'
<1> USE DEF Motion!page, Motion!exports
<1> DEFINE s == sending.song
           v == sending.values[p]
<1>1. /\ sending.part[p] = "sent" /\ s \in Songs /\ v \in 0..MaxChanges
      /\ sending' = [sending EXCEPT !.part[p] = "committed"]
      /\ remote' = [remote EXCEPT ![s][p] = v]
      /\ had' = [had EXCEPT ![s][p] = had[s][p] \cup {v}]
      /\ UNCHANGED <<kept, selected, design, changed, opens, due, audioOf, running, queues, encoded, changes>>
  BY MotionTypes DEF MotionInv, Sending, Motion!ServerSaves, SendType, Motion!Values
<1>2. /\ remote' \in [Songs -> Motion!Values]
      /\ \A q \in Songs, x \in Motion!Parts : remote'[q][x] = remote[q][x] \/ (q = s /\ x = p /\ remote'[q][x] = v)
  BY <1>1, MotionTypes DEF Motion!Values
<1>3. /\ had' \in [Songs -> [Motion!Parts -> SUBSET (0..MaxChanges)]]
      /\ v \in had'[s][p]
      /\ \A q \in Songs, x \in Motion!Parts : had[q][x] \subseteq had'[q][x]
  BY <1>1, MotionTypes
<1>4. /\ sending' \in SendType
      /\ sending'.song = s /\ sending'.values = sending.values
      /\ \A x \in Motion!Parts : sending'.part[x] = "committed" => x = p \/ sending.part[x] = "committed"
  BY <1>1, MotionTypes DEF SendType
<1>5. sending'.values[p] = v
  BY <1>4
<1> HIDE DEF s, v
<1>6. Motion!TypeOK'
  BY <1>1, <1>2, <1>3, <1>4, MotionTypes
     DEF MotionInv, Motion!TypeOK, OpenType, SendType, QueueType
<1>7. Had'
  <2>1. \A q \in Songs, x \in Motion!Parts : remote'[q][x] \in had'[q][x]
    BY <1>2, <1>3 DEF MotionInv, Had
  <2>2. \A l \in Opens : opens[l].song \in Songs
    BY MotionTypes DEF OpenType
  <2>3. \A l \in Opens, x \in Motion!Parts : opens[l].got[x] \in had'[opens[l].song][x]
    BY <1>3, <2>2 DEF MotionInv, Had
  <2> QED BY <1>1, <2>1, <2>3 DEF Had, Opens
<1>8. Sending'
  BY <1>1, <1>3, <1>4, <1>5 DEF MotionInv, Sending
<1>9. Motion!CleanMeansHad'
  BY <1>1, <1>3, MotionTypes DEF MotionInv, Motion!CleanMeansHad
<1>10. DraftKept' /\ Queued' /\ Len(opens') <= MaxOpens
  BY <1>1 DEF MotionInv, DraftKept, Motion!Unsaved, Queued, Queues
<1> QED BY <1>6, <1>7, <1>8, <1>9, <1>10 DEF MotionInv

\* A part is taken for saved when it is what was sent, for the song it was sent for.
LEMMA MotionReceiptKeeps ==
  ASSUME MotionInv, NEW p \in Motion!Parts, Motion!Receipt(p)
  PROVE  MotionInv'
<1> USE DEF Motion!server, Motion!exports
<1>1. /\ sending.part[p] = "committed" /\ sending' = [sending EXCEPT !.part[p] = "settled"]
      /\ changed' = IF Motion!Unaltered(p) THEN [changed EXCEPT ![p] = FALSE] ELSE changed
      /\ UNCHANGED <<remote, had, kept, selected, design, opens, due, audioOf, running, queues, encoded, changes>>
  BY DEF Motion!Receipt
<1>2. sending.values[p] \in had[sending.song][p]
  BY <1>1 DEF MotionInv, Sending
<1>3. sending' \in SendType /\ Sending'
  BY <1>1, MotionTypes DEF MotionInv, Sending, SendType
<1>4. /\ changed' \in Motion!Flags
      /\ \A x \in Motion!Parts : changed'[x] = changed[x] \/ (x = p /\ ~ changed'[x] /\ Motion!Unaltered(p))
  BY <1>1, MotionTypes DEF Motion!Flags
<1>5. Motion!TypeOK'
  BY <1>1, <1>3, <1>4, MotionTypes
     DEF MotionInv, Motion!TypeOK, OpenType, SendType, QueueType
<1>6. Motion!CleanMeansHad'
  <2>1. Motion!Unaltered(p) => selected = sending.song /\ design[p] = sending.values[p]
    BY DEF Motion!Unaltered
  <2> QED BY <1>1, <1>2, <1>4, <2>1 DEF MotionInv, Motion!CleanMeansHad
<1>7. DraftKept'
  <2>1. Motion!Unsaved(changed') => Motion!Unsaved(changed)
    BY <1>4 DEF Motion!Unsaved
  <2> QED BY <1>1, <2>1 DEF MotionInv, DraftKept, Motion!Unsaved
<1>8. Had' /\ Queued' /\ Len(opens') <= MaxOpens
  BY <1>1 DEF MotionInv, Had, Opens, Queued, Queues
<1> QED BY <1>3, <1>5, <1>6, <1>7, <1>8 DEF MotionInv

\* An edit is marked and falls due; the timer keeps what is on the screen.
LEMMA ChangeKeeps ==
  ASSUME MotionInv, Motion!KeepDraft \/ \E p \in Motion!Parts : Motion!Change(p)
  PROVE  MotionInv'
<1> USE DEF Motion!server, Motion!page, Motion!exports
<1>1. CASE Motion!KeepDraft
  <2>1. /\ due' = FALSE
        /\ kept' = IF selected # NoSong /\ Motion!Unsaved(changed)
                   THEN [kept EXCEPT ![selected] = design] ELSE kept
        /\ UNCHANGED <<remote, had, selected, design, changed, opens, sending, audioOf, running,
                       queues, encoded, changes>>
    BY <1>1 DEF Motion!KeepDraft
  <2>2. Motion!TypeOK'
    BY <2>1, MotionTypes DEF MotionInv, Motion!TypeOK, OpenType, SendType, QueueType
  <2>3. DraftKept'
    BY <2>1, MotionTypes DEF DraftKept, Motion!Unsaved
  <2>4. Had' /\ Sending' /\ Motion!CleanMeansHad' /\ Queued' /\ Len(opens') <= MaxOpens
    BY <2>1 DEF MotionInv, Had, Opens, Sending, Motion!CleanMeansHad, Queued, Queues
  <2> QED BY <2>2, <2>3, <2>4 DEF MotionInv
<1>2. ASSUME NEW p \in Motion!Parts, Motion!Change(p) PROVE MotionInv'
  <2>1. /\ selected # NoSong /\ changes < MaxChanges /\ changes' = changes + 1
        /\ design' = [design EXCEPT ![p] = changes + 1]
        /\ changed' = [changed EXCEPT ![p] = TRUE]
        /\ Motion!UpdateSaveState(selected, changed', Motion!Saving)
        /\ UNCHANGED <<remote, had, selected, opens, sending, audioOf, running, queues, encoded>>
    BY <1>2 DEF Motion!Change
  <2>2. changes' \in 0..MaxChanges
    BY <2>1, BrowserAssumption DEF MotionInv, Motion!TypeOK
  <2>3. /\ design' \in Motion!Values /\ changed' \in Motion!Flags /\ changed'[p]
        /\ \A x \in Motion!Parts : ~ changed'[x] => ~ changed[x] /\ design'[x] = design[x]
    BY <2>1, <2>2, MotionTypes DEF Motion!Values, Motion!Flags
  <2>4. /\ kept' \in [Songs -> Motion!Values \cup {NoDraft}] /\ due' \in BOOLEAN
        /\ Motion!Unsaved(changed') => due' = TRUE
    BY <2>1, MotionTypes, SaveState
  <2>5. Motion!TypeOK'
    BY <2>1, <2>2, <2>3, <2>4, MotionTypes
       DEF MotionInv, Motion!TypeOK, OpenType, SendType, QueueType
  <2>6. Motion!CleanMeansHad'
    BY <2>1, <2>3 DEF MotionInv, Motion!CleanMeansHad
  <2>7. DraftKept'
    BY <2>4 DEF DraftKept, Motion!Unsaved
  <2>8. Had' /\ Sending' /\ Queued' /\ Len(opens') <= MaxOpens
    BY <2>1 DEF MotionInv, Had, Opens, Sending, Queued, Queues
  <2> QED BY <2>5, <2>6, <2>7, <2>8 DEF MotionInv
<1> QED BY <1>1, <1>2

\* The project arrives: its draft comes back as unsaved, or it is what the
\* server has had.
LEMMA ProjectKeeps ==
  ASSUME MotionInv, NEW l \in Opens, Motion!ProjectArrives(l)
  PROVE  MotionInv'
<1> USE DEF Motion!server, Motion!exports
<1> DEFINE s == opens[l].song
           got == opens[l].got
           values == IF Motion!Restored(s, got) THEN kept[s] ELSE got
           flags == [p \in Motion!Parts |-> Motion!Restored(s, got)]
<1>1. /\ Motion!Pass(l, "audio") /\ selected' = s
      /\ \/ design' = values /\ changed' = flags /\ UNCHANGED changes
         \/ /\ changes < MaxChanges /\ changes' = changes + 1
            /\ design' = [values EXCEPT !["design"] = changes + 1]
            /\ changed' = [flags EXCEPT !["design"] = TRUE]
      /\ Motion!UpdateSaveState(s, changed', Motion!Saving)
      /\ UNCHANGED <<remote, had, sending, audioOf, running, queues, encoded>>
  BY DEF Motion!ProjectArrives
<1>2. s \in Songs /\ got \in Motion!Values /\ \A p \in Motion!Parts : got[p] \in had[s][p]
  BY MotionTypes DEF OpenType, MotionInv, Had
<1>3. /\ values \in Motion!Values /\ flags \in Motion!Flags
      /\ \A p \in Motion!Parts : ~ flags[p] => values[p] = got[p]
  <2>1. Motion!Restored(s, got) => kept[s] # NoDraft
    BY DEF Motion!Restored
  <2>2. Motion!Restored(s, got) \in BOOLEAN
    BY DEF Motion!Restored
  <2> QED BY <1>2, <2>1, <2>2, MotionTypes DEF Motion!Flags
<1>4. opens' \in Seq(OpenType) /\ Len(opens') <= MaxOpens /\ Had'
  BY <1>1, OpenPasses
<1> HIDE DEF s, got, values, flags
<1>5. changes' \in 0..MaxChanges /\ changes \in 0..MaxChanges
  BY <1>1, BrowserAssumption DEF MotionInv, Motion!TypeOK
<1>6. /\ design' \in Motion!Values /\ changed' \in Motion!Flags
      /\ \A p \in Motion!Parts : ~ changed'[p] => design'[p] = got[p]
  BY ZenonT(40), <1>1, <1>3, <1>5 DEF Motion!Values, Motion!Flags
<1>7. /\ kept' \in [Songs -> Motion!Values \cup {NoDraft}] /\ due' \in BOOLEAN
      /\ s # NoSong /\ Motion!Unsaved(changed') => due' = TRUE
  <2>1. s \in Songs \cup {NoSong} /\ Motion!UpdateSaveState(s, changed', Motion!Saving)
    BY <1>1, <1>2
  <2>2. kept \in [Songs -> Motion!Values \cup {NoDraft}] /\ due \in BOOLEAN
    BY MotionTypes
  <2> QED BY <2>1, <2>2, SaveState
<1>8. Motion!TypeOK'
  BY <1>1, <1>2, <1>4, <1>5, <1>6, <1>7, MotionTypes
     DEF MotionInv, Motion!TypeOK, OpenType, SendType, QueueType
<1>9. Motion!CleanMeansHad'
  BY <1>1, <1>2, <1>6 DEF Motion!CleanMeansHad
<1>10. DraftKept'
  BY <1>1, <1>7 DEF DraftKept, Motion!Unsaved
<1>11. Sending' /\ Queued'
  BY <1>1, <1>2 DEF MotionInv, Sending, Queued, Queues
<1> QED BY <1>4, <1>8, <1>9, <1>10, <1>11 DEF MotionInv

\* One queue goes on, of the song that is selected or of its own.
LEMMA QueueTurns ==
  ASSUME MotionInv, NEW q \in Queues, NEW r \in QueueType, queues' = [queues EXCEPT ![q] = r],
         UNCHANGED selected, r.stage # "ended" => selected \in Songs,
         r.stage \in {"pricing", "encoding"} => r.song \in Songs
  PROVE  queues' \in Seq(QueueType) /\ Queued'
<1>1. queues \in Seq(QueueType) /\ q \in 1..Len(queues)
  BY MotionTypes DEF Queues
<1>2. /\ queues' \in Seq(QueueType) /\ Len(queues') = Len(queues)
      /\ \A k \in 1..Len(queues) : queues'[k] = IF k = q THEN r ELSE queues[k]
  BY <1>1, ExceptSeq
<1> QED BY <1>1, <1>2 DEF MotionInv, Queued, Queues

\* The export queue: an order that saves first, the price, the videos, the end.
LEMMA ExportKeeps ==
  ASSUME MotionInv,
         \/ Motion!Export
         \/ \E q \in Queues : \/ Motion!ExportStarts(q) \/ Motion!PriceAnswers(q)
                             \/ Motion!Encode(q) \/ Motion!ExportEnds(q)
  PROVE  MotionInv'
<1> USE DEF Motion!server, Motion!page
<1>1. CASE Motion!Export
  <2>1. /\ selected \in Songs /\ selected # NoSong
        /\ UNCHANGED <<remote, had, selected, design, changed, opens, audioOf, encoded, changes>>
    BY <1>1, MotionTypes DEF Motion!Export
  <2>2. ASSUME NEW r \in QueueType, queues' = Append(queues, r),
               r.stage \in {"pricing", "encoding"} => r.song \in Songs
        PROVE  queues' \in Seq(QueueType) /\ Queued'
    <3>1. queues \in Seq(QueueType)
      BY MotionTypes
    <3>2. /\ queues' \in Seq(QueueType) /\ Len(queues') = Len(queues) + 1
          /\ \A k \in 1..Len(queues) : queues'[k] = queues[k]
          /\ queues'[Len(queues) + 1] = r
      BY <2>2, <3>1, AppendProperties
    <3>3. \A k \in Queues' : k \in Queues \/ k = Len(queues) + 1
      BY <3>1, <3>2 DEF Queues
    <3> QED BY <2>1, <2>2, <3>2, <3>3 DEF MotionInv, Queued, Queues
  <2>3. CASE /\ queues' = Append(queues, [stage |-> "saving", song |-> NoSong])
             /\ Motion!BeginSaving /\ UNCHANGED running
    <3>1. queues' \in Seq(QueueType) /\ Queued'
      BY <2>2, <2>3 DEF QueueType
    <3>2. /\ sending' \in SendType /\ Sending'
          /\ Motion!UpdateSaveState(selected, changed, TRUE)
      BY <2>1, <2>3, BeginsSound
    <3> QED BY <2>1, <2>3, <3>1, <3>2, QuietKeeps, OthersRest
  <2>4. CASE /\ queues' = Append(queues, [stage |-> "pricing", song |-> selected])
             /\ running' = TRUE /\ UNCHANGED <<sending, kept, due>>
    <3>1. queues' \in Seq(QueueType) /\ Queued'
      BY <2>1, <2>2, <2>4 DEF QueueType
    <3> QED BY <2>1, <2>4, <3>1, QuietKeeps, OthersRest
  <2> QED BY <1>1, <2>3, <2>4 DEF Motion!Export
<1>2. ASSUME NEW q \in Queues, Motion!ExportStarts(q) PROVE MotionInv'
  <2> DEFINE r == [queues[q] EXCEPT !.stage = "pricing", !.song = selected]
  <2>1. selected \in Songs
    BY <1>2 DEF MotionInv, Queued, Motion!ExportStarts
  <2>2. r \in QueueType /\ r.stage = "pricing" /\ r.song = selected
    BY <2>1, MotionTypes DEF QueueType
  <2>3. /\ queues' = [queues EXCEPT ![q] = r] /\ running' = TRUE
        /\ UNCHANGED <<remote, had, kept, selected, design, changed, opens, due, sending, audioOf,
                       encoded, changes>>
    BY <1>2 DEF Motion!ExportStarts
  <2> HIDE DEF r
  <2>4. queues' \in Seq(QueueType) /\ Queued'
    BY <2>1, <2>2, <2>3, QueueTurns
  <2> QED BY <2>3, <2>4, QuietKeeps, OthersRest
<1>3. ASSUME NEW q \in Queues, NEW stage \in {"encoding", "ended"}, Motion!Queue(q, stage),
             queues[q].stage \in {"pricing", "encoding"}, running' \in BOOLEAN,
             UNCHANGED <<remote, had, kept, selected, design, changed, opens, due, sending, audioOf,
                         encoded, changes>>
      PROVE  MotionInv'
  <2> DEFINE r == [queues[q] EXCEPT !.stage = stage]
  <2>1. r \in QueueType /\ r.stage = stage /\ r.song = queues[q].song
    BY MotionTypes DEF QueueType
  <2>2. selected \in Songs /\ queues[q].song \in Songs
    BY <1>3 DEF MotionInv, Queued
  <2>3. queues' = [queues EXCEPT ![q] = r]
    BY <1>3 DEF Motion!Queue
  <2> HIDE DEF r
  <2>4. queues' \in Seq(QueueType) /\ Queued'
    BY <1>3, <2>1, <2>2, <2>3, QueueTurns
  <2> QED BY <1>3, <2>4, QuietKeeps, OthersRest
<1>4. ASSUME NEW q \in Queues, Motion!PriceAnswers(q) \/ Motion!ExportEnds(q) PROVE MotionInv'
  <2>1. running \in BOOLEAN
    BY MotionTypes
  <2> QED BY <1>3, <1>4, <2>1 DEF Motion!PriceAnswers, Motion!ExportEnds
<1>5. ASSUME NEW q \in Queues, Motion!Encode(q) PROVE MotionInv'
  <2>1. queues[q].song \in Songs
    BY <1>5 DEF MotionInv, Queued, Motion!Encode
  <2>2. /\ encoded' = encoded \cup {[project |-> queues[q].song, audio |-> audioOf]}
        /\ UNCHANGED <<remote, had, kept, selected, design, changed, opens, due, sending, audioOf,
                       running, queues, changes>>
    BY <1>5 DEF Motion!Encode
  <2>3. encoded' \subseteq [project : Songs, audio : Songs \cup {NoSong}]
    BY <2>1, <2>2, OthersRest
  <2> QED BY <2>2, <2>3, QuietKeeps, OthersRest
<1> QED BY <1>1, <1>2, <1>4, <1>5

LEMMA MotionCloseKeeps ==
  ASSUME MotionInv, NEW crash \in BOOLEAN, Motion!Close(crash)
  PROVE  MotionInv'
<1>1. /\ kept' = [kept EXCEPT ![selected] = design] \/ kept' = kept
      /\ selected' = NoSong /\ design' = [p \in Motion!Parts |-> 0]
      /\ changed' = [p \in Motion!Parts |-> FALSE]
      /\ opens' = [l \in 1..Len(opens) |-> [opens[l] EXCEPT !.stage = "ended"]]
      /\ queues' = [q \in 1..Len(queues) |-> [queues[q] EXCEPT !.stage = "ended"]]
      /\ due' = FALSE /\ sending' = Motion!NotSending /\ audioOf' = NoSong /\ running' = FALSE
      /\ UNCHANGED <<remote, had, encoded, changes>>
  BY DEF Motion!Close, Motion!server
<1>2. /\ opens \in Seq(OpenType) /\ Len(opens) \in Nat /\ Len(opens) <= MaxOpens
      /\ queues \in Seq(QueueType) /\ Len(queues) \in Nat
  BY MotionTypes DEF MotionInv
<1>3. ASSUME NEW l \in 1..Len(opens)
      PROVE  LET r == [opens[l] EXCEPT !.stage = "ended"] IN
             r \in OpenType /\ r.song = opens[l].song /\ r.got = opens[l].got
  <2>1. opens[l] \in OpenType
    BY <1>2
  <2> QED BY <2>1 DEF OpenType
<1>4. ASSUME NEW q \in 1..Len(queues)
      PROVE  LET r == [queues[q] EXCEPT !.stage = "ended"] IN
             r \in QueueType /\ r.stage = "ended"
  <2>1. queues[q] \in QueueType
    BY <1>2
  <2> QED BY <2>1 DEF QueueType
<1>5. opens' \in Seq(OpenType) /\ Len(opens') = Len(opens)
  BY <1>1, <1>2, <1>3
<1>6. queues' \in Seq(QueueType) /\ Len(queues') = Len(queues)
  BY <1>1, <1>2, <1>4
<1>7. kept' \in [Songs -> Motion!Values \cup {NoDraft}]
  BY <1>1, MotionTypes
<1>8. design' \in Motion!Values /\ changed' \in Motion!Flags
  BY <1>1, BrowserAssumption DEF Motion!Values, Motion!Flags
<1>9. Motion!TypeOK'
  BY <1>1, <1>5, <1>6, <1>7, <1>8, NothingSent
     DEF MotionInv, Motion!TypeOK, OpenType, SendType, QueueType
<1>10. Had'
  BY <1>1, <1>2, <1>3, <1>5 DEF MotionInv, Had, Opens
<1>11. Sending'
  BY <1>1, NothingSent DEF Sending
<1>12. Queued'
  BY <1>1, <1>2, <1>4, <1>6 DEF Queued, Queues
<1>13. Motion!CleanMeansHad' /\ DraftKept' /\ Len(opens') <= MaxOpens
  BY <1>1, <1>2, <1>5 DEF Motion!CleanMeansHad, DraftKept
<1> QED BY <1>9, <1>10, <1>11, <1>12, <1>13 DEF MotionInv

LEMMA MotionStarts == Motion!Init => MotionInv
<1> SUFFICES ASSUME Motion!Init PROVE MotionInv
  OBVIOUS
<1>1. /\ remote = [s \in Songs |-> [p \in Motion!Parts |-> 0]]
      /\ had = [s \in Songs |-> [p \in Motion!Parts |-> {0}]]
      /\ kept = [s \in Songs |-> NoDraft]
      /\ selected = NoSong /\ design = [p \in Motion!Parts |-> 0]
      /\ changed = [p \in Motion!Parts |-> FALSE]
      /\ opens = <<>> /\ due = FALSE /\ sending = Motion!NotSending /\ audioOf = NoSong
      /\ running = FALSE /\ queues = <<>> /\ encoded = {} /\ changes = 0
  BY DEF Motion!Init
<1>2. 0 \in 0..MaxChanges /\ Opens = {} /\ Queues = {} /\ Len(opens) <= MaxOpens
  BY <1>1, BrowserAssumption DEF Opens, Queues
<1>3. /\ remote \in [Songs -> Motion!Values] /\ design \in Motion!Values /\ changed \in Motion!Flags
      /\ had \in [Songs -> [Motion!Parts -> SUBSET (0..MaxChanges)]]
  BY <1>1, <1>2 DEF Motion!Values, Motion!Flags
<1>4. opens \in Seq(OpenType) /\ queues \in Seq(QueueType)
  BY <1>1
<1>5. Motion!TypeOK
  BY <1>1, <1>2, <1>3, <1>4, NothingSent DEF Motion!TypeOK, OpenType, SendType, QueueType
<1>6. Had /\ Sending /\ Motion!CleanMeansHad /\ DraftKept /\ Queued
  BY <1>1, <1>2, NothingSent DEF Had, Sending, Motion!CleanMeansHad, DraftKept, Queued
<1> QED BY <1>2, <1>5, <1>6 DEF MotionInv

\* Every step of the studio keeps the invariant, and so does its rest.
LEMMA MotionGoesOn == MotionInv /\ [Motion!Next]_motionVars => MotionInv'
<1> SUFFICES ASSUME MotionInv, [Motion!Next]_motionVars PROVE MotionInv'
  OBVIOUS
<1>1. ASSUME NEW s \in Songs, Motion!Load(s) PROVE MotionInv'
  BY <1>1, LoadingKeeps
<1>2. ASSUME NEW l \in Opens,
             \/ Motion!ServerReads(l) \/ Motion!ProjectArrives(l) \/ Motion!ProjectLate(l)
             \/ Motion!LoadFails(l) \/ \E fails \in BOOLEAN : Motion!AudioArrives(l, fails)
      PROVE  MotionInv'
  BY <1>2, LoadingKeeps, ProjectKeeps
<1>3. CASE Motion!KeepDraft \/ Motion!SaveAll \/ Motion!SaveEnds \/ Motion!Export
  BY <1>3, ChangeKeeps, SavingKeeps, ExportKeeps
<1>4. ASSUME NEW p \in Motion!Parts,
             \/ Motion!Change(p) \/ Motion!ServerSaves(p) \/ Motion!Receipt(p) \/ Motion!PartFails(p)
      PROVE  MotionInv'
  BY <1>4, ChangeKeeps, SavedKeeps, MotionReceiptKeeps, SavingKeeps
<1>5. ASSUME NEW q \in Queues,
             \/ Motion!ExportStarts(q) \/ Motion!PriceAnswers(q) \/ Motion!Encode(q) \/ Motion!ExportEnds(q)
      PROVE  MotionInv'
  BY <1>5, ExportKeeps
<1>6. ASSUME NEW crash \in BOOLEAN, Motion!Close(crash) PROVE MotionInv'
  BY <1>6, MotionCloseKeeps
<1>7. CASE UNCHANGED motionVars
  BY <1>7, QuietKeeps, OthersRest DEF motionVars
<1> QED BY <1>1, <1>2, <1>3, <1>4, <1>5, <1>6, <1>7 DEF Motion!Next, Opens, Queues
-----------------------------------------------------------------------------
(* The browser.                                                            *)

browserVars == <<concern, siteVars, soundVars, lyricVars, motionVars, extensionVars>>

\* The steps of the page, of the frames' sound and of the extension.
LEMMA OthersStep ==
  ASSUME \/ PageOnly \/ SoundOnly \/ WorkerOnly \/ UNCHANGED browserVars
  PROVE  UNCHANGED lyricVars /\ UNCHANGED motionVars
BY DEF PageOnly, SoundOnly, WorkerOnly, browserVars

\* Every step of the browser is one of the lyric editor's or leaves it alone,
\* and one of the studio's or leaves it alone.
LEMMA BrowserSteps ==
  [BrowserNext]_browserVars => [Lyrics!Next]_lyricVars /\ [Motion!Next]_motionVars
<1> SUFFICES ASSUME [BrowserNext]_browserVars
             PROVE  [Lyrics!Next]_lyricVars /\ [Motion!Next]_motionVars
  OBVIOUS
<1>1. CASE PageOnly \/ SoundOnly \/ WorkerOnly \/ UNCHANGED browserVars
  BY <1>1, OthersStep
<1>2. CASE /\ LyricOnly
           /\ \/ \E s \in Songs : Lyrics!LoadSong(s)
              \/ \E l \in Loads : Lyrics!InfoArrives(l)
              \/ \E l \in Loads : Lyrics!InfoFails(l)
              \/ \E l \in Loads : Lyrics!CacheAnswers(l)
              \/ \E l \in Loads : Lyrics!ServerReads(l)
              \/ \E l \in Loads : Lyrics!Arrives(l)
              \/ \E l \in Loads : Lyrics!FetchFails(l)
              \/ \E l \in Loads : Lyrics!DraftAnswers(l)
              \/ Lyrics!Edit \/ Lyrics!Undo \/ Lyrics!Redo \/ Lyrics!TimerFires
              \/ Lyrics!Save \/ Lyrics!ServerSaves \/ Lyrics!Receipt \/ Lyrics!SaveFails
              \/ \E crash \in BOOLEAN : Lyrics!Close(crash)
  <2>1. UNCHANGED motionVars
    BY <1>2 DEF LyricOnly
  <2>2. Lyrics!Next
    BY <1>2 DEF Lyrics!Next, Loads
  <2> QED BY <2>1, <2>2
<1>3. CASE /\ StudioOnly
           /\ \/ \E s \in Songs : Motion!Load(s)
              \/ \E l \in Opens : Motion!ServerReads(l)
              \/ \E l \in Opens : Motion!ProjectArrives(l)
              \/ \E l \in Opens : Motion!ProjectLate(l)
              \/ \E l \in Opens : Motion!LoadFails(l)
              \/ \E l \in Opens, fails \in BOOLEAN : Motion!AudioArrives(l, fails)
              \/ \E p \in Motion!Parts : Motion!Change(p)
              \/ Motion!KeepDraft \/ Motion!SaveAll
              \/ \E p \in Motion!Parts : Motion!ServerSaves(p)
              \/ \E p \in Motion!Parts : Motion!Receipt(p)
              \/ \E p \in Motion!Parts : Motion!PartFails(p)
              \/ Motion!SaveEnds \/ Motion!Export
              \/ \E q \in Queues : Motion!ExportStarts(q)
              \/ \E q \in Queues : Motion!PriceAnswers(q)
              \/ \E q \in Queues : Motion!Encode(q)
              \/ \E q \in Queues : Motion!ExportEnds(q)
              \/ \E crash \in BOOLEAN : Motion!Close(crash)
  <2>1. UNCHANGED lyricVars
    BY <1>3 DEF StudioOnly
  <2>2. Motion!Next
    BY <1>3 DEF Motion!Next, Opens, Queues
  <2> QED BY <2>1, <2>2
<1> QED BY <1>1, <1>2, <1>3, ZenonT(60) DEF BrowserNext, Returning, Exporting, Editing

\* The types of the two documents hold, and with them what makes their drafts
\* and their saves safe, in every state of the browser.
THEOREM DocumentsSound == BrowserSpec => [](LyricInv /\ MotionInv)
<1>1. BrowserInit => LyricInv /\ MotionInv
  BY LyricStarts, MotionStarts DEF BrowserInit
<1>2. LyricInv /\ MotionInv /\ [BrowserNext]_browserVars => LyricInv' /\ MotionInv'
  BY BrowserSteps, LyricGoesOn, MotionGoesOn
<1> QED BY <1>1, <1>2, PTL DEF BrowserSpec, browserVars

\* What either document shows as saved is what the server has had for that
\* song (isCurrentLoad and the revision of saveAlignment in common.js; the
\* sequence of load and the comparison after saveAll in studio.ts).
THEOREM SavedIsStored == BrowserSpec => []SavedMeansStored
<1>1. LyricInv /\ MotionInv => SavedMeansStored
  BY DEF LyricInv, Clean, MotionInv, SavedMeansStored, Lyrics!CleanMeansHeld
<1> QED BY <1>1, DocumentsSound, PTL

\* What the server never had is in the draft of its song, or the timer that
\* writes it is running (the draft timer of common.js, which a save does not
\* stop; updateSaveState of studio.ts).
THEOREM UnsavedWorkIsKept == BrowserSpec => []UnsavedWorkIsInDraft
<1>1. LyricInv /\ MotionInv => UnsavedWorkIsInDraft
  BY DEF LyricInv, MotionInv, UnsavedWorkIsInDraft, Motion!UnsavedPartsAreKept,
         Motion!CleanMeansHad, DraftKept, Motion!Unsaved
<1> QED BY <1>1, DocumentsSound, PTL

\* A step of the studio selects the last song asked for or leaves the
\* selection alone: an answer that is late turns back (loadSequence).
LEMMA OnlyTheLastIsSelected ==
  [Motion!Next]_motionVars
  => (selected' # selected /\ selected' # NoSong => selected' = opens[Len(opens)].song)
<1> SUFFICES ASSUME [Motion!Next]_motionVars, selected' # selected, selected' # NoSong
             PROVE  selected' = opens[Len(opens)].song
  OBVIOUS
<1>1. ASSUME NEW l \in 1..Len(opens), Motion!ProjectArrives(l)
      PROVE  selected' = opens[Len(opens)].song
  BY <1>1 DEF Motion!ProjectArrives, Motion!Turned, Motion!InTime
<1>2. ASSUME NEW l \in 1..Len(opens), \/ Motion!ServerReads(l) \/ Motion!ProjectLate(l)
                                      \/ Motion!LoadFails(l)
                                      \/ \E fails \in BOOLEAN : Motion!AudioArrives(l, fails)
      PROVE  FALSE
  BY <1>2 DEF Motion!ServerReads, Motion!ProjectLate, Motion!LoadFails, Motion!AudioArrives,
              Motion!page
<1>3. CASE Motion!KeepDraft \/ Motion!SaveAll \/ Motion!SaveEnds \/ Motion!Export
  BY <1>3 DEF Motion!KeepDraft, Motion!SaveAll, Motion!SaveEnds, Motion!Export, Motion!page
<1>4. ASSUME NEW s \in Songs, Motion!Load(s) PROVE FALSE
  BY <1>4 DEF Motion!Load, Motion!page
<1>5. ASSUME NEW p \in Motion!Parts,
             \/ Motion!Change(p) \/ Motion!ServerSaves(p) \/ Motion!Receipt(p) \/ Motion!PartFails(p)
      PROVE  FALSE
  BY <1>5 DEF Motion!Change, Motion!ServerSaves, Motion!Receipt, Motion!PartFails, Motion!page
<1>6. ASSUME NEW q \in 1..Len(queues),
             \/ Motion!ExportStarts(q) \/ Motion!PriceAnswers(q) \/ Motion!Encode(q) \/ Motion!ExportEnds(q)
      PROVE  FALSE
  BY <1>6 DEF Motion!ExportStarts, Motion!PriceAnswers, Motion!Encode, Motion!ExportEnds, Motion!page
<1>7. ASSUME NEW crash \in BOOLEAN, Motion!Close(crash) PROVE FALSE
  BY <1>7 DEF Motion!Close
<1>8. CASE UNCHANGED motionVars
  BY <1>8 DEF motionVars
<1> QED BY <1>1, <1>2, <1>3, <1>4, <1>5, <1>6, <1>7, <1>8 DEF Motion!Next

\* Of several songs asked for in the studio, only the last one opens, in
\* whatever order the projects arrive (the sequence that load compares).
THEOREM OnlyTheLastOpens == BrowserSpec => OnlyTheLastSongOpens
<1>1. [BrowserNext]_browserVars
      => [selected' # selected /\ selected' # NoSong => selected' = opens[Len(opens)].song]_Motion!vars
  BY BrowserSteps, OnlyTheLastIsSelected
<1> QED BY <1>1, PTL DEF BrowserSpec, browserVars, OnlyTheLastSongOpens, Motion!OnlyTheLastSongOpens
=============================================================================
