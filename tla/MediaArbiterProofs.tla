------------------------- MODULE MediaArbiterProofs -------------------------
(***************************************************************************)
(* Theorems about MediaArbiter, for any number of plays and messages.      *)
(***************************************************************************)
EXTENDS MediaArbiter, SequenceTheorems, TLAPS

\* A player that sounds has said so last: its pauses come with its silence.
LastSaysPlay(s) ==
  playing[s] /\ announced[s] # <<>> => announced[s][Len(announced[s])] = "play"

\* HeardIsKnown is inductive with what the last announcement says.
IInv == TypeOK /\ HeardIsKnown /\ \A s \in Studios : LastSaysPlay(s)

\* Every studio gets a command, so nothing is said of any of them.
LEMMA AllTold ==
  ASSUME TypeOK, NEW S \in SUBSET Studios, NEW s \in Studios
  PROVE  PauseAll(S)[s] \in Nat /\ PauseAll(S)[s] > 0
  BY DEF TypeOK, PauseAll

\* The announcements that are left still end as they did.
LEMMA TailEndsAlike ==
  ASSUME NEW q \in Seq({"play", "pause"}), q # <<>>
  PROVE  /\ Tail(q) \in Seq({"play", "pause"}) /\ Head(q) \in {"play", "pause"}
         /\ Tail(q) # <<>> => Tail(q)[Len(Tail(q))] = q[Len(q)]
         /\ Tail(q) = <<>> => q[Len(q)] = Head(q)
  <1>1. /\ Head(q) \in {"play", "pause"} /\ Tail(q) \in Seq({"play", "pause"})
        /\ Len(Tail(q)) = Len(q) - 1
        /\ \A i \in 1..Len(Tail(q)) : Tail(q)[i] = q[i + 1]
    BY HeadTailProperties
  <1>2. Len(q) \in Nat /\ Len(q) > 0 /\ Head(q) = q[1]
    OBVIOUS
  <1>3. ASSUME Tail(q) # <<>> PROVE Tail(q)[Len(Tail(q))] = q[Len(q)]
    <2>1. Len(Tail(q)) > 0
      BY <1>1, <1>3
    <2> QED BY <1>1, <1>2, <2>1
  <1>4. ASSUME Tail(q) = <<>> PROVE q[Len(q)] = Head(q)
    <2> DEFINE r == Tail(q)
    <2>1. r = <<>> /\ Len(r) = Len(q) - 1
      BY <1>1, <1>4
    <2> HIDE DEF r
    <2>2. Len(q) = 1
      BY <1>2, <2>1
    <2> QED BY <1>2, <2>2
  <1> QED BY <1>1, <1>3, <1>4

\* What an editor does leaves the page alone; it is heard only with a "play"
\* on its way.
LEMMA EditorKeeps ==
  ASSUME IInv, NEW s \in Studios, Play(s) \/ Stop(s) \/ Obey(s) \/ Reload(s)
  PROVE  IInv'
  <1> USE DEF IInv
  <1>1. TypeOK'
    <2>1. CASE Play(s)
      BY <2>1 DEF TypeOK, Play, Announce
    <2>2. CASE Stop(s)
      BY <2>2 DEF TypeOK, Stop, Announce
    <2>3. CASE Obey(s)
      <3>1. commands' \in [Studios -> Nat]
        BY <2>3 DEF TypeOK, Obey
      <3>2. announced' \in [Studios -> Seq({"play", "pause"})]
        <4>1. CASE playing[s]
          <5>1. announced' = [announced EXCEPT ![s] = Append(announced[s], "pause")]
            BY <2>3, <4>1 DEF Obey, Announce
          <5>2. Append(announced[s], "pause") \in Seq({"play", "pause"})
            BY DEF TypeOK
          <5> QED BY <5>1, <5>2 DEF TypeOK
        <4>2. CASE ~playing[s]
          BY <2>3, <4>2 DEF TypeOK, Obey
        <4> QED BY <4>1, <4>2
      <3>3. playing' \in [Studios -> BOOLEAN]
        BY <2>3 DEF TypeOK, Obey, Silenced
      <3>4. UNCHANGED <<holder, shown, plays>>
        BY <2>3 DEF Obey
      <3> QED BY <3>1, <3>2, <3>3, <3>4 DEF TypeOK
    <2>4. CASE Reload(s)
      BY <2>4 DEF TypeOK, Reload
    <2> QED BY <2>1, <2>2, <2>3, <2>4
  <1>2. ASSUME NEW e \in Studios, e # s
        PROVE  /\ playing'[e] = playing[e] /\ announced'[e] = announced[e]
               /\ commands'[e] = commands[e] /\ holder' = holder
    BY <1>2 DEF TypeOK, Play, Stop, Obey, Reload, Announce, Silenced
  <1>3. playing'[s] => announced'[s] = Append(announced[s], "play")
    BY DEF TypeOK, Play, Stop, Obey, Reload, Announce, Silenced
  <1>4. playing'[s] => announced'[s] # <<>> /\ announced'[s][Len(announced'[s])] = "play"
    BY <1>3 DEF TypeOK
  <1>5. HeardIsKnown'
    BY <1>2, <1>4 DEF HeardIsKnown
  <1>6. \A e \in Studios : LastSaysPlay(e)'
    BY <1>2, <1>4 DEF LastSaysPlay
  <1> QED BY <1>1, <1>5, <1>6

\* The page takes an announcement: the studio that was heard is told to pause,
\* and a pause only frees the audio of its own studio.
LEMMA HearKeeps ==
  ASSUME IInv, NEW s \in Studios, Hear(s)
  PROVE  IInv'
  <1> USE DEF IInv
  <1> DEFINE q == announced[s]
  <1>1. q \in Seq({"play", "pause"}) /\ q # <<>>
    BY DEF TypeOK, Hear
  <1>2. /\ announced' = [announced EXCEPT ![s] = Tail(announced[s])]
        /\ playing' = playing /\ shown' = shown /\ plays' = plays
    BY DEF Hear
  <1>3. /\ announced'[s] = Tail(q)
        /\ \A e \in Studios : e # s => announced'[e] = announced[e]
    BY <1>2 DEF TypeOK
  <1>4. commands' \in [Studios -> Nat]
    <2>1. PausePrevious(s) \in [Studios -> Nat]
      BY DEF TypeOK, PausePrevious
    <2> QED BY <2>1 DEF TypeOK, Hear
  <1>5. TypeOK'
    BY <1>1, <1>2, <1>4, TailEndsAlike DEF TypeOK, Hear, Yields
  <1> HIDE DEF q
  <1>6. \A e \in Studios : LastSaysPlay(e)'
    BY <1>1, <1>2, <1>3, TailEndsAlike DEF LastSaysPlay, q
  <1>7. ASSUME NEW e \in Studios, playing'[e], announced'[e] = <<>>, commands'[e] = 0
        PROVE  holder' = e
    <2>1. CASE e = s
      <3>1. Head(q) = "play"
        BY <1>1, <1>2, <1>3, <1>7, <2>1, TailEndsAlike DEF LastSaysPlay, q
      <3> QED BY <2>1, <3>1 DEF Hear, q
    <2>2. CASE e # s
      <3>1. commands[e] = 0 /\ (Head(q) = "play" => e # holder)
        BY <1>7, <2>2 DEF Hear, PausePrevious, TypeOK, q
      <3>2. holder = e
        BY <1>2, <1>3, <1>7, <2>2, <3>1 DEF HeardIsKnown
      <3> QED BY <2>2, <3>1, <3>2 DEF Hear, Yields, q
    <2> QED BY <2>1, <2>2
  <1> QED BY <1>5, <1>6, <1>7 DEF HeardIsKnown

\* The page moves on: either everybody is told to pause, or nothing changes.
LEMMA PageKeeps ==
  ASSUME IInv, SongChanged \/ \E next \in Studios \cup {NoOne} : Show(next)
  PROVE  IInv'
  <1> USE DEF IInv
  <1>1. UNCHANGED <<playing, announced>>
    BY DEF SongChanged, Show
  <1>2. \/ \E S \in SUBSET Studios : commands' = PauseAll(S)
        \/ UNCHANGED <<commands, holder>>
    <2>1. CASE SongChanged
      BY <2>1 DEF SongChanged
    <2>2. ASSUME NEW next \in Studios \cup {NoOne}, Show(next)
          PROVE  \/ \E S \in SUBSET Studios : commands' = PauseAll(S)
                 \/ UNCHANGED <<commands, holder>>
      <3>1. {shown} \cap Studios \in SUBSET Studios
        OBVIOUS
      <3> QED BY <2>2, <3>1 DEF Show
    <2> QED BY <2>1, <2>2
  <1>3. commands' \in [Studios -> Nat]
    <2>1. \A S \in SUBSET Studios : PauseAll(S) \in [Studios -> Nat]
      BY DEF TypeOK, PauseAll
    <2> QED BY <1>2, <2>1 DEF TypeOK
  <1>4. TypeOK'
    BY <1>1, <1>3 DEF TypeOK, SongChanged, Show
  <1>5. HeardIsKnown'
    <2>1. ASSUME NEW S \in SUBSET Studios, commands' = PauseAll(S) PROVE HeardIsKnown'
      <3>1. \A s \in Studios : commands'[s] \in Nat /\ commands'[s] > 0
        BY <2>1, AllTold
      <3> QED BY <3>1 DEF HeardIsKnown
    <2>2. CASE UNCHANGED <<commands, holder>>
      BY <1>1, <2>2 DEF HeardIsKnown
    <2> QED BY <1>2, <2>1, <2>2
  <1>6. \A s \in Studios : LastSaysPlay(s)'
    BY <1>1 DEF LastSaysPlay
  <1> QED BY <1>4, <1>5, <1>6

LEMMA SoundStarts == Init => IInv
  BY DEF Init, IInv, TypeOK, HeardIsKnown, LastSaysPlay

LEMMA SoundGoesOn == IInv /\ [Next]_vars => IInv'
  <1> SUFFICES ASSUME IInv, [Next]_vars PROVE IInv'
    OBVIOUS
  <1>1. CASE UNCHANGED vars
    BY <1>1 DEF vars, IInv, TypeOK, HeardIsKnown, LastSaysPlay
  <1> QED BY <1>1, EditorKeeps, HearKeeps, PageKeeps DEF Next

LEMMA Invariance == Spec => []IInv
  BY SoundStarts, SoundGoesOn, PTL DEF Spec

-----------------------------------------------------------------------------
\* A player that sounds is the one the arbiter knows, as soon as nothing is on
\* its way between them.
THEOREM HeardIsAlwaysKnown == Spec => []HeardIsKnown
  BY Invariance, PTL DEF IInv

\* Two players never sound together but for a message already under way: both
\* would be the one the arbiter knows.
THEOREM OverlapsEnd == Spec => []OverlapIsBeingEnded
  <1>1. IInv => OverlapIsBeingEnded
    <2> SUFFICES ASSUME IInv, playing["lyric"], playing["motion"],
                        \A s \in Studios : ~(commands[s] > 0) /\ ~Says(s, "play")
                 PROVE  FALSE
      BY DEF OverlapIsBeingEnded
    <2>1. ASSUME NEW s \in Studios, playing[s] PROVE holder = s
      <3>1. commands[s] = 0
        BY DEF IInv, TypeOK
      <3>2. announced[s] = <<>>
        <4>1. announced[s] \in Seq({"play", "pause"})
          BY DEF IInv, TypeOK
        <4>2. announced[s] # <<>> => Len(announced[s]) \in 1..Len(announced[s])
          BY <4>1
        <4>3. announced[s] # <<>> => announced[s][Len(announced[s])] = "play"
          BY <2>1 DEF IInv, LastSaysPlay
        <4> QED BY <4>2, <4>3 DEF Says
      <3> QED BY <2>1, <3>1, <3>2 DEF IInv, HeardIsKnown
    <2> QED BY <2>1 DEF Studios
  <1> QED BY <1>1, Invariance, PTL
=============================================================================
