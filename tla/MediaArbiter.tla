---------------------------- MODULE MediaArbiter ----------------------------
(***************************************************************************)
(* Who may be heard: the two embedded editors announce play and pause to   *)
(* the page, whose arbiter answers with pause commands.  Announcements and *)
(* commands are messages: a player may have moved on before its command    *)
(* arrives, and the arbiter may act on an announcement that is out of date.*)
(***************************************************************************)
EXTENDS Naturals, Sequences

CONSTANTS
  MaxPlays,  \* bound on the times a player starts
  MaxQueue   \* bound on the messages under way in one direction

Studios == {"lyric", "motion"}
NoOne == "none"

VARIABLES
  playing,   \* the player of each editor sounds
  announced, \* M2V_MEDIA_PLAY and M2V_MEDIA_PAUSE on their way to the page
  commands,  \* M2V_STUDIO_PAUSE on their way to each frame
  holder,    \* activeSource
  shown,     \* the studio on screen, or none of them
  plays      \* times a player has started

vars == <<playing, announced, commands, holder, shown, plays>>

TypeOK ==
  /\ playing \in [Studios -> BOOLEAN]
  /\ announced \in [Studios -> Seq({"play", "pause"})]
  /\ commands \in [Studios -> Nat]
  /\ holder \in Studios \cup {NoOne}
  /\ shown \in Studios \cup {NoOne}
  /\ plays \in Nat

Init ==
  /\ playing = [s \in Studios |-> FALSE]
  /\ announced = [s \in Studios |-> <<>>]
  /\ commands = [s \in Studios |-> 0]
  /\ holder = NoOne /\ shown = NoOne /\ plays = 0

-----------------------------------------------------------------------------
(* The editors.  Only the one on screen has buttons to press.              *)

Announce(s, what) ==
  /\ Len(announced[s]) < MaxQueue
  /\ announced' = [announced EXCEPT ![s] = Append(@, what)]

Play(s) ==
  /\ shown = s /\ ~playing[s] /\ plays < MaxPlays
  /\ playing' = [playing EXCEPT ![s] = TRUE]
  /\ plays' = plays + 1
  /\ Announce(s, "play")
  /\ UNCHANGED <<commands, holder, shown>>

\* The button, or the end of the song.
Stop(s) ==
  /\ playing[s]
  /\ playing' = [playing EXCEPT ![s] = FALSE]
  /\ Announce(s, "pause")
  /\ UNCHANGED <<commands, holder, shown, plays>>

\* Slip: an editor that is not on screen ignores the command.
SilencedOnScreen(s) == [playing EXCEPT ![s] = @ /\ shown # s]
Silenced(s) == [playing EXCEPT ![s] = FALSE]

\* M2V_STUDIO_PAUSE: a player that is silent already announces nothing.
Obey(s) ==
  /\ commands[s] > 0
  /\ commands' = [commands EXCEPT ![s] = @ - 1]
  /\ playing' = Silenced(s)
  /\ IF playing[s] THEN Announce(s, "pause") ELSE UNCHANGED announced
  /\ UNCHANGED <<holder, shown, plays>>

\* The frame is navigated: its player is gone without a word.
Reload(s) ==
  /\ shown = s
  /\ playing' = [playing EXCEPT ![s] = FALSE]
  /\ UNCHANGED <<announced, commands, holder, shown, plays>>

-----------------------------------------------------------------------------
(* The page.                                                               *)

\* requestPlay: the studio that was heard until now is told to pause.
PausePrevious(s) ==
  [e \in Studios |-> IF e = holder /\ e # s THEN commands[e] + 1 ELSE commands[e]]

Within(c) == \A s \in Studios : c[s] <= MaxQueue

\* Slip: any pause frees the audio.
Freed(s) == NoOne
Yields(s) == IF holder = s THEN NoOne ELSE holder

\* _handleMessage.
Hear(s) ==
  /\ announced[s] # <<>>
  /\ announced' = [announced EXCEPT ![s] = Tail(@)]
  /\ IF Head(announced[s]) = "play"
     THEN /\ commands' = PausePrevious(s) /\ Within(commands')
          /\ holder' = s
     ELSE /\ holder' = Yields(s)
          /\ UNCHANGED commands
  /\ UNCHANGED <<playing, shown, plays>>

\* The adapter's pause of the studio that is left, then pauseAll.
PauseAll(S) == [e \in Studios |-> IF e \in S THEN commands[e] + 2 ELSE commands[e] + 1]

\* navigate: leaving a studio, or showing any page that is not one.
Show(next) ==
  /\ next # shown
  /\ IF shown \in Studios \/ next = NoOne
     THEN /\ commands' = PauseAll({shown} \cap Studios) /\ Within(commands')
          /\ holder' = NoOne
     ELSE UNCHANGED <<commands, holder>>
  /\ shown' = next
  /\ UNCHANGED <<playing, announced, plays>>

\* An editor reports a loaded song: everything is paused.
SongChanged ==
  /\ commands' = PauseAll({}) /\ Within(commands')
  /\ holder' = NoOne
  /\ UNCHANGED <<playing, announced, shown, plays>>

Next ==
  \/ \E s \in Studios : Play(s) \/ Stop(s) \/ Obey(s) \/ Reload(s) \/ Hear(s)
  \/ \E s \in Studios \cup {NoOne} : Show(s)
  \/ SongChanged

Spec == Init /\ [][Next]_vars

-----------------------------------------------------------------------------
(* Properties.                                                             *)

Says(s, what) == \E i \in 1..Len(announced[s]) : announced[s][i] = what

\* The arbiter's promise, mutual exclusion across studios: two players are
\* heard at once only while a message that ends it is under way, whatever
\* order announcements and commands arrive in.
OverlapIsBeingEnded ==
  playing["lyric"] /\ playing["motion"]
  => \E s \in Studios : commands[s] > 0 \/ Says(s, "play")

\* A player that is heard is the one the arbiter knows, once its
\* announcements have arrived and no command is on its way to it.
HeardIsKnown ==
  \A s \in Studios :
    playing[s] /\ announced[s] = <<>> /\ commands[s] = 0 => holder = s
=============================================================================
