---------------------------- MODULE WaitMessage ----------------------------
(***************************************************************************)
(* The messages which help the player to wait for the others               *)
(* (matchmaking_wait_message.cpp): scripts of some lines, one after the    *)
(* other, with the default script, which is the first one, in between.     *)
(***************************************************************************)
EXTENDS Integers, Sequences, FiniteSets

CONSTANTS Files,         \* bound: the numbers of lines of the files, in order
          DefaultLines,  \* of "Please wait..."
          DefaultLoops   \* of the default script

VARIABLES state,      \* m_monitor
          scripts,    \* the numbers of lines of m_scripts
          current, line, nextScript, loops,
          announced,  \* the delayed call of start is scheduled
          ticking,    \* the delayed call of tick is scheduled
          displayed,  \* the script and the line of the last update
          turn        \* history: the scripts displayed since the first one

waitMessageVars == <<state, scripts, current, line, nextScript, loops,
                     announced, ticking, displayed, turn>>

Nothing == <<0, 0>>

\* Files stop at the first one which is missing; empty ones are ignored.
WaitMessageInit ==
  /\ \E files \in Files :
       scripts = <<DefaultLines>> \o SelectSeq(files, LAMBDA n : n > 0)
  /\ state = "stopped"
  /\ current = 1 /\ line = 1 /\ nextScript = 0 /\ loops = 0
  /\ announced = FALSE /\ ticking = FALSE
  /\ displayed = Nothing
  /\ turn = <<>>

Shuffled(s) ==
  {[i \in DOMAIN s |-> s[p[i]]] :
     p \in {p \in [DOMAIN s -> DOMAIN s] :
              p[1] = 1 /\ \A i, j \in DOMAIN s : p[i] = p[j] => i = j}}

StartDefaultScript == current' = 1 /\ line' = 1 /\ loops' = DefaultLoops

StartMessages ==
  /\ state # "started"
  /\ state' = "started"
  /\ announced' = TRUE
  /\ IF state = "stopped"
     THEN /\ scripts' \in Shuffled(scripts)
          /\ StartDefaultScript
          /\ nextScript' = 2
          /\ turn' = <<>>
     ELSE UNCHANGED <<scripts, current, line, loops, nextScript, turn>>
  /\ UNCHANGED <<ticking, displayed>>

\* The delayed call, of start or of tick, is disconnected.
Interrupted(from, to) ==
  /\ state \in from
  /\ state' = to
  /\ announced' = FALSE
  /\ ticking' = FALSE
  /\ UNCHANGED <<scripts, current, line, nextScript, loops, displayed, turn>>

PauseMessages == Interrupted({"started"}, "paused")

StopMessages == Interrupted({"started", "paused"}, "stopped")

Displays(script, l) ==
  /\ displayed' = <<script, l>>
  /\ turn' = IF l = 1 /\ script # 1 /\ displayed # <<script, l>>
             THEN Append(IF Len(turn) = Len(scripts) - 1 THEN <<>> ELSE turn,
                         script)
             ELSE turn

ScheduleTick == ticking' = TRUE

Announce ==
  /\ announced
  /\ announced' = FALSE
  /\ ScheduleTick
  /\ Displays(current, line)
  /\ UNCHANGED <<state, scripts, current, line, nextScript, loops>>

\* All the scripts are displayed but the last one.
BeforeTheLast == nextScript = Len(scripts)

AllDisplayed == nextScript = Len(scripts) + 1

NextScript ==
  IF current # 1
  THEN StartDefaultScript /\ nextScript' = nextScript + 1
  ELSE IF loops > 1
  THEN line' = 1 /\ loops' = loops - 1 /\ UNCHANGED <<current, nextScript>>
  ELSE IF AllDisplayed
  THEN StartDefaultScript /\ nextScript' = 2
  ELSE current' = nextScript /\ line' = 1 /\ loops' = 0 /\ UNCHANGED nextScript

MessageTick ==
  /\ ticking
  /\ IF line = scripts[current]
     THEN NextScript
     ELSE line' = line + 1 /\ UNCHANGED <<current, nextScript, loops>>
  /\ Displays(current', line')
  /\ ScheduleTick
  /\ UNCHANGED <<state, scripts, announced>>

WaitMessageNext ==
  \/ StartMessages \/ PauseMessages \/ StopMessages \/ Announce \/ MessageTick

WaitMessageSpec == WaitMessageInit /\ [][WaitMessageNext]_waitMessageVars

-----------------------------------------------------------------------------

\* However the messages are paused, stopped and started again, there is always
\* a line to display, and the scripts are displayed in turn: none of them comes
\* back before all the others.
ScriptsTakeTurns ==
  /\ current \in DOMAIN scripts
  /\ line \in 1 .. scripts[current]
  /\ turn = [i \in 1 .. Len(turn) |-> i + 1]

=============================================================================
