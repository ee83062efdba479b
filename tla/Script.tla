------------------------------- MODULE Script -------------------------------
(***************************************************************************)
(* The director of the scripts which drive the application in place of a   *)
(* player, for the captures of the store (script_director.cpp).  An action *)
(* of a script is a record of its members.  The application tells what     *)
(* happens by events.                                                      *)
(***************************************************************************)
EXTENDS Integers, Sequences, SequencesExt

CONSTANTS Scripts,       \* bound: the scripts, sequences of actions
          Events,        \* the names of the events of the application
          IndexModulus   \* of the index of a step, 2^8 in the code

VARIABLES script,    \* the content of the file: whether it is a script, its actions
          steps,     \* m_steps
          targets,   \* the nodes, the events and the files, by kind of step
          nextStep, pending,
          ticking, waiting,  \* the next tick or the timeout is scheduled
          failing,   \* the failure is scheduled
          outcome,   \* what m_done was called with, or None
          played     \* the history of the actions done

scriptVars == <<script, steps, targets, nextStep, pending, ticking, waiting,
                failing, outcome, played>>

None == "none"
NoEvent == ""
NotLoaded == [file |-> None, actions |-> <<>>]
Broken == [file |-> "broken", actions |-> <<>>]
StepKinds == {"wait", "click", "swipe", "capture"}

MembersOf == [wait |-> {"event"}, click |-> {"node"},
              swipe |-> {"from", "to"}, capture |-> {"file"}]

\* The actions of unknown kind or without a mandatory member are ignored.
IsStep(action) ==
  /\ "kind" \in DOMAIN action
  /\ action.kind \in StepKinds
  /\ MembersOf[action.kind] \subseteq DOMAIN action

EventOf(action) == IF "event" \in DOMAIN action THEN action.event ELSE NoEvent

\* Two targets for a swipe.
TargetsOf(action) ==
  CASE action.kind = "wait" -> <<action.event>>
    [] action.kind = "click" -> <<[node |-> action.node,
                                   event |-> EventOf(action)]>>
    [] action.kind = "swipe" -> <<action.from, action.to>>
    [] action.kind = "capture" -> <<action.file>>

\* The second target of a swipe is counted as the first one of the next one.
OnePerStep(parsed, kind) ==
  Len(SelectSeq(parsed.steps, LAMBDA s : s.kind = kind)) % IndexModulus

IndexOf(parsed, kind) == Len(parsed.targets[kind]) % IndexModulus

Parsed(actions) ==
  FoldLeft(LAMBDA parsed, a :
             [steps |-> Append(parsed.steps,
                               [kind |-> a.kind,
                                index |-> IndexOf(parsed, a.kind)]),
              targets |-> [parsed.targets EXCEPT ![a.kind] =
                             @ \o TargetsOf(a)]],
           [steps |-> <<>>, targets |-> [k \in StepKinds |-> <<>>]],
           SelectSeq(actions, IsStep))

-----------------------------------------------------------------------------

ScriptInit ==
  /\ script = NotLoaded
  /\ steps = <<>>
  /\ targets = [k \in StepKinds |-> <<>>]
  /\ nextStep = 1
  /\ pending = NoEvent
  /\ ticking = FALSE
  /\ waiting = FALSE
  /\ failing = FALSE
  /\ outcome = None
  /\ played = <<>>

Running == script # NotLoaded /\ outcome = None

Load(s) ==
  /\ script = NotLoaded
  /\ script' = s
  /\ failing' = (s = Broken)
  /\ ticking' = (s # Broken)
  /\ LET parsed == Parsed(s.actions) IN
       /\ steps' = parsed.steps
       /\ targets' = parsed.targets
  /\ UNCHANGED <<nextStep, pending, waiting, outcome, played>>

Fail ==
  /\ Running
  /\ failing
  /\ outcome' = "fail"
  /\ failing' = FALSE
  /\ UNCHANGED <<script, steps, targets, nextStep, pending, ticking, waiting,
                 played>>

Step == steps[nextStep]
Target(n) == targets[Step.kind][Step.index + n]

ScheduleTick == ticking' = TRUE

EndOfScript ==
  /\ nextStep > Len(steps)
  /\ outcome' = "ok"
  /\ ticking' = FALSE
  /\ UNCHANGED <<nextStep, pending, waiting, played>>

Goes(name, what) ==
  /\ nextStep <= Len(steps)
  /\ Step.kind = name
  /\ nextStep' = nextStep + 1
  /\ played' = Append(played, what)

\* There is a tick at the end of the frame, once the capture is done.
Capture ==
  /\ Goes("capture", [kind |-> "capture", file |-> Target(1)])
  /\ UNCHANGED <<pending, ticking, waiting, outcome>>

\* The events of the click itself come before the one to wait for is known.
Click(found) ==
  /\ Goes("click", [kind |-> "click", node |-> Target(1).node])
  /\ pending' = Target(1).event
  /\ ticking' = (Target(1).event = NoEvent /\ found)
  /\ waiting' = (Target(1).event # NoEvent /\ found)
  /\ outcome' = IF found THEN None ELSE "fail"

\* When a node is missing the listener of m_done destroys the director before
\* the end of the function.
Swipe(found) ==
  /\ Goes("swipe", [kind |-> "swipe", from |-> Target(1), to |-> Target(2)])
  /\ ticking' = found
  /\ outcome' = IF found THEN None ELSE "fail"
  /\ UNCHANGED <<pending, waiting>>

Wait ==
  /\ Goes("wait", [kind |-> "wait", event |-> Target(1)])
  /\ pending' = Target(1)
  /\ ticking' = FALSE
  /\ waiting' = TRUE
  /\ UNCHANGED outcome

ScriptTick ==
  /\ Running
  /\ ticking
  /\ \/ EndOfScript
     \/ Capture
     \/ \E found \in BOOLEAN : Click(found) \/ Swipe(found)
     \/ Wait
  /\ UNCHANGED <<script, steps, targets, failing>>

CheckEvent(name) ==
  /\ Running
  /\ name = pending
  /\ pending' = NoEvent
  /\ waiting' = FALSE
  /\ ScheduleTick
  /\ UNCHANGED <<script, steps, targets, nextStep, failing, outcome, played>>

Timeout ==
  /\ Running
  /\ waiting
  /\ waiting' = FALSE
  /\ outcome' = "fail"
  /\ UNCHANGED <<script, steps, targets, nextStep, pending, ticking, failing,
                 played>>

ScriptNext ==
  \/ Load(Broken)
  \/ \E s \in Scripts : Load([file |-> "script", actions |-> s])
  \/ Fail
  \/ ScriptTick
  \/ \E name \in Events : CheckEvent(name)
  \/ Timeout

ScriptSpec == ScriptInit /\ [][ScriptNext]_scriptVars

-----------------------------------------------------------------------------

\* What the director does for an action of the script.
Deed(a) ==
  CASE a.kind = "click" -> [kind |-> "click", node |-> a.node]
    [] a.kind = "swipe" -> [kind |-> "swipe", from |-> a.from, to |-> a.to]
    [] a.kind = "capture" -> [kind |-> "capture", file |-> a.file]
    [] a.kind = "wait" -> [kind |-> "wait", event |-> a.event]

\* The director does the actions of the script, in their order, each one with
\* its own node, event or file; it only says that all is well at the end of
\* the script; until it has said something it waits for exactly one thing, a
\* tick or the timeout, so that the tests never wait for it for ever.
ScriptIsFollowed ==
  script \notin {NotLoaded, Broken} =>
    LET done == SelectSeq(script.actions, IsStep)
        deeds == [i \in DOMAIN done |-> Deed(done[i])]
    IN /\ IsPrefix(played, deeds)
       /\ outcome = "ok" => played = deeds
       /\ outcome = None => ticking # waiting
=============================================================================
