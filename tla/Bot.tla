-------------------------------- MODULE Bot --------------------------------
(***************************************************************************)
(* The bot (bot.cpp), and the contest where it plays.  Before each tick it *)
(* looks at the contest, keeps or changes its goal, and asks for an action *)
(* as the other players do.  Its maps are sets of cells, in the record     *)
(* called v; its memory is the variable mind.                              *)
(***************************************************************************)
EXTENDS Arena, Navigation

CONSTANTS bot,            \* the player played by the bot
          NearExplosion,
          MaxDistanceToSafety

ASSUME BotConstants ==
  /\ bot \in Players
  /\ NearExplosion \in Nat /\ MaxDistanceToSafety \in Nat

VARIABLE mind

botVars == <<world, result, mind>>

NoGoal == <<>>

Me(w) == w.players[bot]
MyCell(w) == PlayerCell(w, bot)

\* The opponents the bot takes into account: not the ones it does not see.
ValidOpponents(w) ==
  {p \in DOMAIN w.players \ {bot} : Alive(w, p) /\ p \notin DOMAIN w.invisible}

-----------------------------------------------------------------------------
(* What the bot sees.                                                      *)

\* The cells reached by the explosion of a bomb in the cell c; the flames do
\* not go further than the cells of stop.
BlastOf(visible, solid, c, strength, stop) ==
  LET reached(d) ==
        LET at(k) == <<c[1] + k * Delta[d][1], c[2] + k * Delta[d][2]>>
            end == Min({strength} \cup
                       {k - 1 : k \in {k \in 1..strength :
                                         StaticWall(at(k))
                                         \/ at(k) \notin visible}})
            last == Min({end} \cup {k \in 1..end : at(k) \in solid \cup stop})
        IN {at(k) : k \in 1..last}
  IN UNION {reached(d) : d \in Directions}

CrateMap(w, visible) == DOMAIN w.crates \cap visible

SolidMap(w, visible) == SolidCells(w) \cap visible

PowerUpMap(w, visible) == Restrict(w.powerUps, DOMAIN w.powerUps \cap visible)

\* order: the bombs, as they are in their storage.  What explodes in an
\* immediate danger is one too.
DangerMap(w, order, visible) ==
  LET blast(b) == {b.cell} \cup BlastOf(visible, SolidMap(w, visible),
                                        b.cell, b.strength, {})
      bombs == SelectSeq([i \in DOMAIN order |->
                            [cell |-> order[i],
                             strength |-> w.bombs[order[i]].strength]],
                         LAMBDA b : b.cell \in visible)
      drops == LET asked == SelectSeq(Me(w).queue, LAMBDA a : a.action.drop)
               IN [i \in DOMAIN asked |->
                     [cell |-> asked[i].cell, strength |-> Me(w).strength]]
      death == (Cells \ visible) \cup {f.cell : f \in w.flames}
      soon == UNION {blast(b) : b \in {b \in Range(bombs) :
                       w.timer[<<"bomb", b.cell>>] <= NearExplosion}}
      base == death \cup DOMAIN w.blocks \cup soon
  IN [death |-> death,
      immediate |-> FoldLeft(LAMBDA s, b : IF b.cell \in s THEN s \cup blast(b)
                                           ELSE s,
                             base, drops \o bombs),
      danger |-> base \cup UNION {blast(b) : b \in Range(drops \o bombs)}]

VisibilityMap(w) == {c \in Cells : Visible(w.fog[bot], c)}

View(w, order) ==
  LET visible == VisibilityMap(w)
      dangers == DangerMap(w, order, visible)
  IN [visible |-> visible, solid |-> SolidMap(w, visible),
      crates |-> CrateMap(w, visible), powerUps |-> PowerUpMap(w, visible),
      death |-> dangers.death, immediate |-> dangers.immediate,
      danger |-> dangers.danger]

Unknown(v) == Cells \ v.visible

\* The bomb that could be dropped in the cell c burns the first thing met on
\* each side.
Burnt(v, c, strength) ==
  BlastOf(v.visible, v.solid, c, strength, v.crates \cup DOMAIN v.powerUps)

\* What it would burn.  A crate that is already going to burn is a risk for
\* what is inside.  border: the cells that close the area of the bot.
Explosion(w, v, border, c) ==
  LET burnt == Burnt(v, c, Me(w).strength)
      open == burnt \ DOMAIN v.powerUps
      crates == open \cap v.crates \cap border
  IN [crates |-> Cardinality(crates \ v.danger),
      risks |-> Cardinality(crates \cap v.danger),
      powerUps |-> Cardinality(burnt \cap DOMAIN v.powerUps),
      opponents |-> Cardinality({p \in ValidOpponents(w) :
                                   PlayerCell(w, p) \in open})]

-----------------------------------------------------------------------------
(* The goals.                                                              *)

Goal(c) == [target |-> c, drop |-> FALSE, crates |-> 0, powerUp |-> FALSE]

\* The paths from the bot; the cells it does not see are closed.
PathsFrom(w, v) ==
  Paths(fences, SolidCells(w) \cup Unknown(v), MyCell(w),
        [c \in Cells |-> <<0, 0>>])

BorderOf(found) == {c \in Cells : found.distance[c] = Border}

\* The cells from c to the start of its path.
PathBack(previous, c) ==
  LET path[n \in Cells] == IF previous[n] = n THEN <<n>>
                           ELSE <<n>> \o path[previous[n]]
  IN path[c]

PathTo(previous, c) == Reverse(PathBack(previous, c))

SumTo(previous, c, table) ==
  Len(SelectSeq(PathBack(previous, c), LAMBDA n : n \in table))

GoalIsFeasible(w, m, v) ==
  LET next == IF MyCell(w) = m.path[m.step] THEN m.step + 1 ELSE m.step
      open == \/ next > Len(m.path)
              \/ /\ m.path[next] \notin SolidCells(w)
                 /\ Exists(fences, SolidCells(w), m.path[next],
                           MaxDistanceToSafety, v.danger)
      burnt == Burnt(v, m.goal.target, Me(w).strength)
      crates == (burnt \cap v.crates) \ (DOMAIN v.powerUps \cup v.danger)
  IN /\ open
     /\ IF m.goal.powerUp THEN m.goal.target \in DOMAIN v.powerUps
        ELSE m.goal.crates = 0 \/ Cardinality(crates) = m.goal.crates

\* The cells, row by row.
Scan == [i \in 1 .. Width * Height |-> <<(i - 1) % Width, (i - 1) \div Width>>]

\* The nearest cells out of danger.  Among the cells at the same distance, the
\* last danger met in the scan prevails.
SafetyGoals(v, found) ==
  LET visit(s, c) ==
        LET sum == SumTo(found.previous, c, v.immediate) IN
          IF \/ found.distance[c] > s.distance
             \/ found.distance[c] >= Unreachable
             \/ c \in v.danger
          THEN s
          ELSE IF found.distance[c] = s.distance /\ sum = s.sum
          THEN [s EXCEPT !.goals = @ \cup {Goal(c)}]
          ELSE [distance |-> found.distance[c], sum |-> sum, goals |-> {Goal(c)}]
  IN FoldLeft(visit, [distance |-> Unreachable, sum |-> -1, goals |-> {}],
              Scan).goals

\* The goal, or a nearer cell, or a way with less danger.
UpdatedSafetyGoal(m, v, found) ==
  LET target == m.goal.target
      old == [target |-> target, distance |-> found.distance[target],
              sum |-> IF found.distance[target] >= Unreachable
                      THEN Width * Height + 1
                      ELSE SumTo(found.previous, target, v.immediate)]
      visit(s, c) ==
        IF \/ c \in v.danger
           \/ found.distance[c] > s.distance
           \/ found.distance[c] >= Unreachable
        THEN s
        ELSE LET sum == SumTo(found.previous, c, v.immediate) IN
               IF found.distance[c] = s.distance /\ sum >= s.sum THEN s
               ELSE [target |-> c, distance |-> found.distance[c], sum |-> sum]
  IN FoldLeft(visit, old, Scan).target

\* The division of integers, toward zero.
Quotient(a, b) == IF a >= 0 THEN a \div b ELSE -((-a) \div b)

\* What the bot would do in the cell c, and what it is worth.
AnalyzeCell(w, v, found, openArea, c) ==
  LET kind == IF c \in DOMAIN v.powerUps THEN v.powerUps[c] ELSE "none"
      worth == CASE kind \in {"bomb", "flame"} -> 40
                 [] kind = "shield" /\ bot \notin w.shields -> 80
                 [] kind = "invisibility" /\ openArea -> 80
                 [] OTHER -> 0
      uncovered == Cardinality(Around(c) \ v.visible)
      e == Explosion(w, v, BorderOf(found), c)
      clipped == Max({1, Min({found.distance[c], 10})})
  IN [goal |-> [target |-> c,
                drop |-> /\ worth = 0
                         /\ e.crates > 0 \/ e.opponents > 0
                         /\ e.risks = 0,
                crates |-> e.crates, powerUp |-> worth # 0],
      reward |-> Quotient((IF worth # 0 THEN worth ELSE 20 * e.crates)
                          + 10 * uncovered + 50 * e.opponents
                          - 60 * e.powerUps,
                          clipped)
                 - IF c \in v.danger THEN 1000 ELSE 0]

ExplorationGoals(w, v, found) ==
  LET openArea == \E p \in DOMAIN w.players \ {bot} :
                    /\ Alive(w, p)
                    /\ PlayerCell(w, p) \in v.visible
                    /\ found.distance[PlayerCell(w, p)] < Unreachable
      near == {c \in Cells : found.distance[c] < Unreachable}
      ideas == {AnalyzeCell(w, v, found, openArea, c) : c \in near}
  IN {i.goal : i \in {i \in ideas :
                        \A j \in ideas : j.reward <= i.reward}}

\* The nearest opponent the bot sees, the first one of them.
AttackGoals(w, v, found) ==
  LET distance(p) == found.distance[PlayerCell(w, p)]
      seen == {p \in ValidOpponents(w) :
                 PlayerCell(w, p) \in v.visible /\ distance(p) < Unreachable}
      first == {p \in seen : \A q \in seen \ {p} :
                  \/ distance(p) < distance(q)
                  \/ distance(p) = distance(q) /\ p < q}
  IN {[Goal(PlayerCell(w, p)) EXCEPT !.drop = TRUE] : p \in first}

Goals(w, m, v, found) ==
  IF m.state = "reach_for_safety" THEN SafetyGoals(v, found)
  ELSE IF v.crates # {} \/ Unknown(v) # {} THEN ExplorationGoals(w, v, found)
  ELSE AttackGoals(w, v, found)

-----------------------------------------------------------------------------
(* The actions.                                                            *)

\* Where the bot will be once it has done what it has asked for.
FinalCell(w) ==
  CellOf(FoldLeft(LAMBDA pos, a :
                    IF a.action.movement = "idle" THEN pos
                    ELSE Moved(pos, a.action.movement, fences, SolidCells(w)),
                  Me(w).position, Me(w).queue))

SafeNow(w, v) ==
  Exists(fences, SolidCells(w), FinalCell(w), MaxDistanceToSafety, v.danger)

\* Is there a safe place once the bot has dropped a bomb, its opponents too?
SafePlace(w, v) ==
  LET blast(c, strength) ==
        {c} \cup BlastOf(v.visible, v.solid, c, strength, {})
      danger == v.danger \cup blast(MyCell(w), Me(w).strength)
                \cup UNION {blast(PlayerCell(w, p), w.players[p].strength) :
                              p \in ValidOpponents(w)}
  IN Exists(fences, SolidCells(w), FinalCell(w), MaxDistanceToSafety, danger)

\* A bomb on the way, if there is one left for the target.
GoodPlaceToDropABomb(w, m, v) ==
  LET final == FinalCell(w)
      target == m.goal.target
      e == Explosion(w, v, m.border, final)
  IN /\ Me(w).available > IF m.goal.drop THEN 1 ELSE 0
     /\ \A a \in 1..2 : final[a] = target[a] =>
          Apart(final[3 - a], target[3 - a]) > Me(w).strength
     /\ e.powerUps = 0 /\ e.risks = 0
     /\ e.crates > 0 \/ e.opponents > 0
     /\ SafePlace(w, v)

Toward(from, to) ==
  [movement |-> CASE from[1] < to[1] -> "right"
                  [] from[1] > to[1] -> "left"
                  [] from[2] < to[2] -> "down"
                  [] from[2] > to[2] -> "up"
                  [] OTHER -> "idle",
   drop |-> FALSE]

Drop == [Idle EXCEPT !.drop = TRUE]

Aimless(m) == [m EXCEPT !.goal = NoGoal, !.path = <<>>, !.step = 1,
                        !.border = {}]

Thought(m, action) == [mind |-> m, action |-> action]

ActionTowardGoal(w, m, v) ==
  LET cell == MyCell(w)
      risky(from, to) == \/ to \in v.death
                         \/ from \notin v.immediate /\ to \in v.immediate
      further == [m EXCEPT !.step = @ + 1]
      canDrop == Me(w).available > 0
  IN IF risky(cell, m.path[m.step]) THEN Thought(m, Idle)
     ELSE IF cell # m.path[m.step]
     THEN Thought(m, Toward(cell, m.path[m.step]))
     ELSE IF m.step < Len(m.path)
     THEN IF risky(cell, m.path[m.step + 1]) THEN Thought(m, Idle)
          ELSE IF m.state # "reach_for_safety"
                  /\ GoodPlaceToDropABomb(w, m, v)
          THEN Thought(further, Drop)
          ELSE Thought(further, Toward(cell, m.path[m.step + 1]))
     ELSE IF ~m.goal.drop THEN Thought(Aimless(m), Idle)
     ELSE IF canDrop /\ SafePlace(w, v) THEN Thought(Aimless(m), Drop)
     ELSE IF ~canDrop /\ cell \notin v.danger THEN Thought(m, Idle)
     ELSE Thought(Aimless(m), Idle)

\* The state follows the danger where the bot is.
Alerted(w, m, v) ==
  IF m.state = "conquer" /\ MyCell(w) \in v.immediate
  THEN [Aimless(m) EXCEPT !.state = "reach_for_safety"]
  ELSE IF m.state = "reach_for_safety" /\ MyCell(w) \notin v.immediate
  THEN [Aimless(m) EXCEPT !.state = "conquer"]
  ELSE m

Pursuing(m, goal, found) ==
  [m EXCEPT !.goal = goal, !.path = PathTo(found.previous, goal.target),
            !.step = 1, !.border = BorderOf(found)]

\* What the bot may think, a thought for each choice among equal goals.
Decisions(w, m, v) ==
  LET found == PathsFrom(w, v)
      alerted == Alerted(w, m, v)
      safer == IF alerted.state = "reach_for_safety" /\ alerted.goal # NoGoal
               THEN UpdatedSafetyGoal(alerted, v, found) ELSE <<>>
      goals == Goals(w, alerted, v, found)
      next(n) == ActionTowardGoal(w, n, v)
  IN IF alerted.goal # NoGoal /\ safer # <<>> /\ safer # alerted.goal.target
     THEN {next(Pursuing(alerted, [alerted.goal EXCEPT !.target = safer],
                         found))}
     ELSE IF alerted.goal # NoGoal /\ GoalIsFeasible(w, alerted, v)
     THEN {next(alerted)}
     ELSE IF goals = {} THEN {Thought(Aimless(alerted), Idle)}
     ELSE {next(Pursuing(alerted, g, found)) : g \in goals}

Think(w, m) ==
  LET woken == IF m.state = "start" THEN [m EXCEPT !.state = "conquer"] ELSE m
  IN IF m.state = "start" /\ w.date <= StartDelay THEN {Thought(m, Idle)}
     ELSE IF ~Alive(w, bot) THEN {Thought(woken, Idle)}
     ELSE UNION {Decisions(w, woken, View(w, order)) :
                   order \in SetToSeqs(DOMAIN w.bombs)}

-----------------------------------------------------------------------------

BotInit ==
  /\ Init
  /\ mind = [state |-> "start", goal |-> NoGoal, path |-> <<>>, step |-> 1,
             border |-> {}]

BotTick ==
  /\ result = Running
  /\ \E thought \in Think(world, mind), actions \in Requests :
       /\ mind' = thought.mind
       /\ Ticked(Over(Only(bot, thought.action), actions))

BotSpec == BotInit /\ [][BotTick]_botVars

-----------------------------------------------------------------------------

\* What no bomb reaches when it explodes.
OutOfReach(w) ==
  LET solid == SolidCells(w) IN
    Cells \ UNION {{c} \cup BlastOf(Cells, solid, c, w.bombs[c].strength, {}) :
                     c \in DOMAIN w.bombs}

\* When a bomb of the bot appears, some time after the decision to drop it,
\* the bot can still go where no bomb explodes, as long as its opponent does
\* nothing and nothing falls.
WayOut ==
  [][\A c \in DOMAIN world'.bombs \ DOMAIN world.bombs :
       world'.bombs[c].owner = bot /\ bot \in DOMAIN world'.players =>
         Closure(fences, SolidCells(world)', MyCell(world)')
           \cap OutOfReach(world)' # {}]_botVars

\* The fog of a player goes on in the cells where it is, and only there, after
\* it has been blown away and has come back.
FogEdgesAgree == \A p \in Players : FogEdges(world.fog[p])

=============================================================================
