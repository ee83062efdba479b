------------------------------ MODULE Timeline ------------------------------
(***************************************************************************)
(* The record the server keeps of a game (contest_timeline_writer), the    *)
(* file it leaves, which a crash cuts anywhere, and the program that plays *)
(* it again (contest_timeline, apps/player).                               *)
(*                                                                         *)
(* The file is its header followed by bytes.  A byte is a pair of nibbles, *)
(* <<low, high>>: the actions of a player of even rank and of the next one *)
(* or, when low is Special, a kick of the player of rank high.             *)
(***************************************************************************)
EXTENDS Contest, SequencesExt

CONSTANTS Order,     \* the players by rank, a sequence without repetition
          Played,    \* the actions that are played, all less than Special
          FileNames,  \* the names the service tries for a file
          MaxTicks   \* bound on the ticks recorded

Special == 15
Header  == "header"
NoFile  == <<>>

VARIABLES contest,  \* the history of the game recorded
          file,     \* the file of the recording
          writing,  \* the writer has the file open
          timeline, \* what has been read from the file, or None
          replica   \* the history of the game played again

timelineVars == <<contest, file, writing, timeline, replica>>

None == [actions |-> <<>>, kicks |-> <<>>, tick |-> -1, remaining |-> 0]

Count == Len(Order)

Rank(p) == CHOOSE i \in 1..Count : Order[i] = p

-----------------------------------------------------------------------------
(* Writing: contest_timeline_writer::push, on the server. *)

\* The nibble of the player of rank i in the tick e.  The action of a player
\* kicked out has been cleared by the tick before, and nothing has set it.
Nibble(e, i) ==
  IF i > Count \/ e[Order[i]] \in {Gone, Kicked} THEN 0 ELSE e[Order[i]]

ActionBytes(e) ==
  [b \in 1..(Count + 1) \div 2 |-> <<Nibble(e, 2 * b - 1), Nibble(e, 2 * b)>>]

\* The registry lists the kicked players in any order.
KickBytes(e) ==
  {[b \in DOMAIN s |-> <<Special, Rank(s[b]) - 1>>]
     : s \in SetToSeqs({p \in Players : e[p] = Kicked})}

WriteHeader == file' = <<Header>> /\ writing' = TRUE

\* The first free name gets the file.  Without one, nothing is recorded.
Open(taken) ==
  /\ file = NoFile /\ contest = <<>>
  /\ taken # FileNames
  /\ WriteHeader
  /\ UNCHANGED <<contest, timeline, replica>>

\* One tick of game::seal_player_actions: the inactive players who still have
\* an entity are kicked, the others act, the tick is written, then simulated.
\* The file is closed with the tick that ends the game.  Somebody is active, the
\* player whose update is handled.
SealTick(kicks, acts) ==
  LET e == [p \in Players |-> IF ~Present(contest, p) THEN Gone
                              ELSE IF p \in kicks THEN Kicked ELSE acts[p]] IN
  /\ writing /\ Len(contest) < MaxTicks
  /\ kicks # Players
  /\ \A p \in kicks : Present(contest, p)
  /\ contest' = Append(contest, e)
  /\ \E k \in KickBytes(e) : file' = file \o ActionBytes(e) \o k
  /\ writing' = (Result(contest') = Running)
  /\ UNCHANGED <<timeline, replica>>

\* The server stops: only the beginning of the file reaches the disk.
Crash(n) ==
  /\ writing
  /\ writing' = FALSE
  /\ file' = SubSeq(file, 1, n)
  /\ UNCHANGED <<contest, timeline, replica>>

-----------------------------------------------------------------------------
(* Reading: load_contest_timeline and contest_timeline::load_tick. *)

Empty == [actions |-> <<>>, kicks |-> <<>>, tick |-> 0, remaining |-> Count]

WithKick(r, rank) == [r EXCEPT !.kicks = Append(@, <<r.tick, rank>>)]

\* A variant of WithActions with a defect: each byte is counted as a tick.
TickPerByte(r, low, high) ==
  LET read == IF r.remaining > 1 THEN <<low, high>> ELSE <<low>>
      left == r.remaining - Len(read)
  IN [r EXCEPT !.actions = @ \o read,
               !.tick = @ + 1,
               !.remaining = IF left = 0 THEN Count ELSE left]

WithActions(r, low, high) ==
  LET read == IF r.remaining > 1 THEN <<low, high>> ELSE <<low>>
      left == r.remaining - Len(read)
  IN [r EXCEPT !.actions = @ \o read,
               !.tick = IF left = 0 THEN @ + 1 ELSE @,
               !.remaining = IF left = 0 THEN Count ELSE left]

ReadByte(r, byte) ==
  IF byte[1] = Special THEN WithKick(r, byte[2]) ELSE WithActions(r, byte[1], byte[2])

\* The version, the fingerprint and the players are read first.
AfterHeader == Tail(file)

Load ==
  /\ ~writing /\ timeline = None
  /\ file # NoFile
  /\ timeline' = FoldLeft(ReadByte, Empty, AfterHeader)
  /\ UNCHANGED <<contest, file, writing, replica>>

\* Only the complete ticks are played.
TickCount == Len(timeline.actions) \div Count

\* Only the first kick read for the tick is applied.
KickedAt(t) ==
  LET kicks == SelectSeq(timeline.kicks, LAMBDA k : k[1] = t)
  IN IF kicks = <<>> THEN {} ELSE {Order[Head(kicks)[2] + 1]}

LoadTick ==
  LET t == Len(replica) IN
  /\ timeline # None /\ t < TickCount
  /\ replica' = Append(replica,
       [p \in Players |-> IF ~Present(replica, p) THEN Gone
                          ELSE IF p \in KickedAt(t) THEN Kicked
                          ELSE timeline.actions[t * Count + Rank(p)]])
  /\ UNCHANGED <<contest, file, writing, timeline>>

-----------------------------------------------------------------------------

TimelineInit ==
  /\ contest = <<>> /\ file = NoFile /\ writing = FALSE
  /\ timeline = None /\ replica = <<>>

TimelineNext ==
  \/ \E taken \in SUBSET FileNames : Open(taken)
  \/ \E kicks \in SUBSET Players, acts \in [Players -> Played] : SealTick(kicks, acts)
  \/ \E n \in 1..Len(file) : Crash(n)
  \/ Load
  \/ LoadTick

TimelineSpec == TimelineInit /\ [][TimelineNext]_timelineVars

-----------------------------------------------------------------------------
(* Properties. *)

\* Those whose kick is read for the tick t of the replay: it has been written
\* after the actions of the tick where they left.
LeftBefore(t) == IF t = 1 THEN {} ELSE {p \in Players : contest[t - 1][p] = Kicked}

\* Those who leave the replay in its tick t.
Leaving(t) == {p \in Players : replica[t][p] = Kicked}

\* Wherever the file is cut, whatever the number of players and the kicks
\* written among the actions, a tick played again applies for each player the
\* action it did.  One who is kicked out does nothing any more: it leaves in the
\* next tick when its kick is the first written of its tick, otherwise its entity
\* stands still until it dies.  Nobody else leaves (load_contest_timeline,
\* load_tick).
ReplayActsAsRecorded ==
  /\ Len(replica) <= Len(contest)
  /\ \A t \in DOMAIN replica :
       LET here == {p \in Players : Present(SubSeq(replica, 1, t - 1), p)} IN
       /\ \A p \in Players :
            contest[t][p] \in Action => replica[t][p] = contest[t][p]
       /\ \A p \in here \ Leaving(t) :
            contest[t][p] \notin Action => replica[t][p] = 0
       /\ IF LeftBefore(t) = {} THEN Leaving(t) = {}
          ELSE \E first \in LeftBefore(t) : Leaving(t) = {first} \cap here

=============================================================================
