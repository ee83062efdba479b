------------------------------ MODULE Messages ------------------------------
(***************************************************************************)
(* The datagrams of src/modules/bim/net: how a message becomes bytes, what *)
(* may happen to the bytes, what the receiver makes of them.  A message is *)
(* a type, the values of its fixed fields, a text for the types which have *)
(* one, the lists of actions of the game updates.  The values are below    *)
(* 256: an integer on w bytes is w - 1 null bytes and its value.  An       *)
(* action is the four bits written for it.                                 *)
(***************************************************************************)
EXTENDS Integers, Sequences, SequencesExt

CONSTANTS SizeModulus,  \* of the size of a list, 2^8 in the code
          Sendable,     \* bound: the messages sent
          Altered,      \* bound: what an altered byte becomes
          Garbage       \* the possible values of what was never assigned

VARIABLES sent,     \* the message, or Nothing
          wire,     \* its content
          fate,     \* what happened to the content
          received  \* the message read, Refused or Nothing

messagesVars == <<sent, wire, fate, received>>

Nothing == [type |-> "nothing"]
Refused == [type |-> "refused"]

-----------------------------------------------------------------------------
(* The formats: the widths of the fields.                                  *)

version == 4
client_token == 8
encounter_id == 8
feature_flags == 4
game_name == 16
session_id == 8
channel_id == 2

authentication == <<version, client_token>>     \* then the session token
authentication_ok == <<client_token, session_id>>
authentication_ko == <<client_token, 1>>
keep_alive == <<>>
acknowledge_keep_alive == <<>>
hello == <<client_token>>
new_named_game_request == <<client_token, feature_flags, game_name>>
new_random_game_request == <<client_token, feature_flags>>
game_on_hold == <<client_token, encounter_id, 1>>
accept_named_game == <<client_token, encounter_id>>
accept_random_game == <<client_token, encounter_id>>
ready == <<>>
start == <<>>
game_over == <<1, 2>>

Raw ==
  [authentication |-> authentication, authentication_ok |-> authentication_ok,
   authentication_ko |-> authentication_ko, keep_alive |-> keep_alive,
   acknowledge_keep_alive |-> acknowledge_keep_alive, hello |-> hello,
   new_named_game_request |-> new_named_game_request,
   new_random_game_request |-> new_random_game_request,
   game_on_hold |-> game_on_hold, accept_named_game |-> accept_named_game,
   accept_random_game |-> accept_random_game, ready |-> ready,
   start |-> start, game_over |-> game_over]

\* hello_ok: the values of the records come after these ones.
hello_ok == <<client_token, version>>
hello_record_id == 0 .. 7
NameRecord == 8

launch_game == <<client_token, 8, channel_id, feature_flags>>
game_update_from_client == <<4, 4, 4, 1>>
game_update_from_server == <<4, 4, 1>>

MaxMovement == 4
Movement(action) == action % 8

-----------------------------------------------------------------------------
(* Writing.                                                                *)

Bytes(v, w) == [i \in 1..w |-> IF i = w THEN v ELSE 0]

Written(widths, values) ==
  FlattenSeq([i \in 1..Len(widths) |-> Bytes(values[i], widths[i])])

\* Two actions per byte, the last byte is padded.
WriteActions(lists) ==
  LET all == FlattenSeq(lists)
      bits(i) == IF i > Len(all) THEN 0 ELSE all[i]
  IN [b \in 1 .. ((Len(all) + 1) \div 2) |-> bits(2 * b - 1) + 16 * bits(2 * b)]

WriteVector(text) == Bytes(Len(text), 4) \o text

BuildRaw(m) ==
  Written(Raw[m.type], m.values)
  \o (IF m.type = "authentication" THEN WriteVector(m.text) ELSE <<>>)

\* later: the records that this version does not know, after the first ones.
BuildHelloOk(m, later, at) ==
  LET record(id) ==
        IF id = NameRecord THEN <<id, Len(m.text)>> \o m.text
        ELSE <<id, 4>> \o Bytes(m.values[id + 3], 4)
      records == [i \in 1..9 |-> record(i - 1)]
  IN Written(hello_ok, m.values)
     \o FlattenSeq(SubSeq(records, 1, at) \o later \o SubSeq(records, at + 1, 9))

BuildLaunchGame(m) ==
  Written(launch_game, m.values)
  \o << (m.values[5] - 1) + 4 * m.values[6] >>
  \o SubSeq(m.values, 7, 9)

BuildUpdateFromClient(m) ==
  Written(game_update_from_client,
          Append(m.values, Len(m.lists[1]) % SizeModulus))
  \o WriteActions(m.lists)

BuildUpdateFromServer(m) ==
  Written(game_update_from_server, Append(m.values, Len(m.lists)))
  \o [i \in 1..Len(m.lists) |-> Len(m.lists[i]) % SizeModulus]
  \o WriteActions(m.lists)

Build(m) ==
  CASE m.type = "hello_ok" -> BuildHelloOk(m, <<>>, 9)
    [] m.type = "launch_game" -> BuildLaunchGame(m)
    [] m.type = "game_update_from_client" -> BuildUpdateFromClient(m)
    [] m.type = "game_update_from_server" -> BuildUpdateFromServer(m)
    [] OTHER -> BuildRaw(m)

-----------------------------------------------------------------------------
(* Reading.  A reader fails for good when the bytes are missing.           *)

Reader(content) ==
  [rest |-> content, ok |-> TRUE, values |-> <<>>, text |-> <<>>,
   lists |-> <<>>]

Failed(r) == [r EXCEPT !.ok = FALSE, !.rest = <<>>]

Skip(r, n) == [r EXCEPT !.rest = SubSeq(@, n + 1, Len(@))]

Has(r, n) == r.ok /\ Len(r.rest) >= n

Read(r, w) ==
  IF ~Has(r, w) THEN Failed(r)
  ELSE Skip([r EXCEPT !.values = Append(@, r.rest[w])], w)

ReadText(r, n) ==
  IF ~Has(r, n) THEN Failed(r)
  ELSE Skip([r EXCEPT !.text = SubSeq(r.rest, 1, n)], n)

ReadVector(r) ==
  IF ~Has(r, 4) THEN Failed(r) ELSE ReadText(Skip(r, 4), r.rest[4])

\* The lists follow each other in the bits.
ReadActions(r, sizes) ==
  LET first[p \in 1 .. Len(sizes) + 1] ==
        IF p = 1 THEN 0 ELSE first[p - 1] + sizes[p - 1]
      total == first[Len(sizes) + 1]
      bits(i) == IF i % 2 = 1 THEN r.rest[(i + 1) \div 2] % 16
                 ELSE r.rest[i \div 2] \div 16
  IN IF ~Has(r, (total + 1) \div 2) THEN Failed(r)
     ELSE IF \E i \in 1..total : Movement(bits(i)) > MaxMovement THEN Failed(r)
     ELSE Skip([r EXCEPT !.lists =
                  [p \in 1..Len(sizes) |->
                     [i \in 1..sizes[p] |-> bits(first[p] + i)]]],
               (total + 1) \div 2)

ReadRaw(r, type) ==
  LET fields == FoldLeft(Read, r, Raw[type])
  IN IF type = "authentication" THEN ReadVector(fields) ELSE fields

StayBefore(r, size) == r

SkipUnknown(r, size) == IF ~Has(r, size) THEN Failed(r) ELSE Skip(r, size)

\* The size of the records already known is not looked at.
ReadRecord(r) ==
  IF ~Has(r, 2) THEN Failed(r)
  ELSE LET id == r.rest[1]
           size == r.rest[2]
           value == Skip(r, 2)
       IN IF id \in hello_record_id
          THEN IF ~Has(value, 4) THEN Failed(r)
               ELSE Skip([value EXCEPT !.values[id + 3] = value.rest[4]], 4)
          ELSE IF id = NameRecord THEN ReadText(value, size)
          ELSE SkipUnknown(value, size)

ReadHelloOk(r, garbage) ==
  LET fields == FoldLeft(Read, r, hello_ok)
      unset == [fields EXCEPT !.values = @ \o [i \in 1..8 |-> garbage]]
  IN FoldLeft(LAMBDA s, i : IF s.rest = <<>> THEN s ELSE ReadRecord(s),
              IF fields.ok THEN unset ELSE fields, r.rest)

ReadLaunchGame(r) ==
  LET fields == FoldLeft(Read, r, launch_game)
      players == [fields EXCEPT
                    !.values = @ \o << (fields.rest[1] % 4) + 1,
                                       (fields.rest[1] \div 4) % 4 >>]
  IN IF ~Has(fields, 1) THEN Failed(r)
     ELSE FoldLeft(Read, Skip(players, 1), <<1, 1, 1>>)

ReadUpdateFromClient(r) ==
  LET fields == FoldLeft(Read, r, game_update_from_client)
  IN IF ~fields.ok THEN fields
     ELSE ReadActions([fields EXCEPT !.values = Front(@)],
                      <<Last(fields.values)>>)

ReadUpdateFromServer(r) ==
  LET fields == FoldLeft(Read, r, game_update_from_server)
      count == Last(fields.values)
  IN IF ~fields.ok THEN fields
     ELSE IF ~Has(fields, count) THEN Failed(r)
     ELSE ReadActions(Skip([fields EXCEPT !.values = Front(@)], count),
                      SubSeq(fields.rest, 1, count))

\* The message read, or nothing if the constructor throws.
try_deserialize_message(type, content, garbage) ==
  LET r == Reader(content)
      read == CASE type = "hello_ok" -> ReadHelloOk(r, garbage)
                [] type = "launch_game" -> ReadLaunchGame(r)
                [] type = "game_update_from_client" -> ReadUpdateFromClient(r)
                [] type = "game_update_from_server" -> ReadUpdateFromServer(r)
                [] OTHER -> ReadRaw(r, type)
  IN IF ~read.ok THEN Refused
     ELSE [type |-> type, values |-> read.values, text |-> read.text,
           lists |-> read.lists]

-----------------------------------------------------------------------------

MessagesInit ==
  /\ sent = Nothing
  /\ received = Nothing
  /\ wire = <<>>
  /\ fate = "none"

Send(m) ==
  /\ sent = Nothing
  /\ sent' = m
  /\ wire' = Build(m)
  /\ fate' = "whole"
  /\ UNCHANGED received

\* A later version of the server has one more record.
SendFromLater(m, at) ==
  /\ sent = Nothing
  /\ m.type = "hello_ok"
  /\ sent' = m
  /\ wire' = BuildHelloOk(m, << <<9, 3, 0, 8, 1>> >>, at)
  /\ fate' = "whole"
  /\ UNCHANGED received

\* The end of the datagram is missing.
CutShort ==
  /\ received = Nothing
  /\ fate \in {"whole", "cut"}
  /\ wire # <<>>
  /\ wire' = Front(wire)
  /\ fate' = "cut"
  /\ UNCHANGED <<sent, received>>

\* There are more bytes than expected.
Extend ==
  /\ received = Nothing
  /\ fate = "whole"
  /\ sent.type # "hello_ok"
  /\ wire' = Append(wire, 1)
  /\ fate' = "extended"
  /\ UNCHANGED <<sent, received>>

Alter(i, b) ==
  /\ received = Nothing
  /\ fate = "whole"
  /\ wire' = [wire EXCEPT ![i] = b]
  /\ fate' = "altered"
  /\ UNCHANGED <<sent, received>>

Receive(garbage) ==
  /\ received = Nothing
  /\ sent # Nothing
  /\ received' = try_deserialize_message(sent.type, wire, garbage)
  /\ UNCHANGED <<sent, wire, fate>>

MessagesNext ==
  \/ \E m \in Sendable : Send(m)
  \/ \E m \in Sendable, at \in 0..9 : SendFromLater(m, at)
  \/ CutShort
  \/ Extend
  \/ \E i \in 1..Len(wire), b \in Altered : Alter(i, b)
  \/ \E garbage \in Garbage : Receive(garbage)

-----------------------------------------------------------------------------

\* What the size of the list lets through: the other actions are sent again.
AsRead(m) ==
  IF m.type # "game_update_from_client" THEN m
  ELSE [m EXCEPT !.lists[1] = SubSeq(@, 1, Len(@) % SizeModulus)]

\* A complete datagram is read as it was written, whatever follows and even
\* if it comes from a later version of the server, with the first actions only
\* when the client sends too many of them; a datagram which lost its end is
\* refused, unless nothing it needs is lost, or is a hello_ok whose last
\* records are not known.  Whatever the bytes became, the movements are among
\* the ones of the game: the tests only check that nothing crashes.
NothingIsMisread ==
  received \notin {Nothing, Refused} =>
    /\ fate \in {"whole", "extended"} => received = AsRead(sent)
    /\ fate = "cut" =>
         \/ received = AsRead(sent)
         \/ /\ sent.type = "hello_ok"
            /\ \A i \in 1..10 :
                 received.values[i] \in Garbage \cup {sent.values[i]}
            /\ received.text \in {<<>>, sent.text}
    /\ \A p \in 1..Len(received.lists) : \A i \in 1..Len(received.lists[p]) :
         Movement(received.lists[p][i]) <= MaxMovement
=============================================================================
