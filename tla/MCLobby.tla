------------------------------ MODULE MCLobby ------------------------------
(***************************************************************************)
(* OnlineLobby and Lobby on small instances.                               *)
(***************************************************************************)
EXTENDS OnlineLobby, TLC

CONSTANTS s1, s2, s3, n1

TwoRandom == [k \in Kinds |-> IF k = "random" THEN 2 ELSE 1]
TwoRandomOnly == [k \in Kinds |-> IF k = "random" THEN 2 ELSE 0]

VARIABLES present,  \* the sessions of which there are messages
          clientsOf \* those of the clients of OnlineLobby; when there are
                    \* none, the requests are any of those of Lobby

\* One of the clients searches MaxToken times and receives old messages, or two
\* of them search once and their messages are in order.
Limited(s) ==
  clientsOf # {s} =>
    /\ clients[s].token <= (IF s \in clientsOf THEN 1 ELSE 0)
    /\ Cardinality({m \in requests : m.from = s}) <= 1
    /\ Cardinality({m \in replies : m.to = s}) <= 1

\* Several players meet in one encounter of each kind, three of them in a
\* random one.
Together ==
  /\ Cardinality(clientsOf) # 1 => nextEncounter["random"] <= 2
  /\ present = Sessions => nextEncounter["named"] = 1
  /\ \A k \in Kinds, id \in Ids : Members(encounters[k][id]) \subseteq present

MCInit ==
  /\ OnlineInit
  /\ present \in SUBSET Sessions \ {{}}
  /\ \/ clientsOf = {} /\ Cardinality(present) > 1
     \/ clientsOf = present /\ Cardinality(present) < 3

WithClients ==
  /\ clientsOf # {}
  /\ OnlineNext
  /\ \A s \in Sessions : Limited(s)'

WithoutClients ==
  /\ clientsOf = {}
  /\ Next
  /\ UNCHANGED <<clients, requests, replies>>

MCNext ==
  /\ UNCHANGED <<present, clientsOf>>
  /\ WithClients \/ WithoutClients
  /\ Together'

MCSpec == MCInit /\ [][MCNext]_<<allVars, present, clientsOf>>

\* The requests are about what their sender does now: nobody waits for the
\* handling of an older one, that the bound on the encounters may forbid.
UpToDate == \A m \in requests : m.message = clients[m.from].message

MCFairSpec ==
  /\ MCInit
  /\ [][MCNext /\ UpToDate']_<<allVars, present, clientsOf>>
  /\ Fairness

Symmetry == Permutations(Sessions)
=============================================================================
