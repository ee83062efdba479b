------------------------------ MODULE Account ------------------------------
(***************************************************************************)
(* What a player owns: the coins, the features of the games and the slots  *)
(* where they are put.  They are kept in the local preferences, which are   *)
(* saved from time to time, and coins are bought in a store whose answers   *)
(* are asynchronous.  Features and slots are numbered in the order of the   *)
(* code.                                                                   *)
(*                                                                         *)
(* An operator which nothing uses is a variant of the definition that      *)
(* follows it, with a defect the properties must detect.                   *)
(***************************************************************************)
EXTENDS Integers, Sequences, FiniteSets, SequencesExt, FiniteSetsExt

CONSTANTS FeatureCount, SlotCount,
          Price,        \* the price of each feature
          SlotPrice,    \* the price of each slot
          VictoryCoins, DefeatCoins, \* of the games played before version 1
          OldPreferences, \* what previous versions may have left on the device
          Purchases,    \* the tokens of the purchases
          Worth,        \* the coins of a purchase
          Rewards,      \* the coins given at the end of a game
          MaxEarned,    \* bound on the coins given to the player
          MaxPending    \* bound on the requests to the store

Features  == 1..FeatureCount
Slots     == 1..SlotCount
NoFeature == 0

ASSUME AccountConstants ==
  /\ FeatureCount \in Nat
  /\ SlotCount \in Nat \ {0}
  /\ Price \in [Features -> Nat]
  /\ SlotPrice \in [Slots -> Nat]
  /\ VictoryCoins \in Nat /\ DefeatCoins \in Nat
  /\ Worth \in Nat
  /\ Rewards \subseteq Nat
  /\ IsFiniteSet(Purchases)

ASSUME OldFeaturesAreOwned ==
  \A p \in OldPreferences :
    /\ p.version \in {0, 1}
    /\ p.features \subseteq Features
    /\ p.enabled \subseteq p.features
    /\ p.coins \in Nat /\ p.victories \in Nat /\ p.defeats \in Nat

VARIABLES account, \* the preferences in memory
          saved,   \* the preferences in the file
          screen, mode, selected, \* the screen game_features
          products, \* the products of the shop: "none", "fetching", "ready"
          store,    \* the purchases, for the store
          queries, acknowledgements, consumptions, \* what the store is asked
          lost      \* the purchases credited after the last save and consumed

shopVars == <<products, store, queries, acknowledgements, consumptions>>
accountVars == <<account, saved, screen, mode, selected, shopVars, lost>>

-----------------------------------------------------------------------------
(* The preferences.                                                        *)

SumOver(S, f) == FoldSet(LAMBDA x, sum : f[x] + sum, 0, S)

\* What the player has paid.
Spent(a) == SumOver(a.features, Price) + SumOver(a.open, SlotPrice)

\* update_preferences_v0_to_v1
CoinsOfVersion0(p) ==
  LET coins == p.victories * VictoryCoins + p.defeats * DefeatCoins
                 - SumOver(p.features, Price)
  IN IF coins < 0 THEN 0 ELSE coins

\* update_preferences_v1_to_v2
SlotsOfVersion1(p) ==
  [s \in Slots |->
    IF s = 1 /\ p.enabled # {}
    THEN CHOOSE f \in p.enabled : \A g \in p.enabled : f <= g
    ELSE NoFeature]

\* update_preferences, of an installation of version 0 or 1.  credited and
\* earned are not in the code: what the player has received.
Updated(p) ==
  LET a == [coins    |-> IF p.version = 0 THEN CoinsOfVersion0(p) ELSE p.coins,
            features |-> p.features,
            open     |-> {1},
            content  |-> SlotsOfVersion1(p),
            credited |-> {},
            earned   |-> 0]
  IN [a EXCEPT !.earned = a.coins + Spent(a)]

AccountInit ==
  /\ account \in {Updated(p) : p \in OldPreferences}
  /\ saved = account
  /\ screen = "other" /\ mode = "idle" /\ selected = NoFeature
  /\ products = "fetching"
  /\ store = [t \in Purchases |-> "none"]
  /\ queries = 0
  /\ acknowledgements = {} /\ consumptions = {}
  /\ lost = {}

Affordable(price) == price <= account.coins

\* Every five minutes, and when the application leaves the foreground.
Flush ==
  /\ saved # account
  /\ saved' = account
  /\ UNCHANGED <<account, screen, mode, selected, shopVars, lost>>

Restarted ==
  /\ screen' = "other" /\ mode' = "idle" /\ selected' = NoFeature
  /\ products' = "fetching"
  /\ queries' = 0
  /\ acknowledgements' = {}
  /\ UNCHANGED <<store, consumptions>>

\* The application is killed, and started again.
Crash ==
  /\ account' = saved
  /\ lost' = lost \cup {t \in account.credited \ saved.credited :
                          t \in consumptions \/ store[t] = "consumed"}
  /\ Restarted
  /\ UNCHANGED saved

\* tear_down_local_preferences, when the application is left or reset.
Quit ==
  /\ saved' = account
  /\ Restarted
  /\ UNCHANGED <<account, lost>>

-----------------------------------------------------------------------------
(* The screen game_features.                                               *)

Idle ==
  /\ mode' = "idle"
  /\ selected' = NoFeature

\* The products are asked for again after an error.
FetchProducts == products' = IF products = "none" THEN "fetching" ELSE products

RefreshPurchases ==
  /\ queries < MaxPending
  /\ queries' = queries + 1

Display(s) ==
  /\ screen # s
  /\ screen' = s
  /\ Idle
  /\ IF s = "shop" THEN RefreshPurchases /\ FetchProducts
                   ELSE UNCHANGED <<queries, products>>
  /\ UNCHANGED <<account, saved, store, acknowledgements, consumptions, lost>>

Edit(a) ==
  /\ screen = "features"
  /\ account' = a
  /\ UNCHANGED <<saved, screen, shopVars, lost>>

StartEraseMode ==
  /\ Edit(account)
  /\ \/ mode # "idle" /\ Idle
     \/ /\ mode = "idle"
        /\ \E s \in Slots : account.content[s] # NoFeature
        /\ mode' = "erase"
        /\ UNCHANGED selected

EraseSlot(s) ==
  /\ mode = "erase"
  /\ Edit(IF s \in account.open
          THEN [account EXCEPT !.content[s] = NoFeature]
          ELSE account)
  /\ Idle

PaidTwice(s) ==
  [account EXCEPT !.coins = @ - SlotPrice[s], !.open = @ \cup {s}]

\* purchase_slot: the account after it, the same if the slot is too expensive.
WithSlot(s) ==
  IF s \in account.open \/ ~Affordable(SlotPrice[s]) THEN account
  ELSE [account EXCEPT !.coins = @ - SlotPrice[s], !.open = @ \cup {s}]

AnySlot(a, s, f) == [a EXCEPT !.content[s] = f]

\* In assign_slot, nothing is put in a slot that could not be purchased.
Assigned(a, s, f) ==
  IF s \in a.open THEN [a EXCEPT !.content[s] = f] ELSE a

PurchaseSlot(s) ==
  /\ mode = "idle"
  /\ Edit(WithSlot(s))
  /\ UNCHANGED <<mode, selected>>

AssignSlot(s) ==
  /\ mode = "assign"
  /\ Edit(Assigned(WithSlot(s), s, selected))
  /\ Idle

SelectSlot(s) == PurchaseSlot(s) \/ EraseSlot(s) \/ AssignSlot(s)

\* The account after the purchase of f, if it is not available already.
WithFeature(f) ==
  IF f \in account.features \/ ~Affordable(Price[f]) THEN account
  ELSE [account EXCEPT !.coins = @ - Price[f], !.features = @ \cup {f}]

SelectFeature(f) ==
  \/ /\ \/ mode = "erase"
        \/ mode = "assign" /\ f = selected
     /\ Edit(account)
     /\ Idle
  \/ /\ \/ mode = "idle"
        \/ mode = "assign" /\ f # selected
     /\ Edit(WithFeature(f))
     /\ IF f \in account'.features
        THEN mode' = "assign" /\ selected' = f
        ELSE Idle

\* As many of the available features as there are slots, in order, in the first
\* slots of the player.
SelectRandomFeatures ==
  \E content \in [Slots -> Features \cup {NoFeature}] :
    LET filled == {s \in account.open : content[s] # NoFeature} IN
    /\ \A s \in Slots \ account.open : content[s] = account.content[s]
    /\ Cardinality(filled) = Min({Cardinality(account.open),
                                 Cardinality(account.features)})
    /\ \A s \in filled :
         /\ content[s] \in account.features
         /\ \A t \in account.open :
              t < s => t \in filled /\ content[t] < content[s]
    /\ Edit([account EXCEPT !.content = content])
    /\ Idle

Cancel ==
  /\ mode # "idle"
  /\ Edit(account)
  /\ Idle

-----------------------------------------------------------------------------
(* The shop, and the end of the games.                                     *)

Received(a, coins) == [a EXCEPT !.coins = @ + coins, !.earned = @ + coins]

\* game_over_in_public_arena
GameOver ==
  /\ screen = "other"
  /\ \E r \in Rewards :
       /\ account.earned + r <= MaxEarned
       /\ account' = Received(account, r)
  /\ UNCHANGED <<saved, screen, mode, selected, shopVars, lost>>

ShopStep == UNCHANGED <<saved, screen, mode, selected, lost>>

\* products_ready or products_error
ProductsAnswer ==
  /\ products = "fetching"
  /\ products' \in {"none", "ready"}
  /\ ShopStep
  /\ UNCHANGED <<account, store, queries, acknowledgements, consumptions>>

\* The user pays; onPurchasesUpdated asks for an acknowledgement.
Purchase(t) ==
  /\ screen = "shop" /\ products = "ready"
  /\ store[t] = "none"
  /\ store' = [store EXCEPT ![t] = "paid"]
  /\ acknowledgements' \in {acknowledgements, acknowledgements \cup {t}}
  /\ ShopStep
  /\ UNCHANGED <<account, products, queries, consumptions>>

EvenUnknown(T) ==
  /\ account' = IF products = "ready"
                THEN [Received(account, Worth * Cardinality(T))
                      EXCEPT !.credited = @ \cup T]
                ELSE account
  /\ consumptions' = consumptions \cup T

\* purchase_completed for each purchase of T: a purchase of an unknown product
\* is neither credited nor consumed.
Completed(T) ==
  IF products = "ready"
  THEN /\ account' = [Received(account, Worth * Cardinality(T))
                      EXCEPT !.credited = @ \cup T]
       /\ consumptions' = consumptions \cup T
  ELSE UNCHANGED <<account, consumptions>>

\* processPurchases with the answer to a query, or with an error.
QueryAnswer ==
  /\ queries > 0
  /\ queries' = queries - 1
  /\ \/ LET in(state) == {t \in Purchases : store[t] = state}
        IN /\ Completed(in("acknowledged"))
           /\ acknowledgements' = acknowledgements \cup in("paid")
     \/ UNCHANGED <<account, consumptions, acknowledgements>>
  /\ account'.earned <= MaxEarned
  /\ ShopStep
  /\ UNCHANGED <<products, store>>

Acknowledged(t) ==
  /\ t \in acknowledgements
  /\ acknowledgements' = acknowledgements \ {t}
  /\ \/ /\ store' = [store EXCEPT ![t] = IF @ = "paid" THEN "acknowledged" ELSE @]
        /\ Completed({t})
     \/ UNCHANGED <<store, account, consumptions>>
  /\ account'.earned <= MaxEarned
  /\ ShopStep
  /\ UNCHANGED <<products, queries>>

\* onConsumeResponse: a failed consumption is only logged.
Consumed(t) ==
  /\ t \in consumptions
  /\ consumptions' = consumptions \ {t}
  /\ store' \in {store, [store EXCEPT ![t] = "consumed"]}
  /\ ShopStep
  /\ UNCHANGED <<account, products, queries, acknowledgements>>

AccountNext ==
  \/ Flush \/ Crash \/ Quit
  \/ \E s \in {"other", "features", "shop"} : Display(s)
  \/ StartEraseMode \/ SelectRandomFeatures \/ Cancel
  \/ \E s \in Slots : SelectSlot(s)
  \/ \E f \in Features : SelectFeature(f)
  \/ GameOver \/ ProductsAnswer \/ QueryAnswer
  \/ \E t \in Purchases : Purchase(t) \/ Acknowledged(t) \/ Consumed(t)

AccountSpec == AccountInit /\ [][AccountNext]_accountVars

-----------------------------------------------------------------------------
(* Properties                                                              *)

Accounts == [coins : Nat, features : SUBSET Features, open : SUBSET Slots,
             content : [Slots -> Features \cup {NoFeature}],
             credited : SUBSET Purchases, earned : Nat]

AccountTypeOK ==
  /\ account \in Accounts /\ saved \in Accounts
  /\ screen \in {"other", "features", "shop"}
  /\ mode \in {"idle", "erase", "assign"}
  /\ selected \in Features \cup {NoFeature}

\* Coins, features and slots are three preferences, changed by two screens, by
\* the end of the games and by a store: in memory and in the file, what the
\* player has received is what it has and what it has paid, and no slot or
\* feature is paid twice.
CoinsAreAccountedFor ==
  \A a \in {account, saved} : a.coins >= 0 /\ a.coins + Spent(a) = a.earned

\* The features sent with a request for a game (enabled_feature_flags) are
\* among those the player owns, in as many slots as it owns, whatever the modes
\* of the screen it went through and wherever it was killed.
SlotsAreOwned ==
  \A a \in {account, saved} :
    \A s \in Slots :
      a.content[s] # NoFeature => a.content[s] \in a.features /\ s \in a.open

\* A purchase the store has forgotten was credited, unless the application was
\* killed in between.
PurchasesAreCredited ==
  \A t \in Purchases :
    store[t] = "consumed" => t \in account.credited \cup lost

\* The player has all that it has been given and has paid for, no more.
AccountIsRight == CoinsAreAccountedFor /\ PurchasesAreCredited

=============================================================================
