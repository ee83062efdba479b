------------------------------- MODULE Wallet -------------------------------
(***************************************************************************)
(* The wallet of a screen: a label which follows the balance of the player *)
(* through animations.  Several may run at the same time: a payment is     *)
(* shown at once, coins which are received fly to the wallet first.        *)
(*                                                                         *)
(* An operator which nothing uses is a variant of the definition that      *)
(* follows it, with a defect the properties must detect.                   *)
(***************************************************************************)
EXTENDS Integers, Sequences

CONSTANTS MaxBalance, MaxAnimations, \* bounds
          PaymentFrames, \* the frames of the animation of a payment
          ReceiptFrames, \* and of the label, once coins have landed
          Flights        \* how many frames the coins fly, at random

VARIABLES balance,   \* of the player
          displayed, \* m_displayed_value
          label,     \* m_balance_label
          animations \* of m_action_runner, in order

walletVars == <<balance, displayed, label, animations>>

WalletInit ==
  /\ balance \in 0..MaxBalance
  /\ displayed = balance /\ label = balance
  /\ animations = <<>>

\* The balance changes when another screen is displayed.
ChangeElsewhere ==
  /\ \E v \in 0..MaxBalance : balance' = v
  /\ UNCHANGED <<displayed, label, animations>>

Enter ==
  /\ displayed' = balance
  /\ label' = balance
  /\ UNCHANGED <<balance, animations>>

Animation(from, to, flight) ==
  [from |-> from, to |-> to, age |-> 0, flight |-> flight,
   length |-> IF to <= from THEN PaymentFrames ELSE ReceiptFrames]

RunAction(a) == animations' = Append(animations, a)

\* animate_cash_flow, after a transaction of this screen.
AnimateCashFlow ==
  /\ Len(animations) < MaxAnimations
  /\ \E v \in 0..MaxBalance, flight \in Flights :
       /\ v <= displayed => flight = 0
       /\ balance' = v
       /\ displayed' = v
       /\ RunAction(Animation(displayed, v, flight))
  /\ UNCHANGED label

Rounded(n, d) ==
  IF n >= 0 THEN (2 * n + d) \div (2 * d) ELSE -((d - 2 * n) \div (2 * d))

Done(a) == a.age = a.flight + a.length

AlwaysItsOwn(a, count) ==
  a.from + Rounded((a.to - a.from) * (a.age - a.flight), a.length)

\* update_balance_label: the last animation to end, when count is one, shows
\* what the others have made of the balance in the mean time.
Amount(a, count) ==
  IF Done(a) /\ count = 1 THEN displayed
  ELSE a.from + Rounded((a.to - a.from) * (a.age - a.flight), a.length)

\* ActionManager::update, an animation after the other; those which are done
\* are removed as soon as they are.
Frame ==
  LET older == [i \in DOMAIN animations |->
                 [animations[i] EXCEPT !.age = @ + 1]]
      Left(i) == SelectSeq(SubSeq(older, 1, i), LAMBDA a : ~Done(a))
      shown[i \in 0..Len(older)] ==
        IF i = 0 THEN label
        ELSE LET a == older[i] IN
             IF a.age <= a.flight THEN shown[i - 1]
             ELSE Amount(a, Len(Left(i - 1)) + Len(older) - i + 1)
  IN /\ animations # <<>>
     /\ animations' = Left(Len(older))
     /\ label' = shown[Len(older)]
     /\ UNCHANGED <<balance, displayed>>

WalletNext == ChangeElsewhere \/ Enter \/ AnimateCashFlow \/ Frame

WalletSpec == WalletInit /\ [][WalletNext]_walletVars

-----------------------------------------------------------------------------
\* Transactions overlap, and the animation of an old one may end after the one
\* of a newer: once they are all over, the label shows the amount after the
\* last of them.
LabelSettles == animations = <<>> => label = displayed

=============================================================================
