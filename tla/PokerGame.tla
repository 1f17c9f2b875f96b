----------------------------- MODULE PokerGame -----------------------------
(***************************************************************************)
(* The betting engine of a poker table: class PokerGame of                 *)
(* src/poker/poker.cpp.  m_players is a vector of players; its order is    *)
(* the sequence `seats' of player ids and the fields of each player are    *)
(* functions of the id.  Seat numbers are those of the code, from 0.       *)
(*                                                                         *)
(* Cards are counted, not named: which of the players still in the hand    *)
(* hold the best cards is a nondeterministic choice at the showdown.       *)
(* Of m_bettingRounds only the last round is ever read, and of its actions *)
(* only who acted and the amount of the last bet or raise.  m_pots and     *)
(* m_handHistory are written and never read, and are left out.             *)
(***************************************************************************)
EXTENDS Integers, Sequences, SeqSum

CONSTANTS
  Players,     \* player ids
  MaxPlayers,  \* GameConfig::maxPlayers
  SmallBlind,  \* GameConfig::smallBlind
  BigBlind,    \* GameConfig::bigBlind
  BuyIns,      \* the stacks a player may sit down with
  Amounts,     \* the amounts a player may name in a bet or a raise
  DeckSize,    \* CARDS_IN_DECK
  HoleCards,   \* HOLDEM_HOLE_CARDS or DRAW_HAND_SIZE
  MaxHands,    \* bound: the number of hands dealt at the table
  MaxChips     \* bound: the chips in play at an open table

\* GameConfig::IsValid, and amounts that are not negative.
ASSUME ConfigAssumption ==
  /\ MaxPlayers \in Nat \ {0, 1}
  /\ SmallBlind \in Nat \ {0}
  /\ BigBlind \in Nat /\ BigBlind >= 2 * SmallBlind
  /\ BuyIns \subseteq Nat
  /\ Amounts \subseteq Nat
  /\ DeckSize \in Nat
  /\ HoleCards \in Nat
  /\ MaxHands \in Nat
  /\ MaxChips \in Nat

VARIABLES
  phase,      \* m_phase
  seats,      \* m_players, in order
  stack,      \* Player::m_stack
  bet,        \* Player::m_currentBet
  pstate,     \* Player::m_state
  hole,       \* the size of Player::m_holeCards
  dealer,     \* m_dealerIndex
  cur,        \* m_currentPlayerIndex
  round,      \* m_bettingRounds.back(), if there is one
  pot,        \* m_totalPot
  deck,       \* the cards taken from m_deck
  community,  \* the size of m_communityCards
  hands       \* the hands started, Player::m_handsPlayed of who was there

vars == <<phase, seats, stack, bet, pstate, hole, dealer, cur, round, pot,
          deck, community, hands>>

Phases == {"WAITING", "ESCROW", "PREFLOP", "FLOP", "TURN", "RIVER", "COMPLETE"}
LivePhases == {"PREFLOP", "FLOP", "TURN", "RIVER"}
PlayerStates == {"WAITING", "ACTIVE", "FOLDED", "ALL_IN"}

\* A betting round: the bet to match, who has acted, and the amount recorded
\* with the last bet or raise (0 when there was none).
EmptyRound(b) == [open |-> TRUE, currentBet |-> b, acted |-> {}, lastRaise |-> 0]
NoRound == [open |-> FALSE, currentBet |-> 0, acted |-> {}, lastRaise |-> 0]
Rounds == [open : BOOLEAN, currentBet : Nat, acted : SUBSET Players, lastRaise : Nat]

----------------------------------------------------------------------------
(* Helpers over the vector of players.                                     *)

NumSeats == Len(seats)
Seated == {seats[i] : i \in 1..NumSeats}
At(i) == seats[i + 1]
SeatOf(p) == (CHOOSE i \in 1..NumSeats : seats[i] = p) - 1

\* The seats at distance 1, ..., n from `from' whose player is ACTIVE.
ActiveAfter(ps, from) ==
  {k \in 1..NumSeats : ps[At((from + k) % NumSeats)] = "ACTIVE"}
\* Mutant: the next seat, whoever sits there.
GetNextActivePlayer_NoSkip(ps, from) == (from + 1) % NumSeats

GetNextActivePlayer(ps, from) ==
  LET ks == ActiveAfter(ps, from)
  IN  IF ks = {} THEN from
      ELSE (from + (CHOOSE k \in ks : \A j \in ks : k <= j)) % NumSeats

\* The players counted by CountPlayersInHand; no code sets SITTING_OUT.
PlayersInHand(ps) == {p \in Seated : ps[p] # "FOLDED"}
AtMostOne(S) == \A p, q \in S : p = q

ToCall(p) == round.currentBet - bet[p]
GetMinRaise == IF round.lastRaise = 0 THEN BigBlind ELSE round.lastRaise

\* Mutant: players who are all in must have matched the bet too.
IsRoundComplete_AllInMustMatch(ps, bt, rd) ==
  \/ AtMostOne(PlayersInHand(ps))
  \/ /\ \A p \in PlayersInHand(ps) : bt[p] >= rd.currentBet
     /\ rd.open /\ rd.acted # {}

IsRoundComplete(ps, bt, rd) ==
  \/ AtMostOne(PlayersInHand(ps))
  \/ /\ \A p \in Seated : ps[p] = "ACTIVE" => bt[p] >= rd.currentBet
     /\ rd.open /\ rd.acted # {}

\* Taking n cards from a deck that may run out.
Dealt(n) == IF deck + n <= DeckSize THEN n ELSE DeckSize - deck

----------------------------------------------------------------------------
Init ==
  /\ phase = "WAITING"
  /\ seats = <<>>
  /\ stack = [p \in Players |-> 0]
  /\ bet = [p \in Players |-> 0]
  /\ pstate = [p \in Players |-> "WAITING"]
  /\ hole = [p \in Players |-> 0]
  /\ dealer = 0 /\ cur = 0
  /\ round = NoRound
  /\ pot = 0
  /\ deck = 0 /\ community = 0
  /\ hands = 0

AddPlayer(p, chips) ==
  /\ NumSeats < MaxPlayers
  /\ p \notin Seated
  /\ seats' = Append(seats, p)
  /\ stack' = [stack EXCEPT ![p] = chips]
  /\ UNCHANGED <<phase, bet, pstate, hole, dealer, cur, round, pot, deck, community, hands>>

\* The Player object is destroyed with its chips; the two seat indices are
\* not adjusted.
RemovePlayer(p) ==
  /\ p \in Seated
  /\ seats' = [i \in 1..(NumSeats - 1) |-> IF i <= SeatOf(p) THEN seats[i] ELSE seats[i + 1]]
  /\ stack' = [stack EXCEPT ![p] = 0]
  /\ bet' = [bet EXCEPT ![p] = 0]
  /\ pstate' = [pstate EXCEPT ![p] = "WAITING"]
  /\ hole' = [hole EXCEPT ![p] = 0]
  /\ UNCHANGED <<phase, dealer, cur, round, pot, deck, community, hands>>

StartGame ==
  /\ NumSeats >= 2
  /\ phase' = "ESCROW"
  /\ UNCHANGED <<seats, stack, bet, pstate, hole, dealer, cur, round, pot, deck, community, hands>>

----------------------------------------------------------------------------
(* Starting a hand.                                                        *)

\* Player::Reset: a player without chips keeps the state of the last hand.
ResetStates == [p \in Players |-> IF p \in Seated /\ stack[p] > 0 THEN "ACTIVE" ELSE pstate[p]]

SmallBlindSeat(d) == IF NumSeats = 2 THEN d ELSE (d + 1) % NumSeats
BigBlindSeat(d) == IF NumSeats = 2 THEN (d + 1) % NumSeats ELSE (d + 2) % NumSeats

\* p bets the amount x, or the stack when it is smaller: Bet(min(x, stack)).
Blind(st, p, x) == IF x <= st[p] THEN x ELSE st[p]

\* Both blinds, the big one taken from what the small one left.
PostBlinds(d) ==
  LET sb == At(SmallBlindSeat(d))
      bb == At(BigBlindSeat(d))
      x  == Blind(stack, sb, SmallBlind)
      st == [stack EXCEPT ![sb] = @ - x]
      y  == Blind(st, bb, BigBlind)
  IN  /\ stack' = [st EXCEPT ![bb] = @ - y]
      /\ bet' = [[[p \in Players |-> 0] EXCEPT ![sb] = x] EXCEPT ![bb] = @ + y]
      /\ round' = EmptyRound(BigBlind)
      /\ cur' = GetNextActivePlayer(ResetStates, BigBlindSeat(d))

StartNewHand ==
  /\ phase # "WAITING"
  /\ NumSeats # 0
  /\ hands < MaxHands
  /\ deck' = 0 /\ community' = 0
  /\ pot' = 0
  /\ hole' = [p \in Players |-> 0]
  /\ pstate' = ResetStates
  /\ dealer' = (dealer + 1) % NumSeats
  /\ PostBlinds((dealer + 1) % NumSeats)
  /\ phase' = "PREFLOP"
  /\ hands' = hands + 1
  /\ UNCHANGED seats

\* The cards that go to the seats before seat i.
DealtBefore(i) ==
  Dealt(PrefixSum(Share(Players, {p \in Players : pstate[p] = "ACTIVE"}, HoleCards), seats)[i])

\* DealCards: to the ACTIVE players in the order of the seats, while the deck
\* lasts.
DealCards ==
  /\ hole' = [p \in Players |->
                IF p \in Seated /\ pstate[p] = "ACTIVE"
                THEN DealtBefore(SeatOf(p) + 1) - DealtBefore(SeatOf(p))
                ELSE hole[p]]
  /\ deck' = deck + DealtBefore(NumSeats)
  /\ UNCHANGED <<phase, seats, stack, bet, pstate, dealer, cur, round, pot, community, hands>>

----------------------------------------------------------------------------
(* Ending a hand, and moving from one betting round to the next.           *)

\* Mutant: folded players are not skipped.
WinnerSets_Folded(ps) == {W \in SUBSET Seated : W = {} => Seated = {}}

\* DetermineWinners: those of the players not folded whose hands tie for the
\* best, any non-empty set of them; and the share of each.
WinnerSets(ps) == {W \in SUBSET PlayersInHand(ps) : W = {} => PlayersInHand(ps) = {}}
NumWinners(W) == SumOver(Share(Players, W, 1), seats)

\* Mutant: the pot is not divided.
PotPerWinner_Whole(W, total) == total

PotPerWinner(W, total) == total \div NumWinners(W)

\* EndHand: m_totalPot is paid out and keeps its value.
EndHand(st, ps, total) ==
  /\ \E W \in WinnerSets(ps) :
       stack' = [p \in Players |-> IF p \in W THEN st[p] + PotPerWinner(W, total) ELSE st[p]]
  /\ phase' = "COMPLETE"

NextPhase(ph) ==
  CASE ph = "PREFLOP" -> "FLOP"
    [] ph = "FLOP"    -> "TURN"
    [] ph = "TURN"    -> "RIVER"
    [] OTHER          -> ph
BoardCards(ph) == CASE ph = "PREFLOP" -> 3 [] ph \in {"FLOP", "TURN"} -> 1 [] OTHER -> 0
BurntCards(ph) == IF ph \in {"PREFLOP", "FLOP", "TURN"} THEN 1 ELSE 0

\* AdvancePhase, in the state the caller's assignments lead to: stacks st,
\* player states ps, round rd, pot total and current player c.
AdvancePhase(st, ps, rd, total, c) ==
  /\ pstate' = ps /\ pot' = total
  /\ IF AtMostOne(PlayersInHand(ps)) \/ phase = "RIVER"
     THEN /\ EndHand(st, ps, total)
          /\ round' = rd /\ cur' = c
          /\ UNCHANGED <<deck, community>>
     ELSE /\ phase' = NextPhase(phase)
          /\ LET taken == Dealt(BurntCards(phase) + BoardCards(phase))
             IN  /\ deck' = deck + taken
                 /\ community' = IF taken = 0 THEN community ELSE community + taken - BurntCards(phase)
          /\ round' = EmptyRound(0)
          /\ cur' = GetNextActivePlayer(ps, dealer)
          /\ stack' = st

\* DealFlop, DealTurn and DealRiver are AdvancePhase itself.
DealBoard ==
  /\ AdvancePhase(stack, pstate, round, pot, cur)
  /\ UNCHANGED <<seats, bet, hole, dealer, hands>>

----------------------------------------------------------------------------
(* ProcessAction: the guard of IsValidAction, the effect of the action, and *)
(* the common tail.                                                        *)

\* With m_currentPlayerIndex past the end of m_players the code reads beyond
\* the vector: the comparison may come out either way.
IsTurn(p) ==
  /\ p \in Seated
  /\ pstate[p] = "ACTIVE"
  /\ cur < NumSeats => At(cur) = p

\* BettingRound::AddAction for the actions that leave the bet to match.
WithAction(p) == IF round.open THEN [round EXCEPT !.acted = @ \cup {p}] ELSE round

\* Mutant: AddAction alone, without the SetCurrentBet that follows it.
WithRaise_AddActionOnly(p, b, amount) ==
  IF round.open THEN [WithAction(p) EXCEPT !.currentBet = amount, !.lastRaise = amount] ELSE round

\* BettingRound::AddAction and SetCurrentBet for a bet or a raise to b.
WithRaise(p, b, amount) ==
  IF round.open THEN [WithAction(p) EXCEPT !.currentBet = b, !.lastRaise = amount] ELSE round

\* The tail of ProcessAction, in the state the action's assignments lead to:
\* the turn moves on, and a complete round is collected and closed.
Proceed(st, bt, ps, rd) ==
  LET nx == GetNextActivePlayer(ps, cur)
  IN  /\ IF IsRoundComplete(ps, bt, rd)
         THEN /\ bet' = [p \in Players |-> 0]
              /\ AdvancePhase(st, ps, rd, pot + SumOver(bt, seats), nx)
         ELSE /\ stack' = st /\ bet' = bt /\ pstate' = ps /\ round' = rd /\ cur' = nx
              /\ UNCHANGED <<phase, pot, deck, community>>
      /\ UNCHANGED <<seats, dealer, hands>>

\* Player::Bet(x) followed by the tail.
BetAndProceed(p, x, ps, rd) ==
  /\ Proceed([stack EXCEPT ![p] = @ - x], [bet EXCEPT ![p] = @ + x], ps, rd)
  /\ UNCHANGED hole

Fold(p) ==
  /\ IsTurn(p)
  /\ hole' = [hole EXCEPT ![p] = 0]
  /\ Proceed(stack, bet, [pstate EXCEPT ![p] = "FOLDED"], WithAction(p))

Check(p) ==
  /\ IsTurn(p)
  /\ ToCall(p) = 0
  /\ Proceed(stack, bet, pstate, WithAction(p))
  /\ UNCHANGED hole

\* Mutant: the stack is not checked.
Call_AnyStack(p) ==
  /\ IsTurn(p)
  /\ ToCall(p) > 0
  /\ BetAndProceed(p, ToCall(p), pstate, WithAction(p))

Call(p) ==
  /\ IsTurn(p)
  /\ ToCall(p) > 0 /\ stack[p] >= ToCall(p)
  /\ BetAndProceed(p, ToCall(p), pstate, WithAction(p))

Bet(p, amount) ==
  /\ IsTurn(p)
  /\ round.currentBet = 0 /\ amount >= BigBlind /\ stack[p] >= amount
  /\ BetAndProceed(p, amount, pstate, WithRaise(p, bet[p] + amount, amount))

Raise(p, amount) ==
  LET total == ToCall(p) + amount
  IN  /\ IsTurn(p)
      /\ round.currentBet > 0 /\ amount >= GetMinRaise /\ stack[p] >= total
      /\ BetAndProceed(p, total, pstate, WithRaise(p, bet[p] + total, total))

\* The bet to match stays what it was, whatever the all-in is worth.
AllIn(p) ==
  /\ IsTurn(p)
  /\ stack[p] > 0
  /\ BetAndProceed(p, stack[p], [pstate EXCEPT ![p] = "ALL_IN"], WithAction(p))

ProcessAction(p) ==
  \/ Fold(p) \/ Check(p) \/ Call(p) \/ AllIn(p)
  \/ \E amount \in Amounts : Bet(p, amount) \/ Raise(p, amount)

----------------------------------------------------------------------------
(* A table run as the engine expects: everyone sits down before the game   *)
(* starts, a hand is started and dealt before anyone acts, nobody acts     *)
(* between hands, and the dealer may turn the board when nobody can act.   *)
(* No code outside the engine calls StartNewHand, DealHoleCards, DealFlop  *)
(* and the like yet, so nothing is assumed to make these steps happen.     *)

Live == phase \in LivePhases
CardsDealt == deck > 0
InHand == PlayersInHand(pstate)
NobodyActive == \A p \in Seated : pstate[p] # "ACTIVE"

SitDown == phase = "WAITING" /\ \E p \in Players, chips \in BuyIns : AddPlayer(p, chips)
BeginGame == phase = "WAITING" /\ StartGame
BeginHand == phase \in {"ESCROW", "COMPLETE"} /\ StartNewHand
Deal == phase = "PREFLOP" /\ ~CardsDealt /\ DealCards
Act == Live /\ CardsDealt /\ \E p \in Players : ProcessAction(p)
RunOut == Live /\ CardsDealt /\ NobodyActive /\ DealBoard

Next == SitDown \/ BeginGame \/ BeginHand \/ Deal \/ Act \/ RunOut

Spec == Init /\ [][Next]_vars

\* The same table as PokerNetManager drives it: players join, leave, start the
\* game or act whenever a message or a local call arrives, and a hand may be
\* started at any moment.  MaxChips bounds the play, for both joining and a hand paid out twice bring
\* in new chips.
InPlay == SumOver(stack, seats) + pot
Arrive == \E p \in Players, chips \in BuyIns : InPlay + chips <= MaxChips /\ AddPlayer(p, chips)
Leave == \E p \in Players : RemovePlayer(p)
ActAnytime == InPlay <= MaxChips /\ \E p \in Players : ProcessAction(p)

OpenNext == Arrive \/ Leave \/ StartGame \/ StartNewHand \/ Deal \/ ActAnytime \/ RunOut

OpenSpec == Init /\ [][OpenNext]_vars

----------------------------------------------------------------------------
(* Properties.                                                             *)

\* The chips of the table: the stacks, the bets in front of the players and,
\* until EndHand pays it out, the pot.
Chips == SumOver(stack, seats) + SumOver(bet, seats) + (IF Live THEN pot ELSE 0)

\* Every variable keeps the type of the field it models; no stack, bet or pot
\* is ever negative and no player sits twice (Player::Bet, AddPlayer).
TypeOK ==
  /\ phase \in Phases
  /\ seats \in Seq(Players)
  /\ \A i, j \in 1..NumSeats : seats[i] = seats[j] => i = j
  /\ stack \in [Players -> Nat]
  /\ bet \in [Players -> Nat]
  /\ pstate \in [Players -> PlayerStates]
  /\ hole \in [Players -> Nat]
  /\ dealer \in Nat /\ cur \in Nat
  /\ round \in Rounds
  /\ pot \in Nat
  /\ deck \in 0..DeckSize /\ community \in Nat
  /\ hands \in Nat

\* IsValidAction computes toCall = currentBet - m_currentBet in a signed
\* amount: it never comes out negative for a player who may act, so a player
\* on turn can always check or owes something.
ToCallNonNegative ==
  Live => \A p \in Seated : pstate[p] = "ACTIVE" => bet[p] <= round.currentBet

\* While a hand is live and somebody can act, m_currentPlayerIndex is a seat
\* and its player is the one who can act: the table never waits for somebody
\* whose every action IsValidAction refuses.
TurnIsActive ==
  Live /\ ~NobodyActive => cur < NumSeats /\ pstate[At(cur)] = "ACTIVE"

\* No step of the table makes chips, and none loses any before the hand ends:
\* blinds, bets, CollectBets and StartNewHand only move them.  EndHand loses
\* at most the odd chips that potPerWinner rounds away, and the whole pot only
\* when nobody is left to take it.
ChipsConserved ==
  [][phase # "WAITING" =>
       /\ Chips' <= Chips
       /\ phase' # "COMPLETE" => Chips' = Chips
       /\ InHand' # {} => Chips - Chips' < NumSeats]_vars

\* While a hand is being played no call makes chips: joining, leaving and
\* restarting included.
NoChipsMadeInHand ==
  [][Live /\ Seated' \subseteq Seated => Chips' <= Chips]_vars

\* A player who folded is out until the next hand: not paid at EndHand, not
\* charged, and not back in play.
FoldedStaysOut ==
  [][\A p \in Seated \cap Seated' :
       pstate[p] = "FOLDED" /\ hands' = hands =>
         pstate'[p] = "FOLDED" /\ stack'[p] = stack[p] /\ bet'[p] <= bet[p]]_vars

\* No action that ProcessAction accepts leaves the betting where it was: one
\* that does not close the round is the first of its player in it, puts chips
\* in, or takes the player out of the betting.  So no round of betting goes on
\* for ever, whatever the players choose and whoever has gone all in.
EveryActionCounts ==
  [][Live /\ CardsDealt /\ phase' = phase /\ seats' = seats =>
       \/ round'.acted # round.acted
       \/ \E p \in Seated : stack'[p] < stack[p]
       \/ \E p \in Seated : pstate[p] = "ACTIVE" /\ pstate'[p] # "ACTIVE"]_vars

\* What IsRoundComplete says it checks: "all active players have acted and
\* matched the bet" before a round is closed and the next cards are dealt.
RoundClosesAfterAllActed ==
  [][Live /\ Live' /\ phase' # phase /\ hands' = hands =>
       \A p \in Seated : pstate'[p] = "ACTIVE" => p \in round.acted \cup {At(cur)}]_vars
============================================================================
