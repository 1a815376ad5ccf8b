--------------------------- MODULE AssistantChat ----------------------------
(* The panel in which the user talks to an agent. A message is answered as a *)
(* stream, shown in a bubble until it has ended and the conversation has     *)
(* been read back. The answer can carry a proposal, a card that the user     *)
(* applies: first in the bubble, then in the conversation that was stored.   *)
(* What was applied is remembered in the browser, under the card's own name. *)
EXTENDS Naturals, FiniteSets, QueryCache

CONSTANT MaxWrites          \* bound: messages sent in a behaviour

VARIABLES ui, q, net, log

vars == <<ui, q, net, log>>

None == "none"
Turns == 1..MaxWrites       \* the messages, in the order they are sent; the first is answered with a proposal
Conversations == {"old", "new", "newer"}
Cards == {"bubble", "stored"}
Created(turn) == IF turn = 1 THEN "new" ELSE "newer"

(* conv: the conversation on screen, kept in the browser too; draft: the turn whose       *)
(* bubble is shown, 0: none; offers: its proposal is in it. applied, busy: what the cards *)
(* on screen show. home: where the first turn was stored; read: what is on screen of that *)
(* was read after; marks: the cards remembered as applied; made: how often the proposal   *)
(* was. A turn is live while the panel that sent it is open.                              *)
TypeOK ==
  /\ ui \in [open : BOOLEAN, conv : Conversations \cup {None}, streaming : BOOLEAN, draft : 0..MaxWrites,
             offers : BOOLEAN, applied : SUBSET Cards, busy : SUBSET Cards]
  /\ q \in [home : Conversations \cup {None}, read : BOOLEAN, marks : SUBSET Cards, made : 0..2]
  /\ net \subseteq [turn : Turns, conv : Conversations \cup {None}, fresh : BOOLEAN, live : BOOLEAN,
                    st : {"sent", "streaming", "ended"}]
                \cup [card : Cards, live : BOOLEAN, st : {"sent", "done"}]
  /\ log \in [n : 0..MaxWrites, early : BOOLEAN, tried : SUBSET Cards, why : SUBSET {"reopened", "lost"}]
-----------------------------------------------------------------------------
IsTurn(c) == "turn" \in DOMAIN c
Applies == {c \in net : ~IsTurn(c)}

Init ==
  /\ net = {}
  /\ \E conv \in {"old", None} :
       ui = [open |-> TRUE, conv |-> conv, streaming |-> FALSE, draft |-> 0, offers |-> FALSE,
             applied |-> {}, busy |-> {}]
  /\ q = [home |-> None, read |-> FALSE, marks |-> {}, made |-> 0]
  /\ log = [n |-> 0, early |-> FALSE, tried |-> {}, why |-> {}]

Panel == ui.open
(* A card is on screen with the bubble, or with the conversation once it was read. *)
OnScreen(card) ==
  ui.open /\ IF card = "bubble" THEN ui.draft = 1 /\ ui.offers
             ELSE q.home # None /\ ui.conv = q.home /\ q.read
(* A card that goes forgets that it was busy, and reads what is remembered when it comes *)
(* back.                                                                                 *)
Gone(v, cards) == [v EXCEPT !.applied = (@ \ cards) \cup (q.marks \cap cards), !.busy = @ \ cards]
Unheard(cards) == {IF ~IsTurn(c) /\ c.card \in cards THEN [c EXCEPT !.live = FALSE] ELSE c : c \in net}
Reopened(cards) ==
  IF \E c \in Applies : c.card \in cards THEN [log EXCEPT !.why = @ \cup {"reopened"}] ELSE log
-----------------------------------------------------------------------------
(* The panel closes, or shows the list of conversations, and comes back; its streams go *)
(* on unseen.                                                                           *)
Leave ==
  /\ Panel
  /\ ui' = Gone([ui EXCEPT !.open = FALSE, !.streaming = FALSE, !.draft = 0, !.offers = FALSE], Cards)
  /\ net' = {[c EXCEPT !.live = FALSE] : c \in net}
  /\ log' = Reopened(Cards)
  /\ UNCHANGED q
Return == ~ui.open /\ ui' = Gone([ui EXCEPT !.open = TRUE], Cards) /\ UNCHANGED <<q, net, log>>
(* Back to a conversation from the list, while the panel is not shown. *)
PickConversation(conv) ==
  /\ ~ui.open /\ conv \in {"old", q.home} \ {None, ui.conv}
  /\ ui' = [ui EXCEPT !.conv = conv] /\ UNCHANGED <<q, net, log>>

(* The effect on the conversation: the bubble goes, unless a message is being answered, *)
(* as that message's own new conversation may just have got its name.                   *)
MovedWiping(v) == [v EXCEPT !.draft = 0, !.offers = FALSE]   \* broken: whether or not one is
Moved(v) == IF v.streaming THEN v ELSE [v EXCEPT !.draft = 0, !.offers = FALSE]
Leaves == {"stored"} \cup (IF ui.streaming THEN {} ELSE {"bubble"})    \* the cards that go with it
Moves(conv) == Gone(Moved([ui EXCEPT !.conv = conv]), Leaves)
NewConversation ==
  /\ Panel /\ ui.conv # None
  /\ ui' = Moves(None)
  /\ net' = Unheard(Leaves)
  /\ log' = Reopened(Leaves)
  /\ UNCHANGED q

(* One message at a time, but the next can be sent while the last is still read back. *)
Send ==
  /\ Panel /\ ~ui.streaming /\ log.n < MaxWrites
  /\ LET turn == log.n + 1
     IN /\ net' = Unheard({"bubble"}) \cup {[turn |-> turn, conv |-> ui.conv, fresh |-> ui.conv = None,
                                             live |-> TRUE, st |-> "sent"]}
        /\ ui' = Gone([ui EXCEPT !.streaming = TRUE, !.draft = turn, !.offers = FALSE], {"bubble"})
        /\ log' = [Reopened({"bubble"}) EXCEPT !.n = turn, !.early = @ \/ \E c \in net : IsTurn(c) /\ c.live]
  /\ UNCHANGED q
-----------------------------------------------------------------------------
(* The events of a stream: its conversation, which a new one brings on screen wherever  *)
(* the user is; the proposal, stored as it is sent, and put in the bubble that is shown *)
(* by then; its end.                                                                    *)
Named(c) ==
  /\ c \in net /\ IsTurn(c) /\ c.st = "sent"
  /\ LET conv == IF c.fresh THEN Created(c.turn) ELSE c.conv
         named == [c EXCEPT !.st = "streaming", !.conv = conv]
         moves == c.fresh /\ ui.open
     IN /\ net' = ((IF moves THEN Unheard(Leaves) ELSE net) \ {c}) \cup {named}
        /\ ui' = IF moves THEN Moves(conv) ELSE IF c.fresh THEN [ui EXCEPT !.conv = conv] ELSE ui
        /\ log' = IF moves THEN Reopened(Leaves) ELSE log
  /\ UNCHANGED q
Proposal(c) ==
  /\ c \in net /\ IsTurn(c) /\ c.turn = 1 /\ c.st = "streaming" /\ q.home = None
  /\ q' = [q EXCEPT !.home = c.conv]
  /\ ui' = IF c.live /\ ui.draft = 1 THEN [ui EXCEPT !.offers = TRUE] ELSE ui
  /\ UNCHANGED <<net, log>>
Ends(c) ==
  /\ c \in net /\ IsTurn(c) /\ c.st # "ended"
  /\ net' = IF c.conv = None THEN net \ {c} ELSE (net \ {c}) \cup {[c EXCEPT !.st = "ended"]}
  /\ ui' = IF ~c.live THEN ui
           ELSE IF c.conv = None THEN [ui EXCEPT !.streaming = FALSE, !.draft = 0]
           ELSE [ui EXCEPT !.streaming = FALSE]
  /\ UNCHANGED <<q, log>>

(* The conversation is read again at times; once it is after the end, the bubble goes, *)
(* whosever it is.                                                                     *)
Reads(v, conv) == [v EXCEPT !.read = @ \/ (q.home # None /\ conv = q.home)]
ReadHistory == Panel /\ ui.conv # None /\ q' = Reads(q, ui.conv) /\ UNCHANGED <<ui, net, log>>
ReadBack(c) ==
  /\ c \in net /\ IsTurn(c) /\ c.st = "ended"
  /\ q' = Reads(q, c.conv)
  /\ ui' = IF c.live THEN Gone([ui EXCEPT !.draft = 0, !.offers = FALSE], {"bubble"}) ELSE ui
  /\ net' = (IF c.live THEN Unheard({"bubble"}) ELSE net) \ {c}
  /\ log' = IF c.live THEN Reopened({"bubble"}) ELSE log
-----------------------------------------------------------------------------
(* A card not applied yet, and not being applied, as far as it knows. *)
Apply(card) ==
  /\ Panel /\ OnScreen(card) /\ card \notin ui.applied \cup ui.busy
  /\ net' = net \cup {[card |-> card, live |-> TRUE, st |-> "sent"]}
  /\ ui' = [ui EXCEPT !.busy = @ \cup {card}]
  /\ log' = [log EXCEPT !.tried = @ \cup {card}]
  /\ UNCHANGED q
Serve(c) ==
  /\ c \in Applies /\ c.st = "sent" /\ q.made < 2
  /\ net' = Served(net, c)
  /\ q' = [q EXCEPT !.made = @ + 1]
  /\ UNCHANGED <<ui, log>>
RememberedNot(v, card) == v            \* broken: only the card on screen learns of it
Remembered(v, card) == [v EXCEPT !.marks = @ \cup {card}]
Done(c) ==
  /\ c \in Applies /\ c.st = "done"
  /\ net' = net \ {c}
  /\ q' = Remembered(q, c.card)
  /\ ui' = IF c.live THEN [ui EXCEPT !.busy = @ \ {c.card}, !.applied = @ \cup {c.card}] ELSE ui
  /\ UNCHANGED log
ApplyFails(c) ==
  /\ c \in Applies
  /\ net' = net \ {c}
  /\ ui' = IF c.live THEN [ui EXCEPT !.busy = @ \ {c.card}] ELSE ui
  /\ log' = IF c.st = "done" THEN [log EXCEPT !.why = @ \cup {"lost"}] ELSE log
  /\ UNCHANGED q

Next ==
  \/ Leave \/ Return \/ NewConversation \/ Send \/ ReadHistory
  \/ \E conv \in Conversations : PickConversation(conv)
  \/ \E card \in Cards : Apply(card)
  \/ \E c \in net : \/ Named(c) \/ Proposal(c) \/ Ends(c) \/ ReadBack(c)
                    \/ Serve(c) \/ Done(c) \/ ApplyFails(c)

Spec == Init /\ [][Next]_vars
-----------------------------------------------------------------------------
(* While a message is being answered its bubble is on screen: though its conversation    *)
(* gets its name meanwhile, or the user picks another; unless it was sent while the last *)
(* one was still being read back, which then takes this one's bubble away.               *)
AnswerIsShown == ui.streaming /\ ~log.early => ui.draft = log.n

(* A proposal is applied once, however often its card leaves the screen and comes back:  *)
(* unless the card in the bubble was applied and the stored one, which has another name, *)
(* is as well; or a card is left while it is being applied, or the answer to that is     *)
(* lost.                                                                                 *)
AppliedOnce == log.why = {} /\ log.tried # Cards => q.made <= 1
=============================================================================
