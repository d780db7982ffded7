-------------------------------- MODULE Chat --------------------------------
(***************************************************************************)
(* The owner's chat (interface/telegram_bot.py): messages whose buttons    *)
(* stay on the screen, updates that wait in a queue and are handled one at *)
(* a time, and calls of Telegram that fail.                                *)
(*                                                                         *)
(* A button carries its meaning from the moment it was drawn.  A handler   *)
(* answers the tap, draws over the message and calls the agent, some of    *)
(* them before and some after they draw; a call of Telegram that raises    *)
(* ends the handler where it stands.  Telegram refuses an edit that        *)
(* changes nothing.                                                        *)
(*                                                                         *)
(* The agent is abstract here: a call of it is one step with every outcome *)
(* it may have (module Agent has its insides).  Messages without buttons,  *)
(* amounts and wording are left out.                                       *)
(***************************************************************************)
EXTENDS Integers, Sequences

CONSTANTS
  Coins,     \* the eligible tokens
  Basket,    \* the recommended ones
  Stops, Targets, Sizes, Goals, Bets,   \* what the menus and commands offer
  Commands,  \* the commands that the owner types
  MaxEvents  \* bound of the run: updates sent and what the agent does on its own, together

ASSUME ChatAssumption ==
  /\ Basket \subseteq Coins
  /\ Stops \cup Targets \cup Sizes \cup Goals \cup Bets \cup {MaxEvents} \subseteq Nat

VARIABLES
  state,      \* self.state: "RUN" for SCANNING and IN_POSITION, "PAUSED" or "HALTED"
  loops,      \* the loops are running
  halted,     \* the halt flag of the risk engine
  copilot,    \* _copilot
  settings,   \* what configure sets
  book,       \* the tokens of self.positions
  pending,    \* _pending: the one proposal that awaits the owner, fresh for 60 s
  seq,        \* _prop_seq
  disk,       \* the state in the state file
  chat,       \* the messages with buttons: what each shows, and its history
  inbox,      \* the updates not handled yet
  handler,    \* the handler under way
  life,       \* the lives of the process
  events,     \* the updates sent, and what the agent has done on its own
  bought      \* the purchases the owner has approved (history)
agent == <<state, loops, halted, copilot, settings, book, disk>>
offer == <<pending, seq>>
vars == <<agent, offer, chat, inbox, handler, life, events, bought>>

None == [pid |-> 0, sym |-> "", fresh |-> FALSE]
Idle == [pc |-> "idle"]

(***************************************************************************)
(* Screens and their buttons                                               *)
(***************************************************************************)
Home == <<"home", copilot>>
\* A message: its screen; did, the confirmation that it has carried out last, and used, how often
\* since something else was drawn; and the proposal it told, with what has become of it.
Message(screen) == [screen |-> screen, did |-> <<"nothing">>, used |-> 0,
                    pid |-> 0, sym |-> "", life |-> life, fate |-> "none"]
Told(pid, sym) ==
  [Message(<<"proposal", pid>>) EXCEPT !.pid = pid, !.sym = sym, !.fate = "open"]

Focuses == {Basket, Coins} \cup {{c} : c \in Coins}

\* The keyboard under a screen; one that only tells what is being done has none.
Buttons(screen) ==
  CASE screen[1] = "home" ->
         {<<"cfg">>, <<"manual">>, <<"copilot", ~screen[2]>>, <<"status">>, <<"activate">>,
          <<"pause">>, <<"withdraw">>}
    [] screen[1] = "tokens" -> {<<"tok", f>> : f \in Focuses}
    [] screen[1] = "risk" -> {<<"risk", p>> : p \in Stops} \cup {<<"cfg">>}
    [] screen[1] = "profit" -> {<<"tp", p>> : p \in Targets} \cup {<<"cfg">>}
    [] screen[1] = "size" -> {<<"size", p>> : p \in Sizes} \cup {<<"cfg">>}
    [] screen[1] = "summary" -> {<<"activate">>, <<"cfg">>}
    [] screen[1] = "coins" -> {<<"mbuy", c>> : c \in screen[2]} \cup {<<"back_home">>}
    [] screen[1] = "bet" -> {<<"msz", screen[2], p>> : p \in Bets} \cup {<<"manual">>}
    [] screen[1] = "confirm" ->
         {<<"mgo", screen[2], screen[3]>>, <<"mbuy", screen[2]>>, <<"back_home">>}
    [] screen[1] = "status" ->
         {<<"sell", c>> : c \in screen[2]} \cup {<<"porque">>, <<"status">>}
           \cup {<<"sellall">> : c \in {d \in screen[2] : screen[2] # {d}}}
    [] screen[1] = "sells" -> {<<"sell", c>> : c \in screen[2]}
    [] screen[1] = "sell" -> {<<"sellgo", screen[2]>>, <<"status">>}
    [] screen[1] = "sellall" -> {<<"sellallgo">>, <<"status">>}
    [] screen[1] = "why" -> {<<"porque">>, <<"status">>}
    [] screen[1] = "proposal" -> {<<"appr", screen[2]>>, <<"rej", screen[2]>>}
    [] OTHER -> {}

\* What a handler draws for the data of its button or command.
Screen(data) ==
  CASE data[1] \in {"back_home", "copilot", "/start"} -> Home
    [] data[1] = "cfg" -> <<"tokens">>
    [] data[1] = "tok" -> <<"risk", settings.focus>>
    [] data[1] = "risk" -> <<"profit", settings.stop>>
    [] data[1] = "tp" -> <<"size">>
    [] data[1] = "size" -> <<"summary", settings>>
    [] data[1] = "manual" -> <<"coins", settings.focus>>
    [] data[1] = "mbuy" -> <<"bet", data[2]>>
    [] data[1] = "msz" -> <<"confirm", data[2], data[3], settings.stop>>
    [] data[1] = "mgo" -> <<"buying", data[2], data[3]>>
    [] data[1] \in {"status", "/status"} -> <<"status", book, state, settings>>
    [] data[1] = "/sell" -> <<"sells", book>>
    [] data[1] = "sell" -> <<"sell", data[2]>>
    [] data[1] = "sellall" -> <<"sellall">>
    [] data[1] = "sellgo" -> <<"selling", data[2]>>
    [] data[1] = "sellallgo" -> <<"selling">>
    [] data[1] \in {"porque", "/porque"} -> <<"why">>
    [] data[1] = "withdraw" -> <<"withdrawing">>
    [] data[1] = "appr" -> <<"approved">>
    [] data[1] = "rej" -> <<"rejected">>
    [] data[1] = "activate" -> <<"activated">>
    [] data[1] = "pause" -> <<"paused">>
    [] OTHER -> <<"text">>

\* The handlers that call the agent after they have drawn, and those that call it before.
EagerActsLast ==   \* mutant: a manual buy is made before the message is drawn over
  {"sellgo", "sellallgo", "withdraw", "appr", "/panic", "/reiniciar", "/buy", "/vender"}
ActsLast == {"mgo", "sellgo", "sellallgo", "withdraw", "appr",
             "/panic", "/reiniciar", "/buy", "/vender"}
ActsFirst == {"tok", "risk", "tp", "size", "activate", "pause", "rej", "copilot", "mgo",
              "/pausar", "/copilot", "/meta"} \ ActsLast
Confirmations == {"mgo", "sellgo", "sellallgo"}
Known ==
  {<<"/start">>, <<"/status">>, <<"/porque">>, <<"/sell">>, <<"/panic">>, <<"/pausar">>,
   <<"/reiniciar">>, <<"/ajuda">>}
  \cup {<<"/buy", c>> : c \in Coins} \cup {<<"/vender", c>> : c \in Coins}
  \cup {<<"/copilot", b>> : b \in BOOLEAN} \cup {<<"/meta", g>> : g \in Goals}
ASSUME CommandsAssumption == Commands \subseteq Known

(***************************************************************************)
(* Telegram                                                                *)
(***************************************************************************)
Happens == events < MaxEvents /\ events' = events + 1

Sends(update) ==
  /\ Happens
  /\ inbox' = Append(inbox, update)
  /\ UNCHANGED <<agent, offer, chat, handler, life, bought>>

Taps == \E m \in DOMAIN chat : \E b \in Buttons(chat[m].screen) : Sends([from |-> m, data |-> b])
Types == \E c \in Commands : Sends([from |-> 0, data |-> c])
\* _is_master: the update of anyone else ends here.
Intrudes == Happens /\ UNCHANGED <<agent, offer, chat, inbox, handler, life, bought>>

\* The next update is taken up; a tap is answered first, which Telegram refuses when it is old.
Receives ==
  /\ handler = Idle /\ inbox # <<>> /\ inbox' = Tail(inbox)
  /\ LET u == Head(inbox) IN
     \/ handler' = [pc |-> IF u.data[1] \in ActsFirst THEN "act" ELSE "draw", update |-> u]
     \/ u.from # 0 /\ handler' = Idle
  /\ UNCHANGED <<agent, offer, chat, life, events, bought>>

Data == handler.update.data
Drawn == handler' = IF Data[1] \in ActsLast THEN [handler EXCEPT !.pc = "act"] ELSE Idle
Acted == handler' = IF Data[1] \in ActsFirst THEN [handler EXCEPT !.pc = "draw"] ELSE Idle

Redrawn(m) ==
  [chat EXCEPT ![m].screen = Screen(Data), ![m].used = IF Data = chat[m].did THEN @ ELSE 0]
Changes(m) == Screen(Data) # chat[m].screen \/ Data[1] = "status"   \* prices move

\* The message is drawn over; drawing what it already shows is refused.
Edits ==
  /\ handler.pc = "draw" /\ handler.update.from # 0
  /\ LET m == handler.update.from IN Changes(m) /\ chat' = Redrawn(m)
  /\ Drawn /\ UNCHANGED <<agent, offer, inbox, life, events, bought>>

\* A command is replied to, by a message with buttons or without.
Replies ==
  /\ handler.pc = "draw" /\ handler.update.from = 0
  /\ chat' = IF Buttons(Screen(Data)) # {} THEN Append(chat, Message(Screen(Data))) ELSE chat
  /\ Drawn /\ UNCHANGED <<agent, offer, inbox, life, events, bought>>

\* The call raises, for an edit that changes nothing or with the network, before or after it
\* took effect: the handler ends.  _send_status sends a fresh message instead.
DrawFails ==
  /\ handler.pc = "draw"
  /\ LET m == handler.update.from IN
     \/ chat' = chat
     \/ m # 0 /\ Changes(m) /\ chat' = Redrawn(m)
     \/ Data[1] \in {"status", "/status"} /\ chat' = Append(chat, Message(Screen(Data)))
  /\ handler' = Idle /\ UNCHANGED <<agent, offer, inbox, life, events, bought>>

(***************************************************************************)
(* What the handlers ask of the agent                                      *)
(***************************************************************************)
Asked(kinds) == handler.pc = "act" /\ Data[1] \in kinds
Calls == Acted /\ UNCHANGED <<inbox, life, events>>
Carried ==
  LET m == handler.update.from IN
  IF Data[1] \in Confirmations
  THEN [chat EXCEPT ![m].did = Data, ![m].used = IF Data = chat[m].did THEN @ + 1 ELSE 1]
  ELSE chat

\* configure, which saves; the mode follows the stop.
Configures ==
  /\ Asked({"tok", "risk", "tp", "size", "/meta"})
  /\ settings' = CASE Data[1] = "tok" -> [settings EXCEPT !.focus = Data[2]]
                   [] Data[1] = "risk" -> [settings EXCEPT !.stop = Data[2]]
                   [] Data[1] = "tp" -> [settings EXCEPT !.target = Data[2]]
                   [] Data[1] = "size" -> [settings EXCEPT !.size = Data[2]]
                   [] OTHER -> [settings EXCEPT !.goal = Data[2]]
  /\ disk' = state
  /\ Calls /\ UNCHANGED <<state, loops, halted, copilot, book, offer, chat, bought>>

SetsCopilot ==
  /\ Asked({"copilot", "/copilot"}) /\ copilot' = Data[2] /\ disk' = state
  /\ Calls /\ UNCHANGED <<state, loops, halted, settings, book, offer, chat, bought>>

\* start refuses when HALTED; otherwise it starts the loops, after it has reconciled the book with
\* whatever the wallet holds, which saves a change under the old state.
Reconciles == book' \in SUBSET Coins /\ disk' = IF book' # book THEN state ELSE disk
Starts == IF state = "HALTED" THEN UNCHANGED <<state, loops, book, disk>>
          ELSE Reconciles /\ state' = "RUN" /\ loops' = TRUE
Activates ==
  /\ Asked({"activate"}) /\ Starts
  /\ Calls /\ UNCHANGED <<halted, copilot, settings, offer, chat, bought>>

\* pause saves nothing.
LazyPauses ==   \* mutant: the loops go on
  /\ Asked({"pause", "/pausar"}) /\ state' = "PAUSED"
  /\ Calls /\ UNCHANGED <<loops, halted, copilot, settings, book, disk, offer, chat, bought>>
Pauses ==
  /\ Asked({"pause", "/pausar"}) /\ state' = "PAUSED" /\ loops' = FALSE
  /\ Calls /\ UNCHANGED <<halted, copilot, settings, book, disk, offer, chat, bought>>

\* A manual buy: start unless the agent trades, then force_buy, which asks the gate, opens the
\* position and makes the agent trade whether start has refused or not.
ManualBuys ==
  /\ Asked({"mgo", "/buy"})
  /\ \/ /\ ~halted /\ state' = "RUN" /\ disk' = "RUN"
        /\ book' \in {b \cup {Data[2]} : b \in IF state = "PAUSED" THEN SUBSET Coins ELSE {book}}
        /\ loops' = (loops \/ state = "PAUSED")
     \/ IF state = "RUN" THEN UNCHANGED <<state, loops, book, disk>> ELSE Starts
  /\ chat' = Carried
  /\ Calls /\ UNCHANGED <<halted, copilot, settings, offer, bought>>

Sells ==
  /\ Asked({"sellgo", "/vender", "sellallgo"})
  /\ LET wanted == IF Data[1] = "sellallgo" THEN book ELSE book \cap {Data[2]} IN
     \E sold \in SUBSET wanted :
       /\ book' = book \ sold /\ disk' = IF sold # {} THEN state ELSE disk
  /\ chat' = Carried
  /\ Calls /\ UNCHANGED <<state, loops, halted, copilot, settings, offer, bought>>

\* withdraw_all sells, transfers and pauses, unless it is HALTED; without a destination it does
\* nothing.
Withdraws ==
  /\ Asked({"withdraw"})
  /\ \/ UNCHANGED <<state, loops, book, disk>>
     \/ \E sold \in SUBSET book :
          /\ book' = book \ sold /\ disk' = IF sold # {} THEN state ELSE disk
          /\ IF state = "HALTED" THEN UNCHANGED <<state, loops>>
             ELSE state' = "PAUSED" /\ loops' = FALSE
  /\ Calls /\ UNCHANGED <<halted, copilot, settings, offer, chat, bought>>

Panics ==
  /\ Asked({"/panic"}) /\ state' = "HALTED" /\ loops' = FALSE /\ halted' = TRUE
  /\ \E sold \in SUBSET book :
       book' = book \ sold /\ disk' = IF sold # {} THEN "HALTED" ELSE disk
  /\ Calls /\ UNCHANGED <<copilot, settings, offer, chat, bought>>

\* restart_session
Unlocks ==
  /\ Asked({"/reiniciar"}) /\ state' = "RUN" /\ loops' = TRUE /\ halted' = FALSE /\ disk' = "RUN"
  /\ book' \in SUBSET Coins
  /\ Calls /\ UNCHANGED <<copilot, settings, offer, chat, bought>>

\* approve_proposal takes the proposal away, whether it is late or not, and buys without a gate.
Popped(pid) == IF pending.pid = pid THEN None ELSE pending
Approves ==
  /\ Asked({"appr"}) /\ pending' = Popped(Data[2])
  /\ \/ /\ pending.pid = Data[2] /\ pending.fresh
        /\ book' = book \cup {pending.sym} /\ state' = "RUN" /\ disk' = "RUN"
        /\ bought' = Append(bought, [from |-> handler.update.from, sym |-> pending.sym, life |-> life,
                                     fate |-> chat[handler.update.from].fate])
     \/ UNCHANGED <<book, state, disk, bought>>
  /\ Calls /\ UNCHANGED <<loops, halted, copilot, settings, seq, chat>>

Rejects ==
  /\ Asked({"rej"}) /\ pending' = Popped(Data[2])
  /\ chat' = [chat EXCEPT ![handler.update.from].fate = "rejected"]
  /\ Calls /\ UNCHANGED <<agent, seq, bought>>

(***************************************************************************)
(* What the agent does on its own                                          *)
(***************************************************************************)
Same == UNCHANGED <<inbox, handler, life, bought>>

\* _propose: a late proposal makes room for a new one.  Its message may fail.
SameNumber(n) == n        \* mutant: the number is not advanced
NextNumber(n) == n + 1
Proposes ==
  /\ loops /\ state = "RUN" /\ copilot /\ ~halted /\ ~pending.fresh /\ Happens
  /\ seq' = NextNumber(seq)
  /\ \E c \in Coins \ book :
       /\ pending' = [pid |-> seq', sym |-> c, fresh |-> TRUE]
       /\ chat' \in {chat, Append(chat, Told(seq', c))}
  /\ UNCHANGED agent /\ Same

\* The 60 s are over.
Expires ==
  /\ pending.fresh /\ pending' = [pending EXCEPT !.fresh = FALSE]
  /\ chat' = [m \in DOMAIN chat |->
                IF chat[m].pid = pending.pid /\ chat[m].life = life /\ chat[m].fate = "open"
                  THEN [chat[m] EXCEPT !.fate = "late"] ELSE chat[m]]
  /\ UNCHANGED <<agent, seq, events>> /\ Same

\* The loops buy, in autonomous mode, and sell; each saves.
Trades ==
  /\ Happens /\ loops /\ state = "RUN" /\ disk' = "RUN"
  /\ \E c \in Coins : \/ ~copilot /\ ~halted /\ book' = book \cup {c}
                      \/ book' = book \ {c}
  /\ UNCHANGED <<state, loops, halted, copilot, settings, offer, chat>> /\ Same

\* The circuit breaker, raised by the scan that it cancels.
Breaks ==
  /\ Happens /\ loops /\ state = "RUN" /\ state' = "HALTED" /\ loops' = FALSE
  /\ UNCHANGED <<halted, copilot, settings, book, disk, offer, chat>> /\ Same

\* The process dies and starts again: the state and the settings come from the file, all but the
\* target return; what hangs on its memory is lost.  Telegram keeps the updates that it has not
\* handed over for good.
Restarts ==
  /\ Happens /\ life' = life + 1 /\ handler' = Idle
  /\ inbox' \in {<<>>, inbox} \cup (IF handler = Idle THEN {} ELSE {<<handler.update>> \o inbox})
  /\ state' = disk /\ loops' = (disk = "RUN") /\ halted' = FALSE
  /\ book' \in IF disk = "RUN" THEN SUBSET Coins ELSE {book}
  /\ settings' = [settings EXCEPT !.goal = 0]
  /\ pending' = None /\ seq' = 0
  /\ UNCHANGED <<copilot, disk, chat, bought>>

-----------------------------------------------------------------------------
\* A chat that has been in use, in co-pilot mode: its last message shows any screen that is not a proposal.
Screens ==
  {Home, <<"tokens">>, <<"risk", settings.focus>>, <<"profit", settings.stop>>, <<"size">>,
   <<"summary", settings>>, <<"coins", settings.focus>>, <<"status", book, state, settings>>,
   <<"sells", book>>, <<"sellall">>, <<"why">>}
    \cup {<<"bet", c>> : c \in Basket} \cup {<<"sell", c>> : c \in book}
    \cup {<<"confirm", c, p, settings.stop>> : c \in Basket, p \in Bets}

Init ==
  /\ state = "RUN" /\ loops = TRUE /\ halted = FALSE /\ copilot = TRUE
  /\ settings = [focus |-> Basket, stop |-> 5, target |-> 0, size |-> 25, goal |-> 0]
  /\ book = Basket /\ pending = None /\ seq = 0 /\ disk = "RUN"
  /\ life = 1 /\ \E screen \in Screens : chat = <<Message(screen)>>
  /\ inbox = <<>> /\ handler = Idle /\ events = 0 /\ bought = <<>>

Next == \/ Taps \/ Types \/ Intrudes \/ Receives \/ Edits \/ Replies \/ DrawFails
        \/ Configures \/ SetsCopilot \/ Activates \/ Pauses \/ ManualBuys \/ Sells \/ Withdraws
        \/ Panics \/ Unlocks \/ Approves \/ Rejects
        \/ Proposes \/ Expires \/ Trades \/ Breaks \/ Restarts

Spec == Init /\ [][Next]_vars

-----------------------------------------------------------------------------
TypeOK ==
  /\ state \in {"RUN", "PAUSED", "HALTED"} /\ disk \in {"RUN", "PAUSED", "HALTED"}
  /\ {loops, halted, copilot} \subseteq BOOLEAN /\ book \subseteq Coins
  /\ settings \in [focus : SUBSET Coins, stop : Nat, target : Nat, size : Nat, goal : Nat]
  /\ pending \in [pid : Nat, sym : Coins \cup {""}, fresh : BOOLEAN] /\ seq \in 0 .. MaxEvents
  /\ \A m \in DOMAIN chat : chat[m].used \in Nat /\ chat[m].life \in 1 .. life
  /\ \A i \in DOMAIN inbox : inbox[i].from \in 0 .. Len(chat)
  /\ handler.pc \in {"idle", "draw", "act"}
  \* A trading agent has its loops, unless a purchase has made it one (_open).
  /\ loops => state = "RUN"

\* A confirmation is carried out once until its message shows something else, however often it is
\* tapped while its handler is under way or delivered again after a crash: the edit that changes
\* nothing is refused, and the call to the agent comes after it (on_button's sellgo and mgo,
\* telegram_bot.py:262).  Another confirmation that waits in the queue is carried out too.
SpentOnce == \A m \in DOMAIN chat : chat[m].used <= 1

\* An approval buys the token that its own message told, once, and neither after a rejection nor
\* after its minute (T:165, agent.py:627): as long as the process lives that has told it, for the
\* numbers begin anew with each.
ApprovedAsShown ==
  \A i \in DOMAIN bought :
    LET b == bought[i]
        m == chat[b.from]
    IN b.life = m.life =>
         /\ b.sym = m.sym /\ b.fate = "open"
         /\ \A j \in 1 .. i - 1 : bought[j].from # b.from
=============================================================================
