----------------------------- MODULE Chat_proofs -----------------------------
(***************************************************************************)
(* What the owner's chat keeps, for any tokens, menus, commands and any    *)
(* number of updates, failed calls and restarts: the types, that a         *)
(* confirmation is carried out once, and that an approval buys what its    *)
(* message told.                                                           *)
(***************************************************************************)
EXTENDS Chat, SequenceTheorems, TLAPS

-----------------------------------------------------------------------------
(* Sequences of whatever *)

Listed(s) == \E S : s \in Seq(S)

LEMMA ListFacts ==
  ASSUME NEW s, Listed(s)
  PROVE  Len(s) \in Nat /\ DOMAIN s = 1 .. Len(s)
  BY DEF Listed

LEMMA EmptyListed == Listed(<<>>) /\ Len(<<>>) = 0
  BY EmptySeq DEF Listed

LEMMA SingleListed ==
  ASSUME NEW x
  PROVE  Listed(<<x>>) /\ Len(<<x>>) = 1 /\ <<x>>[1] = x
  <1>1. <<x>> \in Seq({x})
    OBVIOUS
  <1> QED
    BY <1>1 DEF Listed

LEMMA AppendListed ==
  ASSUME NEW s, Listed(s), NEW x
  PROVE  /\ Listed(Append(s, x)) /\ Len(Append(s, x)) = Len(s) + 1
         /\ Append(s, x)[Len(s) + 1] = x
         /\ \A i \in 1 .. Len(s) : Append(s, x)[i] = s[i]
  <1>1. PICK S : s \in Seq(S)
    BY DEF Listed
  <1>2. s \in Seq(S \cup {x}) /\ x \in S \cup {x}
    BY <1>1
  <1> QED
    BY <1>2, AppendProperties DEF Listed

LEMMA TailListed ==
  ASSUME NEW s, Listed(s), s # <<>>
  PROVE  /\ Listed(Tail(s)) /\ Len(Tail(s)) = Len(s) - 1 /\ Head(s) = s[1] /\ Len(s) > 0
         /\ \A i \in 1 .. Len(Tail(s)) : i + 1 \in 1 .. Len(s) /\ Tail(s)[i] = s[i + 1]
  <1>1. PICK S : s \in Seq(S)
    BY DEF Listed
  <1>2. Tail(s) \in Seq(S) /\ Len(Tail(s)) = Len(s) - 1 /\ Head(s) = s[1] /\ Len(s) > 0
    BY <1>1, HeadTailProperties, EmptySeq
  <1>3. \A i \in 1 .. Len(Tail(s)) : i + 1 \in 1 .. Len(s) /\ Tail(s)[i] = s[i + 1]
    BY <1>1, <1>2
  <1> QED
    BY <1>2, <1>3 DEF Listed

LEMMA PrependListed ==
  ASSUME NEW s, Listed(s), NEW x
  PROVE  /\ Listed(<<x>> \o s) /\ Len(<<x>> \o s) = Len(s) + 1
         /\ (<<x>> \o s)[1] = x
         /\ \A i \in 2 .. Len(s) + 1 : i - 1 \in 1 .. Len(s) /\ (<<x>> \o s)[i] = s[i - 1]
  <1>1. PICK S : s \in Seq(S)
    BY DEF Listed
  <1>2. s \in Seq(S \cup {x}) /\ <<x>> \in Seq(S \cup {x})
    BY <1>1
  <1>3. <<x>> \o s \in Seq(S \cup {x}) /\ Len(<<x>> \o s) = Len(s) + 1
    BY <1>2, ConcatProperties
  <1>4. (<<x>> \o s)[1] = x
    BY <1>2, ConcatProperties
  <1>5. \A i \in 2 .. Len(s) + 1 : i - 1 \in 1 .. Len(s) /\ (<<x>> \o s)[i] = s[i - 1]
    BY <1>2, ConcatProperties
  <1> QED
    BY <1>3, <1>4, <1>5 DEF Listed

LEMMA ExceptListed ==
  ASSUME NEW s, Listed(s), NEW t, DOMAIN t = 1 .. Len(s), t = [i \in 1 .. Len(s) |-> t[i]]
  PROVE  Listed(t) /\ Len(t) = Len(s)
  <1>1. Len(s) \in Nat
    BY ListFacts
  <1> DEFINE S == {t[i] : i \in 1 .. Len(s)}
  <1>2. t \in Seq(S) /\ Len(t) = Len(s)
    BY <1>1
  <1> QED
    BY <1>2 DEF Listed

-----------------------------------------------------------------------------
(* What buttons carry and screens show *)

Offers == {"appr", "rej"}

DataOK(d) ==
  /\ d[1] \in {"copilot", "/copilot"} => d[2] \in BOOLEAN
  /\ d[1] = "tok" => d[2] \in SUBSET Coins
  /\ d[1] \in {"risk", "tp", "size", "/meta"} => d[2] \in Nat
  /\ d[1] \in {"mbuy", "msz", "mgo", "sell", "sellgo", "/buy", "/vender"} => d[2] \in Coins

ScreenOK(s) ==
  /\ s[1] = "home" => s[2] \in BOOLEAN
  /\ s[1] \in {"coins", "status", "sells"} => s[2] \in SUBSET Coins
  /\ s[1] \in {"bet", "confirm", "sell"} => s[2] \in Coins

ButtonOK(b, s) ==
  /\ DataOK(b)
  /\ b[1] \in Offers => s[1] = "proposal" /\ b[2] = s[2]

\* A screen carries buttons of its own kind only.
LEMMA PlainButtons ==
  ASSUME NEW s, ScreenOK(s), NEW b \in Buttons(s),
         s[1] \in {"home", "tokens", "risk", "profit", "size", "summary", "coins", "bet"}
  PROVE  ButtonOK(b, s)
  <1>1. CASE s[1] = "home"
    <2> DEFINE other == ~s[2]
    <2>1. other \in BOOLEAN
      OBVIOUS
    <2>2. \/ b = <<"copilot", other>>
          \/ b \in {<<"cfg">>, <<"manual">>, <<"status">>, <<"activate">>, <<"pause">>, <<"withdraw">>}
      BY <1>1 DEF Buttons
    <2> HIDE DEF other
    <2> QED
      BY <2>1, <2>2 DEF ButtonOK, DataOK, Offers
  <1>2. CASE s[1] = "tokens"
    <2>1. Focuses \subseteq SUBSET Coins
      BY ChatAssumption DEF Focuses
    <2>2. PICK f \in Focuses : b = <<"tok", f>>
      BY <1>2 DEF Buttons
    <2> QED
      BY <2>1, <2>2 DEF ButtonOK, DataOK, Offers
  <1>3. CASE s[1] \in {"risk", "profit", "size"}
    <2>1. Stops \subseteq Nat /\ Targets \subseteq Nat /\ Sizes \subseteq Nat
      BY ChatAssumption
    <2>2. b = <<"cfg">> \/ \E p \in Nat : b \in {<<"risk", p>>, <<"tp", p>>, <<"size", p>>}
      BY <1>3, <2>1 DEF Buttons
    <2> QED
      BY <2>2 DEF ButtonOK, DataOK, Offers
  <1>4. CASE s[1] = "summary"
    BY <1>4 DEF Buttons, ButtonOK, DataOK, Offers
  <1>5. CASE s[1] = "coins"
    BY <1>5 DEF ScreenOK, Buttons, ButtonOK, DataOK, Offers
  <1>6. CASE s[1] = "bet"
    <2>1. b = <<"manual">> \/ \E p \in Bets : b = <<"msz", s[2], p>>
      BY <1>6 DEF Buttons
    <2> QED
      BY <1>6, <2>1 DEF ScreenOK, ButtonOK, DataOK, Offers
  <1> QED
    BY <1>1, <1>2, <1>3, <1>4, <1>5, <1>6

LEMMA TradeButtons ==
  ASSUME NEW s, ScreenOK(s), NEW b \in Buttons(s),
         s[1] \in {"confirm", "status", "sells", "sell", "sellall", "why", "proposal"}
  PROVE  ButtonOK(b, s)
  <1>1. CASE s[1] = "confirm"
    <2>1. b \in {<<"mgo", s[2], s[3]>>, <<"mbuy", s[2]>>, <<"back_home">>}
      BY <1>1 DEF Buttons
    <2> QED
      BY <1>1, <2>1 DEF ScreenOK, ButtonOK, DataOK, Offers
  <1>2. CASE s[1] = "status"
    <2>1. \/ \E c \in Coins : b = <<"sell", c>>
          \/ b \in {<<"porque">>, <<"status">>, <<"sellall">>}
      BY <1>2 DEF ScreenOK, Buttons
    <2> QED
      BY <2>1 DEF ButtonOK, DataOK, Offers
  <1>3. CASE s[1] = "sells"
    BY <1>3 DEF ScreenOK, Buttons, ButtonOK, DataOK, Offers
  <1>4. CASE s[1] = "sell"
    BY <1>4 DEF ScreenOK, Buttons, ButtonOK, DataOK, Offers
  <1>5. CASE s[1] \in {"sellall", "why"}
    BY <1>5 DEF Buttons, ButtonOK, DataOK, Offers
  <1>6. CASE s[1] = "proposal"
    BY <1>6 DEF Buttons, ButtonOK, DataOK, Offers
  <1> QED
    BY <1>1, <1>2, <1>3, <1>4, <1>5, <1>6

LEMMA ButtonsOK ==
  ASSUME NEW s, ScreenOK(s), NEW b \in Buttons(s)
  PROVE  ButtonOK(b, s)
  <1>1. s[1] \in {"home", "tokens", "risk", "profit", "size", "summary", "coins", "bet",
                  "confirm", "status", "sells", "sell", "sellall", "why", "proposal"}
    BY DEF Buttons
  <1> QED
    BY <1>1, PlainButtons, TradeButtons

\* What a confirmation leaves on the screen: the same for the same data, whatever the agent does.
Closing(d) ==
  CASE d[1] = "mgo" -> <<"buying", d[2], d[3]>>
    [] d[1] = "sellgo" -> <<"selling", d[2]>>
    [] OTHER -> <<"selling">>

LEMMA ConfirmedScreen ==
  ASSUME NEW d, d[1] \in Confirmations
  PROVE  Screen(d) = Closing(d)
  BY DEF Confirmations, Screen, Closing

LEMMA ScreenDrawn ==
  ASSUME NEW d, DataOK(d), copilot \in BOOLEAN, book \in SUBSET Coins,
         settings.focus \in SUBSET Coins
  PROVE  ScreenOK(Screen(d)) /\ Screen(d)[1] # "proposal"
  <1>1. CASE d[1] \in {"back_home", "copilot", "/start", "cfg", "tok", "risk", "tp", "size"}
    BY <1>1 DEF Screen, ScreenOK, Home
  <1>2. CASE d[1] \in {"manual", "mbuy", "msz", "mgo"}
    BY <1>2 DEF Screen, ScreenOK, DataOK
  <1>3. CASE d[1] \in {"status", "/status", "/sell", "sell", "sellall", "sellgo", "sellallgo"}
    BY <1>3 DEF Screen, ScreenOK, DataOK
  <1>4. CASE d[1] \in {"porque", "/porque", "withdraw", "appr", "rej", "activate", "pause"}
    BY <1>4 DEF Screen, ScreenOK
  <1>5. CASE ~ d[1] \in {"back_home", "copilot", "/start", "cfg", "tok", "risk", "tp", "size",
                         "manual", "mbuy", "msz", "mgo", "status", "/status", "/sell", "sell",
                         "sellall", "sellgo", "sellallgo", "porque", "/porque", "withdraw",
                         "appr", "rej", "activate", "pause"}
    <2>1. Screen(d) = <<"text">>
      BY <1>5 DEF Screen
    <2> QED
      BY <2>1 DEF ScreenOK
  <1> QED
    BY <1>1, <1>2, <1>3, <1>4, <1>5

-----------------------------------------------------------------------------
(* Messages: what a chat keeps while its messages are drawn over, carried   *)
(* out, answered and added to.  The lemmas are about a chat before (c) and   *)
(* after (d), whatever the move                                             *)

Fields == {"screen", "did", "used", "pid", "sym", "life", "fate"}

\* A message that has carried out a confirmation shows what this one has drawn.
MessageOK(r) ==
  /\ DOMAIN r = Fields
  /\ ScreenOK(r.screen) /\ (r.screen[1] = "proposal" => r.screen[2] = r.pid)
  /\ r.pid \in Nat
  /\ r.used \in {0, 1}
  /\ r.used = 1 => r.did[1] \in Confirmations /\ r.screen = Closing(r.did)

ChatOK(c, l) ==
  /\ Listed(c)
  /\ \A m \in 1 .. Len(c) : MessageOK(c[m]) /\ c[m].life \in 1 .. l

Label(r) == <<r.pid, r.sym, r.life>>

\* Messages stay, with the proposal they have told.
Keeps(c, d) ==
  /\ Listed(c) /\ Listed(d) /\ Len(c) <= Len(d)
  /\ \A m \in 1 .. Len(c) : Label(d[m]) = Label(c[m])

\* Only one message changes.
Alters(c, d, k) ==
  /\ d = [c EXCEPT ![k] = d[k]]
  /\ Label(d[k]) = Label(c[k])

UpdateOK(u, c) ==
  /\ DataOK(u.data)
  /\ u.from \in 0 .. Len(c)
  /\ u.from = 0 => ~ u.data[1] \in Confirmations \cup Offers
  /\ u.data[1] \in Offers => u.data[2] = c[u.from].pid

LEMMA Labels ==
  ASSUME NEW q, NEW r, Label(q) = Label(r)
  PROVE  q.pid = r.pid /\ q.sym = r.sym /\ q.life = r.life
  BY DEF Label

LEMMA ChatSame ==
  ASSUME NEW c, NEW l, ChatOK(c, l)
  PROVE  Keeps(c, c)
  BY ListFacts DEF ChatOK, Keeps

LEMMA ChatAltered ==
  ASSUME NEW c, NEW d, NEW l, ChatOK(c, l), NEW k \in 1 .. Len(c), Alters(c, d, k), MessageOK(d[k])
  PROVE  Keeps(c, d) /\ ChatOK(d, l)
  <1>1. Listed(c) /\ Len(c) \in Nat /\ DOMAIN c = 1 .. Len(c)
    BY ListFacts DEF ChatOK
  <1>2. c = [i \in 1 .. Len(c) |-> c[i]]
    BY <1>1 DEF Listed
  <1>3. DOMAIN d = 1 .. Len(c) /\ d = [i \in 1 .. Len(c) |-> d[i]]
    BY <1>1, <1>2 DEF Alters
  <1>4. Listed(d) /\ Len(d) = Len(c)
    BY <1>1, <1>3, ExceptListed
  <1>5. \A i \in 1 .. Len(c) : i # k => d[i] = c[i]
    BY <1>1, <1>2 DEF Alters
  <1>6. \A i \in 1 .. Len(c) : Label(d[i]) = Label(c[i])
    BY <1>5 DEF Alters
  <1>7. \A i \in 1 .. Len(c) : d[i].life = c[i].life
    BY <1>6, Labels
  <1> QED
    BY <1>1, <1>4, <1>5, <1>6, <1>7 DEF ChatOK, Keeps

LEMMA ChatAppended ==
  ASSUME NEW c, NEW l, ChatOK(c, l), NEW r, MessageOK(r), r.life \in 1 .. l
  PROVE  Keeps(c, Append(c, r)) /\ ChatOK(Append(c, r), l)
  <1>1. Listed(c) /\ Len(c) \in Nat
    BY ListFacts DEF ChatOK
  <1>2. /\ Listed(Append(c, r)) /\ Len(Append(c, r)) = Len(c) + 1
        /\ Append(c, r)[Len(c) + 1] = r
        /\ \A i \in 1 .. Len(c) : Append(c, r)[i] = c[i]
    BY <1>1, AppendListed
  <1>3. \A i \in 1 .. Len(c) + 1 : i \in 1 .. Len(c) \/ i = Len(c) + 1
    BY <1>1
  <1>4. Keeps(c, Append(c, r))
    BY <1>1, <1>2 DEF Keeps
  <1>5. \A i \in 1 .. Len(Append(c, r)) :
          MessageOK(Append(c, r)[i]) /\ Append(c, r)[i].life \in 1 .. l
    BY <1>2, <1>3 DEF ChatOK
  <1> QED
    BY <1>2, <1>4, <1>5 DEF ChatOK

LEMMA ChatOlder ==
  ASSUME NEW c, NEW l \in Nat, ChatOK(c, l)
  PROVE  ChatOK(c, l + 1)
  <1>1. \A n \in 1 .. l : n \in 1 .. l + 1
    OBVIOUS
  <1> QED
    BY <1>1 DEF ChatOK

LEMMA UpdateKept ==
  ASSUME NEW c, NEW d, Keeps(c, d), NEW u, UpdateOK(u, c)
  PROVE  UpdateOK(u, d)
  <1>1. Len(c) \in Nat /\ Len(d) \in Nat /\ Len(c) <= Len(d)
    BY ListFacts DEF Keeps
  <1>2. u.from \in 0 .. Len(d)
    BY <1>1 DEF UpdateOK
  <1>3. u.data[1] \in Offers => u.from \in 1 .. Len(c)
    BY <1>1 DEF UpdateOK, Offers
  <1>4. u.data[1] \in Offers => c[u.from].pid = d[u.from].pid
    BY <1>3, Labels DEF Keeps
  <1> QED
    BY <1>2, <1>4 DEF UpdateOK

\* A fresh message, with no history.
LEMMA FreshMessage ==
  ASSUME NEW s, ScreenOK(s), s[1] # "proposal", life \in Nat \ {0}
  PROVE  MessageOK(Message(s)) /\ Message(s).life = life /\ Message(s).pid = 0
  BY DEF Message, MessageOK, Fields

LEMMA ToldMessage ==
  ASSUME NEW p \in Nat, NEW s
  PROVE  /\ MessageOK(Told(p, s)) /\ Told(p, s).life = life /\ Told(p, s).pid = p
         /\ Told(p, s).sym = s /\ Told(p, s).fate = "open"
  <1>1. PICK screen : screen = <<"proposal", p>>
    OBVIOUS
  <1>2. screen[1] = "proposal" /\ screen[2] = p
    BY <1>1
  <1>3. ScreenOK(screen)
    BY <1>2 DEF ScreenOK
  <1>4. PICK r : r = Message(screen)
    OBVIOUS
  <1>5. r = [screen |-> screen, did |-> <<"nothing">>, used |-> 0, pid |-> 0, sym |-> "",
             life |-> life, fate |-> "none"]
    BY <1>4 DEF Message
  <1>6. DOMAIN r = Fields /\ r.screen = screen /\ r.used = 0 /\ r.life = life
    BY <1>5 DEF Fields
  <1>7. PICK q : q = [r EXCEPT !.pid = p, !.sym = s, !.fate = "open"]
    OBVIOUS
  <1>8. DOMAIN q = Fields /\ q.screen = screen /\ q.used = 0 /\ q.life = life /\ q.pid = p
        /\ q.sym = s /\ q.fate = "open"
    BY <1>6, <1>7 DEF Fields
  <1>9. q = Told(p, s)
    BY <1>1, <1>4, <1>7 DEF Told
  <1> QED
    BY <1>2, <1>3, <1>8, <1>9 DEF MessageOK

\* A message drawn over, and one that has carried out a confirmation.
DrawnOver(r, s, d) == [r EXCEPT !.screen = s, !.used = IF d = r.did THEN r.used ELSE 0]
Marked(r, d) == [r EXCEPT !.did = d, !.used = IF d = r.did THEN r.used + 1 ELSE 1]

\* Drawn over: what it has carried out is gone from the screen.
LEMMA RedrawnMessage ==
  ASSUME NEW r, MessageOK(r), NEW d, NEW s, ScreenOK(s), s[1] # "proposal",
         d[1] \in Confirmations => s = Closing(d),
         s # r.screen \/ ~ d[1] \in Confirmations,
         NEW q, q = DrawnOver(r, s, d)
  PROVE  MessageOK(q) /\ Label(q) = Label(r) /\ q.used = 0 /\ q.screen = s /\ q.fate = r.fate
  <1>1. r.used = 1 => d # r.did
    BY DEF MessageOK
  <1>2. q = [r EXCEPT !.screen = s, !.used = 0]
    BY <1>1 DEF MessageOK, DrawnOver
  <1>3. DOMAIN q = Fields /\ q.screen = s /\ q.used = 0 /\ q.pid = r.pid /\ q.sym = r.sym
        /\ q.life = r.life /\ q.fate = r.fate
    BY <1>2 DEF MessageOK, Fields
  <1> QED
    BY <1>3 DEF MessageOK, Label

LEMMA CarriedMessage ==
  ASSUME NEW r, MessageOK(r), NEW d, d[1] \in Confirmations, r.screen = Closing(d), r.used = 0,
         NEW q, q = Marked(r, d)
  PROVE  MessageOK(q) /\ Label(q) = Label(r) /\ q.fate = r.fate
  <1>1. q = [r EXCEPT !.did = d, !.used = 1]
    BY DEF Marked
  <1>2. DOMAIN q = Fields /\ q.screen = r.screen /\ q.used = 1 /\ q.did = d /\ q.pid = r.pid
        /\ q.sym = r.sym /\ q.life = r.life /\ q.fate = r.fate
    BY <1>1 DEF MessageOK, Fields
  <1> QED
    BY <1>2 DEF MessageOK, Label

LEMMA JudgedMessage ==
  ASSUME NEW r, MessageOK(r), NEW f, NEW q, q = [r EXCEPT !.fate = f]
  PROVE  MessageOK(q) /\ Label(q) = Label(r) /\ q.screen = r.screen /\ q.used = r.used /\ q.fate = f
  <1>1. DOMAIN q = Fields /\ q.screen = r.screen /\ q.used = r.used /\ q.did = r.did
        /\ q.pid = r.pid /\ q.sym = r.sym /\ q.life = r.life /\ q.fate = f
    BY DEF MessageOK, Fields
  <1> QED
    BY <1>1 DEF MessageOK, Label

-----------------------------------------------------------------------------
(* The invariants *)

AgentOK ==
  /\ state \in {"RUN", "PAUSED", "HALTED"} /\ disk \in {"RUN", "PAUSED", "HALTED"}
  /\ loops \in BOOLEAN /\ halted \in BOOLEAN /\ copilot \in BOOLEAN /\ book \in SUBSET Coins
  /\ settings \in [focus : SUBSET Coins, stop : Nat, target : Nat, size : Nat, goal : Nat]
  /\ loops => state = "RUN"

\* The agent is called for a confirmation when its message shows it, and has not been yet.
HandlerOK(h, c) ==
  \/ h = Idle
  \/ /\ h.pc \in {"draw", "act"} /\ h = [pc |-> h.pc, update |-> h.update]
     /\ UpdateOK(h.update, c)
     /\ h.pc = "act" /\ h.update.data[1] \in Confirmations =>
          c[h.update.from].used = 0 /\ c[h.update.from].screen = Closing(h.update.data)

InboxOK(q, c) == Listed(q) /\ \A i \in 1 .. Len(q) : UpdateOK(q[i], c)

\* The proposal that waits, and the messages of this life: none has told a later one, and the one
\* that tells the waiting one is still open.
OfferOK ==
  /\ seq \in Nat /\ events \in 0 .. MaxEvents /\ seq <= events
  /\ pending \in [pid : Nat, sym : Coins \cup {""}, fresh : BOOLEAN] /\ pending.pid <= seq
  /\ pending.fresh => pending.pid > 0 /\ pending.sym \in Coins
  /\ \A m \in 1 .. Len(chat) : chat[m].life = life =>
       /\ chat[m].pid <= seq
       /\ pending.fresh /\ chat[m].pid = pending.pid =>
            chat[m].fate = "open" /\ chat[m].sym = pending.sym

ChatInv ==
  /\ AgentOK
  /\ OfferOK
  /\ life \in Nat \ {0}
  /\ ChatOK(chat, life)
  /\ InboxOK(inbox, chat)
  /\ HandlerOK(handler, chat)

-----------------------------------------------------------------------------
(* Types of the agent *)

LEMMA DataNow ==
  ASSUME ChatInv, handler.pc # "idle"
  PROVE  /\ UpdateOK(handler.update, chat) /\ DataOK(Data) /\ handler.pc \in {"draw", "act"}
         /\ handler = [pc |-> handler.pc, update |-> handler.update]
         /\ handler.pc = "act" /\ Data[1] \in Confirmations =>
              /\ chat[handler.update.from].used = 0
              /\ chat[handler.update.from].screen = Closing(Data)
  BY DEF ChatInv, HandlerOK, UpdateOK, Idle, Data

LEMMA AgentChanges ==
  ASSUME ChatInv,
         Configures \/ SetsCopilot \/ Activates \/ Pauses \/ ManualBuys \/ Sells \/ Withdraws
           \/ Panics \/ Unlocks \/ Approves
  PROVE  AgentOK'
  <1> USE DEF ChatInv
  <1>1. handler.pc = "act" => DataOK(Data)
    BY DataNow
  <1>2. CASE Configures
    <2>1. DataOK(Data)
      BY <1>1, <1>2 DEF Configures, Asked
    <2>2. PICK d : d = Data
      OBVIOUS
    <2>3. /\ d[1] \in {"tok", "risk", "tp", "size", "/meta"}
          /\ settings' = CASE d[1] = "tok" -> [settings EXCEPT !.focus = d[2]]
                   [] d[1] = "risk" -> [settings EXCEPT !.stop = d[2]]
                   [] d[1] = "tp" -> [settings EXCEPT !.target = d[2]]
                   [] d[1] = "size" -> [settings EXCEPT !.size = d[2]]
                   [] OTHER -> [settings EXCEPT !.goal = d[2]]
          /\ disk' = state /\ UNCHANGED <<state, loops, halted, copilot, book>>
      BY <1>2, <2>2 DEF Configures, Asked
    <2>4. d[1] = "tok" => d[2] \in SUBSET Coins
      BY <2>1, <2>2 DEF DataOK
    <2>5. d[1] \in {"risk", "tp", "size", "/meta"} => d[2] \in Nat
      BY <2>1, <2>2 DEF DataOK
    <2>6. settings' \in [focus : SUBSET Coins, stop : Nat, target : Nat, size : Nat, goal : Nat]
      BY <2>3, <2>4, <2>5 DEF AgentOK
    <2> QED
      BY <2>3, <2>6 DEF AgentOK
  <1>3. CASE SetsCopilot
    <2>1. Data[2] \in BOOLEAN
      BY <1>1, <1>3 DEF SetsCopilot, Asked, DataOK
    <2> QED
      BY <1>3, <2>1 DEF SetsCopilot, AgentOK
  <1>4. CASE Activates
    BY <1>4 DEF Activates, Starts, Reconciles, AgentOK
  <1>5. CASE Pauses
    BY <1>5 DEF Pauses, AgentOK
  <1>6. CASE ManualBuys
    <2>1. Data[2] \in Coins
      BY <1>1, <1>6 DEF ManualBuys, Asked, DataOK
    <2>2. CASE /\ state' = "RUN" /\ disk' = "RUN"
               /\ book' \in {b \cup {Data[2]} : b \in IF state = "PAUSED" THEN SUBSET Coins ELSE {book}}
               /\ loops' = (loops \/ state = "PAUSED")
      <3>1. book' \in SUBSET Coins
        BY <2>1, <2>2 DEF AgentOK
      <3>2. loops' \in BOOLEAN
        BY <2>2
      <3>3. UNCHANGED <<halted, copilot, settings>>
        BY <1>6 DEF ManualBuys
      <3> QED
        BY <2>2, <3>1, <3>2, <3>3 DEF AgentOK
    <2>3. CASE IF state = "RUN" THEN UNCHANGED <<state, loops, book, disk>> ELSE Starts
      BY <1>6, <2>3 DEF ManualBuys, Starts, Reconciles, AgentOK
    <2> QED
      BY <1>6, <2>2, <2>3 DEF ManualBuys
  <1>7. CASE Sells
    BY <1>7 DEF Sells, AgentOK
  <1>8. CASE Withdraws
    BY <1>8 DEF Withdraws, AgentOK
  <1>9. CASE Panics
    BY <1>9 DEF Panics, AgentOK
  <1>10. CASE Unlocks
    BY <1>10 DEF Unlocks, AgentOK
  <1>11. CASE Approves
    BY <1>11 DEF Approves, OfferOK, AgentOK
  <1> QED
    BY <1>2, <1>3, <1>4, <1>5, <1>6, <1>7, <1>8, <1>9, <1>10, <1>11

LEMMA AgentGoesOn ==
  ASSUME ChatInv, [Next]_vars
  PROVE  AgentOK'
  <1> USE DEF ChatInv
  <1>1. CASE \/ Taps \/ Types \/ Intrudes \/ Receives \/ Edits \/ Replies \/ DrawFails
             \/ Rejects \/ Proposes \/ Expires \/ UNCHANGED vars
    <2>1. UNCHANGED agent
      BY <1>1 DEF Taps, Types, Sends, Intrudes, Receives, Edits, Replies, DrawFails, Rejects,
                  Proposes, Expires, vars
    <2> QED
      BY <2>1 DEF agent, AgentOK
  <1>2. CASE Trades
    BY <1>2 DEF Trades, AgentOK
  <1>3. CASE Breaks
    BY <1>3 DEF Breaks, AgentOK
  <1>4. CASE Restarts
    BY <1>4 DEF Restarts, AgentOK
  <1> QED
    BY <1>1, <1>2, <1>3, <1>4, AgentChanges DEF Next

-----------------------------------------------------------------------------
(* Messages drawn over, carried out and judged *)

DrawnIn(c, m, s, d) == [c EXCEPT ![m].screen = s, ![m].used = IF d = c[m].did THEN @ ELSE 0]
MarkedIn(c, m, d) == [c EXCEPT ![m].did = d, ![m].used = IF d = c[m].did THEN @ + 1 ELSE 1]
Swapped(c, m, r) == [c EXCEPT ![m] = r]

LEMMA RedrawnChat ==
  ASSUME NEW c, Listed(c), NEW m \in 1 .. Len(c), DOMAIN c[m] = Fields, NEW s, NEW d,
         NEW e, e = DrawnIn(c, m, s, d)
  PROVE  e = Swapped(c, m, e[m]) /\ e[m] = DrawnOver(c[m], s, d)
  <1>1. m \in DOMAIN c
    BY ListFacts
  <1>2. PICK b : b = [c EXCEPT ![m].screen = s]
    OBVIOUS
  <1>3. b[m] = [c[m] EXCEPT !.screen = s] /\ DOMAIN b = DOMAIN c /\ b = [c EXCEPT ![m] = b[m]]
    BY <1>1, <1>2
  <1>4. b[m].used = c[m].used
    BY <1>3 DEF Fields
  <1>5. e = [b EXCEPT ![m].used = IF d = c[m].did THEN b[m].used ELSE 0]
    BY <1>2 DEF DrawnIn
  <1>6. e[m] = [b[m] EXCEPT !.used = IF d = c[m].did THEN c[m].used ELSE 0]
    BY <1>1, <1>3, <1>4, <1>5
  <1>7. e = [b EXCEPT ![m] = e[m]]
    BY <1>1, <1>3, <1>5
  <1>8. e = [c EXCEPT ![m] = e[m]]
    BY <1>1, <1>3, <1>7
  <1> QED
    BY <1>3, <1>6, <1>8 DEF Swapped, DrawnOver

LEMMA CarriedChat ==
  ASSUME NEW c, Listed(c), NEW m \in 1 .. Len(c), DOMAIN c[m] = Fields, NEW d,
         NEW e, e = MarkedIn(c, m, d)
  PROVE  e = Swapped(c, m, e[m]) /\ e[m] = Marked(c[m], d)
  <1>1. m \in DOMAIN c
    BY ListFacts
  <1>2. PICK b : b = [c EXCEPT ![m].did = d]
    OBVIOUS
  <1>3. b[m] = [c[m] EXCEPT !.did = d] /\ DOMAIN b = DOMAIN c /\ b = [c EXCEPT ![m] = b[m]]
    BY <1>1, <1>2
  <1>4. b[m].used = c[m].used
    BY <1>3 DEF Fields
  <1>5. e = [b EXCEPT ![m].used = IF d = c[m].did THEN b[m].used + 1 ELSE 1]
    BY <1>2 DEF MarkedIn
  <1>6. e[m] = [b[m] EXCEPT !.used = IF d = c[m].did THEN c[m].used + 1 ELSE 1]
    BY <1>1, <1>3, <1>4, <1>5
  <1>7. e = [b EXCEPT ![m] = e[m]]
    BY <1>1, <1>3, <1>5
  <1>8. e = [c EXCEPT ![m] = e[m]]
    BY <1>1, <1>3, <1>7
  <1> QED
    BY <1>3, <1>6, <1>8 DEF Swapped, Marked

\* What the proposals' history keeps: no message is judged, and none told.
Calm(c, d) ==
  /\ \A m \in 1 .. Len(c) : d[m].fate = c[m].fate
  /\ \A m \in 1 .. Len(d) : m \in 1 .. Len(c) \/ d[m].pid = 0

\* What the handler under way counts on.
Still(c, d) ==
  \A m \in 1 .. Len(c) : d[m].used = c[m].used /\ d[m].screen = c[m].screen

LEMMA AlteredCalm ==
  ASSUME NEW c, NEW d, NEW l, ChatOK(c, l), NEW k \in 1 .. Len(c), Alters(c, d, k),
         d[k].fate = c[k].fate
  PROVE  Calm(c, d)
  <1>1. Listed(c) /\ Len(c) \in Nat /\ DOMAIN c = 1 .. Len(c)
    BY ListFacts DEF ChatOK
  <1>2. c = [i \in 1 .. Len(c) |-> c[i]]
    BY <1>1 DEF Listed
  <1>3. DOMAIN d = 1 .. Len(c) /\ d = [i \in 1 .. Len(c) |-> d[i]]
    BY <1>1, <1>2 DEF Alters
  <1>4. Len(d) = Len(c)
    BY <1>1, <1>3, ExceptListed
  <1>5. \A i \in 1 .. Len(c) : i # k => d[i] = c[i]
    BY <1>1, <1>2 DEF Alters
  <1> QED
    BY <1>4, <1>5 DEF Calm

LEMMA SameCalm ==
  ASSUME NEW c
  PROVE  Calm(c, c) /\ Still(c, c)
  BY DEF Calm, Still

LEMMA AppendedCalm ==
  ASSUME NEW c, NEW l, ChatOK(c, l), NEW r
  PROVE  Still(c, Append(c, r)) /\ (r.pid = 0 => Calm(c, Append(c, r)))
  <1>1. Listed(c) /\ Len(c) \in Nat
    BY ListFacts DEF ChatOK
  <1>2. /\ Len(Append(c, r)) = Len(c) + 1 /\ Append(c, r)[Len(c) + 1] = r
        /\ \A i \in 1 .. Len(c) : Append(c, r)[i] = c[i]
    BY <1>1, AppendListed
  <1>3. \A i \in 1 .. Len(c) + 1 : i \in 1 .. Len(c) \/ i = Len(c) + 1
    BY <1>1
  <1> QED
    BY <1>2, <1>3 DEF Calm, Still

\* A message of the chat, seen from the update that came from it.
LEMMA MessageNow ==
  ASSUME ChatInv, NEW u, UpdateOK(u, chat), u.from # 0
  PROVE  /\ u.from \in 1 .. Len(chat) /\ MessageOK(chat[u.from]) /\ chat[u.from].life \in 1 .. life
         /\ Listed(chat) /\ DOMAIN chat[u.from] = Fields
  <1>1. Len(chat) \in Nat /\ Listed(chat)
    BY ListFacts DEF ChatInv, ChatOK
  <1>2. u.from \in 1 .. Len(chat)
    BY <1>1 DEF UpdateOK
  <1> QED
    BY <1>1, <1>2 DEF ChatInv, ChatOK, MessageOK

LEMMA RedrawnNow ==
  ASSUME ChatInv, handler.pc = "draw", handler.update.from # 0, Changes(handler.update.from),
         chat' = Redrawn(handler.update.from)
  PROVE  /\ Keeps(chat, chat') /\ ChatOK(chat', life) /\ Calm(chat, chat')
         /\ chat'[handler.update.from].used = 0
         /\ chat'[handler.update.from].screen = Screen(Data)
  <1>1. PICK m, d, s, e : m = handler.update.from /\ d = Data /\ s = Screen(Data) /\ e = chat'
    OBVIOUS
  <1>2. UpdateOK(handler.update, chat) /\ DataOK(d)
    BY <1>1, DataNow
  <1>3. m \in 1 .. Len(chat) /\ MessageOK(chat[m]) /\ Listed(chat) /\ DOMAIN chat[m] = Fields
    BY <1>1, <1>2, MessageNow
  <1>4. ScreenOK(s) /\ s[1] # "proposal"
    BY <1>1, <1>2, ScreenDrawn DEF ChatInv, AgentOK
  <1>5. d[1] \in Confirmations => s = Closing(d)
    BY <1>1, ConfirmedScreen
  <1>6. s # chat[m].screen \/ ~ d[1] \in Confirmations
    BY <1>1 DEF Changes, Confirmations
  <1>7. e = DrawnIn(chat, m, s, d)
    BY <1>1 DEF Redrawn, DrawnIn
  <1>8. e = Swapped(chat, m, e[m]) /\ e[m] = DrawnOver(chat[m], s, d)
    BY <1>3, <1>7, RedrawnChat
  <1>9. /\ MessageOK(e[m]) /\ Label(e[m]) = Label(chat[m]) /\ e[m].used = 0
        /\ e[m].screen = s /\ e[m].fate = chat[m].fate
    BY <1>3, <1>4, <1>5, <1>6, <1>8, RedrawnMessage
  <1>10. Alters(chat, e, m)
    BY <1>8, <1>9 DEF Alters, Swapped
  <1>11. Keeps(chat, e) /\ ChatOK(e, life)
    BY <1>3, <1>9, <1>10, ChatAltered DEF ChatInv
  <1>12. Calm(chat, e)
    BY <1>3, <1>9, <1>10, AlteredCalm DEF ChatInv
  <1> QED
    BY <1>1, <1>9, <1>11, <1>12

LEMMA CarriedNow ==
  ASSUME ChatInv, handler.pc = "act", chat' = Carried
  PROVE  Keeps(chat, chat') /\ ChatOK(chat', life) /\ Calm(chat, chat')
  <1>1. PICK m, d, e : m = handler.update.from /\ d = Data /\ e = chat'
    OBVIOUS
  <1>2. CASE d[1] \in Confirmations
    <2>1. /\ UpdateOK(handler.update, chat)
          /\ chat[m].used = 0 /\ chat[m].screen = Closing(d)
      BY <1>1, <1>2, DataNow
    <2>2. m # 0
      BY <1>1, <1>2, <2>1 DEF UpdateOK, Data
    <2>3. m \in 1 .. Len(chat) /\ MessageOK(chat[m]) /\ Listed(chat) /\ DOMAIN chat[m] = Fields
      BY <1>1, <2>1, <2>2, MessageNow
    <2>4. e = MarkedIn(chat, m, d)
      BY <1>1, <1>2 DEF Carried, MarkedIn
    <2>5. e = Swapped(chat, m, e[m]) /\ e[m] = Marked(chat[m], d)
      BY <2>3, <2>4, CarriedChat
    <2>6. MessageOK(e[m]) /\ Label(e[m]) = Label(chat[m]) /\ e[m].fate = chat[m].fate
      BY <1>2, <2>1, <2>3, <2>5, CarriedMessage
    <2>7. Alters(chat, e, m)
      BY <2>5, <2>6 DEF Alters, Swapped
    <2>8. Keeps(chat, e) /\ ChatOK(e, life)
      BY <2>3, <2>6, <2>7, ChatAltered DEF ChatInv
    <2>9. Calm(chat, e)
      BY <2>3, <2>6, <2>7, AlteredCalm DEF ChatInv
    <2> QED
      BY <1>1, <2>8, <2>9
  <1>3. CASE ~ d[1] \in Confirmations
    <2>1. chat' = chat
      BY <1>1, <1>3 DEF Carried
    <2> QED
      BY <2>1, ChatSame, SameCalm DEF ChatInv
  <1> QED
    BY <1>2, <1>3

LEMMA RejectedNow ==
  ASSUME ChatInv, handler.pc = "act", Data[1] = "rej",
         chat' = [chat EXCEPT ![handler.update.from].fate = "rejected"]
  PROVE  /\ Keeps(chat, chat') /\ ChatOK(chat', life) /\ Still(chat, chat')
         /\ handler.update.from \in 1 .. Len(chat) /\ Len(chat') = Len(chat)
         /\ chat[handler.update.from].pid = Data[2]
         /\ \A i \in 1 .. Len(chat) : i # handler.update.from => chat'[i] = chat[i]
  <1>1. PICK m, e : m = handler.update.from /\ e = chat'
    OBVIOUS
  <1>2. UpdateOK(handler.update, chat)
    BY DataNow
  <1>3. m # 0 /\ chat[m].pid = Data[2]
    BY <1>1, <1>2 DEF UpdateOK, Data, Offers
  <1>4. m \in 1 .. Len(chat) /\ MessageOK(chat[m]) /\ Listed(chat)
    BY <1>1, <1>2, <1>3, MessageNow
  <1>5. DOMAIN chat = 1 .. Len(chat) /\ Len(chat) \in Nat /\ chat = [i \in 1 .. Len(chat) |-> chat[i]]
    BY <1>4, ListFacts DEF Listed
  <1>6. e[m] = [chat[m] EXCEPT !.fate = "rejected"] /\ e = [chat EXCEPT ![m] = e[m]]
    BY <1>1, <1>4, <1>5
  <1>7. /\ MessageOK(e[m]) /\ Label(e[m]) = Label(chat[m])
        /\ e[m].screen = chat[m].screen /\ e[m].used = chat[m].used
    BY <1>4, <1>6, JudgedMessage
  <1>8. Alters(chat, e, m)
    BY <1>6, <1>7 DEF Alters
  <1>9. Keeps(chat, e) /\ ChatOK(e, life)
    BY <1>4, <1>7, <1>8, ChatAltered DEF ChatInv
  <1>10. \A i \in 1 .. Len(chat) : i # m => e[i] = chat[i]
    BY <1>5, <1>6
  <1>11. Still(chat, e)
    BY <1>7, <1>10 DEF Still
  <1>12. DOMAIN e = 1 .. Len(chat) /\ e = [i \in 1 .. Len(chat) |-> e[i]]
    BY <1>5, <1>6
  <1>13. Len(e) = Len(chat)
    BY <1>4, <1>12, ExceptListed
  <1> QED
    BY <1>1, <1>3, <1>4, <1>9, <1>10, <1>11, <1>13

LEMMA ExpiredNow ==
  ASSUME ChatInv, Expires
  PROVE  /\ Keeps(chat, chat') /\ ChatOK(chat', life) /\ Still(chat, chat')
         /\ Len(chat') = Len(chat)
  <1>1. Listed(chat) /\ DOMAIN chat = 1 .. Len(chat)
    BY ListFacts DEF ChatInv, ChatOK
  <1>2. \A m \in 1 .. Len(chat) : chat'[m] \in {chat[m], [chat[m] EXCEPT !.fate = "late"]}
    BY <1>1 DEF Expires
  <1>3. DOMAIN chat' = 1 .. Len(chat) /\ chat' = [m \in 1 .. Len(chat) |-> chat'[m]]
    BY <1>1 DEF Expires
  <1>4. PICK e : e = chat'
    OBVIOUS
  <1>5. Listed(e) /\ Len(e) = Len(chat)
    BY <1>1, <1>3, <1>4, ExceptListed
  <1>6. \A m \in 1 .. Len(chat) :
          /\ MessageOK(e[m]) /\ Label(e[m]) = Label(chat[m])
          /\ e[m].screen = chat[m].screen /\ e[m].used = chat[m].used
    <2> TAKE m \in 1 .. Len(chat)
    <2>1. MessageOK(chat[m])
      BY DEF ChatInv, ChatOK
    <2>2. CASE e[m] = chat[m]
      BY <2>1, <2>2
    <2>3. CASE e[m] = [chat[m] EXCEPT !.fate = "late"]
      BY <2>1, <2>3, JudgedMessage
    <2> QED
      BY <1>2, <1>4, <2>2, <2>3
  <1>7. \A m \in 1 .. Len(chat) : e[m].life = chat[m].life
    BY <1>6, Labels
  <1>8. Len(chat) \in Nat
    BY <1>1, ListFacts
  <1>9. ChatOK(e, life)
    BY <1>5, <1>6, <1>7 DEF ChatInv, ChatOK
  <1>10. Keeps(chat, e)
    BY <1>1, <1>5, <1>6, <1>8 DEF Keeps
  <1>11. Still(chat, e)
    BY <1>6 DEF Still
  <1> QED
    BY <1>4, <1>5, <1>9, <1>10, <1>11

-----------------------------------------------------------------------------
(* The queue and the handler under way *)

LEMMA InboxKept ==
  ASSUME NEW c, NEW d, Keeps(c, d), NEW q, InboxOK(q, c)
  PROVE  InboxOK(q, d)
  BY UpdateKept DEF InboxOK

LEMMA InboxEmpty ==
  ASSUME NEW c
  PROVE  InboxOK(<<>>, c)
  BY EmptyListed DEF InboxOK

LEMMA InboxAppended ==
  ASSUME NEW c, NEW q, InboxOK(q, c), NEW u, UpdateOK(u, c)
  PROVE  InboxOK(Append(q, u), c)
  <1>1. Listed(q) /\ Len(q) \in Nat
    BY ListFacts DEF InboxOK
  <1>2. /\ Listed(Append(q, u)) /\ Len(Append(q, u)) = Len(q) + 1
        /\ Append(q, u)[Len(q) + 1] = u
        /\ \A i \in 1 .. Len(q) : Append(q, u)[i] = q[i]
    BY <1>1, AppendListed
  <1>3. \A i \in 1 .. Len(q) + 1 : i \in 1 .. Len(q) \/ i = Len(q) + 1
    BY <1>1
  <1> QED
    BY <1>2, <1>3 DEF InboxOK

LEMMA InboxTaken ==
  ASSUME NEW c, NEW q, InboxOK(q, c), q # <<>>
  PROVE  InboxOK(Tail(q), c) /\ UpdateOK(Head(q), c)
  <1>1. /\ Listed(Tail(q)) /\ Len(Tail(q)) = Len(q) - 1 /\ Head(q) = q[1] /\ Len(q) > 0
        /\ \A i \in 1 .. Len(Tail(q)) : i + 1 \in 1 .. Len(q) /\ Tail(q)[i] = q[i + 1]
    BY TailListed DEF InboxOK
  <1>2. Len(q) \in Nat
    BY ListFacts DEF InboxOK
  <1>3. 1 \in 1 .. Len(q)
    BY <1>1, <1>2
  <1> QED
    BY <1>1, <1>3 DEF InboxOK

LEMMA InboxReturned ==
  ASSUME NEW c, NEW q, InboxOK(q, c), NEW u, UpdateOK(u, c)
  PROVE  InboxOK(<<u>> \o q, c)
  <1>1. Listed(q) /\ Len(q) \in Nat
    BY ListFacts DEF InboxOK
  <1>2. /\ Listed(<<u>> \o q) /\ Len(<<u>> \o q) = Len(q) + 1
        /\ (<<u>> \o q)[1] = u
        /\ \A i \in 2 .. Len(q) + 1 : i - 1 \in 1 .. Len(q) /\ (<<u>> \o q)[i] = q[i - 1]
    BY <1>1, PrependListed
  <1>3. \A i \in 1 .. Len(q) + 1 : i \in 2 .. Len(q) + 1 \/ i = 1
    BY <1>1
  <1> QED
    BY <1>2, <1>3 DEF InboxOK

LEMMA HandlerKept ==
  ASSUME NEW c, NEW d, Keeps(c, d), Still(c, d), NEW h, HandlerOK(h, c)
  PROVE  HandlerOK(h, d)
  <1>1. CASE h = Idle
    BY <1>1 DEF HandlerOK
  <1>2. CASE h # Idle
    <2>1. UpdateOK(h.update, c)
      BY <1>2 DEF HandlerOK
    <2>2. UpdateOK(h.update, d)
      BY <2>1, UpdateKept
    <2>3. Len(c) \in Nat
      BY ListFacts DEF Keeps
    <2>4. h.update.data[1] \in Confirmations => h.update.from \in 1 .. Len(c)
      BY <2>1, <2>3 DEF UpdateOK
    <2> QED
      BY <1>2, <2>2, <2>4 DEF HandlerOK, Still
  <1> QED
    BY <1>1, <1>2

LEMMA HandlerStarted ==
  ASSUME NEW c, NEW u, UpdateOK(u, c), NEW p \in {"draw", "act"},
         p = "act" /\ u.data[1] \in Confirmations =>
           c[u.from].used = 0 /\ c[u.from].screen = Closing(u.data)
  PROVE  HandlerOK([pc |-> p, update |-> u], c)
  <1>1. PICK h : h = [pc |-> p, update |-> u]
    OBVIOUS
  <1>2. h.pc = p /\ h.update = u /\ h = [pc |-> h.pc, update |-> h.update]
    BY <1>1
  <1> QED
    BY <1>1, <1>2 DEF HandlerOK

LEMMA Kinds ==
  /\ ActsFirst \cap Confirmations = {} /\ ActsFirst \cap ActsLast = {}
  /\ Confirmations \subseteq ActsLast
  BY DEF ActsFirst, ActsLast, Confirmations

\* The handler goes on, after it has drawn or after it has called.
LEMMA HandlerDrawn ==
  ASSUME ChatInv, handler.pc = "draw", Drawn, Keeps(chat, chat'),
         Data[1] \in Confirmations =>
           /\ chat'[handler.update.from].used = 0
           /\ chat'[handler.update.from].screen = Screen(Data)
  PROVE  HandlerOK(handler', chat')
  <1>1. PICK u, d : u = handler.update /\ d = chat'
    OBVIOUS
  <1>2. UpdateOK(u, chat) /\ handler = [pc |-> "draw", update |-> u]
    BY <1>1, DataNow
  <1>3. UpdateOK(u, d)
    BY <1>1, <1>2, UpdateKept
  <1>4. u.data[1] \in Confirmations => d[u.from].used = 0 /\ d[u.from].screen = Closing(u.data)
    BY <1>1, ConfirmedScreen DEF Data
  <1>5. [handler EXCEPT !.pc = "act"] = [pc |-> "act", update |-> u]
    BY <1>2
  <1>6. CASE handler' = Idle
    BY <1>6 DEF HandlerOK
  <1>7. CASE handler' = [pc |-> "act", update |-> u]
    BY <1>1, <1>3, <1>4, <1>7, HandlerStarted
  <1> QED
    BY <1>5, <1>6, <1>7 DEF Drawn

LEMMA HandlerActed ==
  ASSUME ChatInv, handler.pc = "act", Acted, Keeps(chat, chat')
  PROVE  HandlerOK(handler', chat')
  <1>1. PICK u, d : u = handler.update /\ d = chat'
    OBVIOUS
  <1>2. UpdateOK(u, chat) /\ handler = [pc |-> "act", update |-> u]
    BY <1>1, DataNow
  <1>3. UpdateOK(u, d)
    BY <1>1, <1>2, UpdateKept
  <1>4. [handler EXCEPT !.pc = "draw"] = [pc |-> "draw", update |-> u]
    BY <1>2
  <1>5. CASE handler' = Idle
    BY <1>5 DEF HandlerOK
  <1>6. CASE handler' = [pc |-> "draw", update |-> u]
    BY <1>1, <1>3, <1>6, HandlerStarted
  <1> QED
    BY <1>4, <1>5, <1>6 DEF Acted

-----------------------------------------------------------------------------
(* One step of the chat *)

\* What every step leaves of the messages and the updates.
QueueGoes ==
  /\ Keeps(chat, chat') /\ ChatOK(chat', life') /\ life' \in Nat \ {0}
  /\ InboxOK(inbox', chat') /\ HandlerOK(handler', chat')

LEMMA TapOK ==
  ASSUME ChatInv, NEW m \in DOMAIN chat, NEW b \in Buttons(chat[m].screen)
  PROVE  UpdateOK([from |-> m, data |-> b], chat)
  <1>1. DOMAIN chat = 1 .. Len(chat) /\ Len(chat) \in Nat
    BY ListFacts DEF ChatInv, ChatOK
  <1>2. MessageOK(chat[m])
    BY <1>1 DEF ChatInv, ChatOK
  <1>3. ButtonOK(b, chat[m].screen)
    BY <1>2, ButtonsOK DEF MessageOK
  <1>4. DataOK(b) /\ (b[1] \in Offers => b[2] = chat[m].pid)
    BY <1>2, <1>3 DEF ButtonOK, MessageOK
  <1>5. m \in 0 .. Len(chat) /\ m # 0
    BY <1>1
  <1>6. PICK u : u = [from |-> m, data |-> b]
    OBVIOUS
  <1>7. u.from = m /\ u.data = b
    BY <1>6
  <1> QED
    BY <1>4, <1>5, <1>6, <1>7 DEF UpdateOK

LEMMA CommandOK ==
  ASSUME ChatInv, NEW c \in Commands
  PROVE  UpdateOK([from |-> 0, data |-> c], chat)
  <1>1. Goals \subseteq Nat /\ c \in Known
    BY ChatAssumption, CommandsAssumption
  <1>2. DataOK(c) /\ ~ c[1] \in Confirmations \cup Offers
    <2>1. CASE c \in {<<"/start">>, <<"/status">>, <<"/porque">>, <<"/sell">>, <<"/panic">>,
                      <<"/pausar">>, <<"/reiniciar">>, <<"/ajuda">>}
      BY <2>1 DEF DataOK, Confirmations, Offers
    <2>2. CASE \E x \in Coins : c \in {<<"/buy", x>>, <<"/vender", x>>}
      BY <2>2 DEF DataOK, Confirmations, Offers
    <2>3. CASE \E x \in BOOLEAN : c = <<"/copilot", x>>
      <3>1. PICK x \in BOOLEAN : c = <<"/copilot", x>>
        BY <2>3
      <3>2. c[1] = "/copilot" /\ c[2] = x
        BY <3>1
      <3> QED
        BY <3>2 DEF DataOK, Confirmations, Offers
    <2>4. CASE \E x \in Nat : c = <<"/meta", x>>
      BY <2>4 DEF DataOK, Confirmations, Offers
    <2> QED
      BY <1>1, <2>1, <2>2, <2>3, <2>4 DEF Known
  <1>3. Len(chat) \in Nat
    BY ListFacts DEF ChatInv, ChatOK
  <1>4. PICK u : u = [from |-> 0, data |-> c]
    OBVIOUS
  <1>5. u.from = 0 /\ u.data = c
    BY <1>4
  <1> QED
    BY <1>2, <1>3, <1>4, <1>5 DEF UpdateOK

\* An update is sent, and taken up.
LEMMA UpdateGoes ==
  ASSUME ChatInv, Taps \/ Types \/ Intrudes \/ Receives
  PROVE  QueueGoes
  <1> USE DEF ChatInv
  <1>1. chat' = chat /\ life' = life
    BY DEF Taps, Types, Intrudes, Receives, Sends
  <1>2. Keeps(chat, chat)
    BY ChatSame
  <1>3. CASE Taps \/ Types
    <2>1. PICK u : UpdateOK(u, chat) /\ inbox' = Append(inbox, u) /\ handler' = handler
      BY <1>3, TapOK, CommandOK DEF Taps, Types, Sends
    <2>2. InboxOK(inbox', chat)
      BY <2>1, InboxAppended
    <2> QED
      BY <1>1, <1>2, <2>1, <2>2 DEF QueueGoes
  <1>4. CASE Intrudes
    BY <1>1, <1>2, <1>4 DEF QueueGoes, Intrudes
  <1>5. CASE Receives
    <2>1. inbox # <<>> /\ inbox' = Tail(inbox)
      BY <1>5 DEF Receives
    <2>2. InboxOK(inbox', chat) /\ UpdateOK(Head(inbox), chat)
      BY <2>1, InboxTaken
    <2>3. PICK u : u = Head(inbox)
      OBVIOUS
    <2>4. PICK p : p = IF u.data[1] \in ActsFirst THEN "act" ELSE "draw"
      OBVIOUS
    <2>5. p \in {"act", "draw"} /\ (p = "act" => ~ u.data[1] \in Confirmations)
      BY <2>4, Kinds
    <2>6. HandlerOK([pc |-> p, update |-> u], chat)
      BY <2>2, <2>3, <2>5, HandlerStarted
    <2>7. handler' = [pc |-> p, update |-> u] \/ handler' = Idle
      BY <1>5, <2>3, <2>4 DEF Receives
    <2>8. HandlerOK(handler', chat)
      BY <2>6, <2>7 DEF HandlerOK
    <2> QED
      BY <1>1, <1>2, <2>2, <2>8 DEF QueueGoes
  <1> QED
    BY <1>3, <1>4, <1>5

\* A message is drawn, or fails to be.
LEMMA DrawGoes ==
  ASSUME ChatInv, Edits \/ Replies \/ DrawFails
  PROVE  QueueGoes /\ Calm(chat, chat')
  <1> USE DEF ChatInv
  <1>1. inbox' = inbox /\ life' = life /\ handler.pc = "draw" /\ handler.pc # "idle"
    BY DEF Edits, Replies, DrawFails
  <1>2. UpdateOK(handler.update, chat) /\ DataOK(Data)
    BY <1>1, DataNow
  <1>3. ScreenOK(Screen(Data)) /\ Screen(Data)[1] # "proposal"
    BY <1>2, ScreenDrawn DEF AgentOK
  <1>4. PICK r : r = Message(Screen(Data))
    OBVIOUS
  <1>5. MessageOK(r) /\ r.life = life /\ r.pid = 0 /\ life \in 1 .. life
    BY <1>3, <1>4, FreshMessage
  <1>6. Keeps(chat, Append(chat, r)) /\ ChatOK(Append(chat, r), life) /\ Calm(chat, Append(chat, r))
    BY <1>5, ChatAppended, AppendedCalm
  <1>7. Keeps(chat, chat) /\ Calm(chat, chat)
    BY ChatSame, SameCalm
  <1>8. CASE Edits
    <2>1. /\ handler.update.from # 0 /\ Changes(handler.update.from)
          /\ chat' = Redrawn(handler.update.from) /\ Drawn
      BY <1>8 DEF Edits
    <2>2. /\ Keeps(chat, chat') /\ ChatOK(chat', life) /\ Calm(chat, chat')
          /\ chat'[handler.update.from].used = 0
          /\ chat'[handler.update.from].screen = Screen(Data)
      BY <1>1, <2>1, RedrawnNow
    <2>3. HandlerOK(handler', chat')
      BY <1>1, <2>1, <2>2, HandlerDrawn
    <2>4. InboxOK(inbox, chat')
      BY <2>2, InboxKept
    <2> QED
      BY <1>1, <2>2, <2>3, <2>4 DEF QueueGoes
  <1>9. CASE Replies
    <2>1. chat' \in {chat, Append(chat, r)} /\ Drawn /\ handler.update.from = 0
      BY <1>4, <1>9 DEF Replies
    <2>2. Keeps(chat, chat') /\ ChatOK(chat', life) /\ Calm(chat, chat')
      BY <1>6, <1>7, <2>1
    <2>3. ~ Data[1] \in Confirmations
      BY <1>2, <2>1 DEF UpdateOK, Data
    <2>4. HandlerOK(handler', chat')
      BY <1>1, <2>1, <2>2, <2>3, HandlerDrawn
    <2>5. InboxOK(inbox, chat')
      BY <2>2, InboxKept
    <2> QED
      BY <1>1, <2>2, <2>4, <2>5 DEF QueueGoes
  <1>10. CASE DrawFails
    <2>1. Keeps(chat, chat') /\ ChatOK(chat', life) /\ Calm(chat, chat')
      <3>1. CASE chat' \in {chat, Append(chat, r)}
        BY <1>6, <1>7, <3>1
      <3>2. CASE /\ handler.update.from # 0 /\ Changes(handler.update.from)
                 /\ chat' = Redrawn(handler.update.from)
        BY <1>1, <3>2, RedrawnNow
      <3> QED
        BY <1>4, <1>10, <3>1, <3>2 DEF DrawFails
    <2>2. HandlerOK(handler', chat')
      BY <1>10 DEF DrawFails, HandlerOK
    <2>3. InboxOK(inbox, chat')
      BY <2>1, InboxKept
    <2> QED
      BY <1>1, <2>1, <2>2, <2>3 DEF QueueGoes
  <1> QED
    BY <1>8, <1>9, <1>10

\* The agent is called.
LEMMA CallGoes ==
  ASSUME ChatInv,
         Configures \/ SetsCopilot \/ Activates \/ Pauses \/ ManualBuys \/ Sells \/ Withdraws
           \/ Panics \/ Unlocks \/ Approves
  PROVE  QueueGoes /\ Calm(chat, chat')
  <1> USE DEF ChatInv
  <1>1. handler.pc = "act" /\ Acted /\ inbox' = inbox /\ life' = life
    BY DEF Configures, SetsCopilot, Activates, Pauses, ManualBuys, Sells, Withdraws, Panics, Unlocks,
           Approves, Asked, Calls
  <1>2. chat' = Carried \/ chat' = chat
    BY DEF Configures, SetsCopilot, Activates, Pauses, ManualBuys, Sells, Withdraws, Panics, Unlocks,
           Approves
  <1>3. Keeps(chat, chat') /\ ChatOK(chat', life) /\ Calm(chat, chat')
    BY <1>1, <1>2, CarriedNow, ChatSame, SameCalm
  <1>4. HandlerOK(handler', chat')
    BY <1>1, <1>3, HandlerActed
  <1>5. InboxOK(inbox, chat')
    BY <1>3, InboxKept
  <1> QED
    BY <1>1, <1>3, <1>4, <1>5 DEF QueueGoes

LEMMA RejectGoes ==
  ASSUME ChatInv, Rejects
  PROVE  QueueGoes
  <1> USE DEF ChatInv
  <1>1. handler.pc = "act" /\ Acted /\ inbox' = inbox /\ life' = life /\ Data[1] = "rej"
        /\ chat' = [chat EXCEPT ![handler.update.from].fate = "rejected"]
    BY DEF Rejects, Asked, Calls
  <1>2. Keeps(chat, chat') /\ ChatOK(chat', life)
    BY <1>1, RejectedNow
  <1>3. HandlerOK(handler', chat')
    BY <1>1, <1>2, HandlerActed
  <1>4. InboxOK(inbox, chat')
    BY <1>2, InboxKept
  <1> QED
    BY <1>1, <1>2, <1>3, <1>4 DEF QueueGoes

\* The agent goes on by itself.
LEMMA AloneGoes ==
  ASSUME ChatInv, Proposes \/ Expires \/ Trades \/ Breaks
  PROVE  QueueGoes
  <1> USE DEF ChatInv
  <1>1. inbox' = inbox /\ life' = life /\ handler' = handler
    BY DEF Proposes, Expires, Trades, Breaks, Same
  <1>2. Keeps(chat, chat') /\ ChatOK(chat', life) /\ Still(chat, chat')
    <2>1. CASE Proposes
      <3>n. PICK n : n = seq'
        OBVIOUS
      <3>1. PICK c : chat' \in {chat, Append(chat, Told(n, c))}
        BY <2>1, <3>n DEF Proposes
      <3>s. seq' = seq + 1
        BY <2>1 DEF Proposes, NextNumber
      <3>t. seq \in Nat
        BY DEF OfferOK
      <3>2. n \in Nat
        BY <3>n, <3>s, <3>t
      <3>3. PICK r : r = Told(n, c)
        OBVIOUS
      <3>4. MessageOK(r) /\ r.life = life /\ life \in 1 .. life
        BY <3>2, <3>3, ToldMessage
      <3>5. /\ Keeps(chat, Append(chat, r)) /\ ChatOK(Append(chat, r), life)
            /\ Still(chat, Append(chat, r))
        BY <3>4, ChatAppended, AppendedCalm
      <3> QED
        BY <3>1, <3>3, <3>5, ChatSame, SameCalm
    <2>2. CASE Expires
      BY <2>2, ExpiredNow
    <2>3. CASE Trades \/ Breaks
      <3>1. chat' = chat
        BY <2>3 DEF Trades, Breaks
      <3> QED
        BY <3>1, ChatSame, SameCalm
    <2> QED
      BY <2>1, <2>2, <2>3
  <1>3. HandlerOK(handler, chat')
    BY <1>2, HandlerKept
  <1>4. InboxOK(inbox, chat')
    BY <1>2, InboxKept
  <1> QED
    BY <1>1, <1>2, <1>3, <1>4 DEF QueueGoes

LEMMA RestartGoes ==
  ASSUME ChatInv, Restarts
  PROVE  QueueGoes
  <1> USE DEF ChatInv
  <1>1. chat' = chat /\ life' = life + 1 /\ handler' = Idle
    BY DEF Restarts
  <1>2. Keeps(chat, chat) /\ ChatOK(chat, life + 1) /\ life + 1 \in Nat \ {0}
    BY ChatSame, ChatOlder
  <1>3. handler # Idle => UpdateOK(handler.update, chat)
    BY DEF HandlerOK
  <1>4. InboxOK(inbox', chat)
    BY <1>3, InboxEmpty, InboxReturned DEF Restarts
  <1>5. HandlerOK(Idle, chat)
    BY DEF HandlerOK
  <1> QED
    BY <1>1, <1>2, <1>4, <1>5 DEF QueueGoes

LEMMA QueueGoesOn ==
  ASSUME ChatInv, [Next]_vars
  PROVE  QueueGoes
  <1>1. CASE UNCHANGED vars
    <2>1. chat' = chat /\ inbox' = inbox /\ handler' = handler /\ life' = life
      BY <1>1 DEF vars
    <2> QED
      BY <2>1, ChatSame DEF QueueGoes, ChatInv
  <1> QED
    BY <1>1, UpdateGoes, DrawGoes, CallGoes, RejectGoes, AloneGoes, RestartGoes DEF Next

-----------------------------------------------------------------------------
(* The proposal that waits *)

OfferType == [pid : Nat, sym : Coins \cup {""}, fresh : BOOLEAN]

LEMMA OfferTypes ==
  ASSUME OfferOK
  PROVE  /\ seq \in Nat /\ events \in Nat /\ MaxEvents \in Nat /\ events <= MaxEvents
         /\ seq <= events
  <1>1. MaxEvents \in Nat
    BY ChatAssumption
  <1>2. seq \in Nat /\ events \in 0 .. MaxEvents /\ seq <= events
    BY DEF OfferOK
  <1> QED
    BY <1>1, <1>2

LEMMA OfferRecord ==
  ASSUME OfferOK
  PROVE  pending.pid \in Nat /\ pending \in OfferType /\ pending.fresh \in BOOLEAN
  BY DEF OfferOK, OfferType

LEMMA NoOffer ==
  None.pid = 0 /\ None.sym = "" /\ None.fresh = FALSE
  /\ None \in OfferType
  BY DEF None, OfferType

LEMMA EventsGoOn ==
  ASSUME OfferOK, Happens \/ events' = events
  PROVE  events' \in 0 .. MaxEvents /\ events <= events'
  <1>1. events \in Nat /\ MaxEvents \in Nat /\ events <= MaxEvents
    BY OfferTypes
  <1>2. events' = events \/ (events < MaxEvents /\ events' = events + 1)
    BY DEF Happens
  <1> QED
    BY <1>1, <1>2

\* The proposal that waits, in numbers.
WaitsOK(p, n) == p \in OfferType /\ p.pid <= n /\ (p.fresh => p.pid > 0 /\ p.sym \in Coins)
LEMMA Waits == OfferOK => WaitsOK(pending, seq)
  BY DEF OfferOK, WaitsOK, OfferType
LEMMA NoneWaits ==
  ASSUME NEW n \in Nat
  PROVE  WaitsOK(None, n)
  <1>p. None.pid = 0
    BY DEF None
  <1>1. None.pid <= n
    BY <1>p
  <1>2. ~None.fresh
    BY DEF None
  <1> QED
    BY <1>1, <1>2, NoOffer DEF WaitsOK

\* A message of this life, old or new.
LEMMA OlderMessages ==
  ASSUME ChatInv, QueueGoes, Calm(chat, chat'), life' = life,
         NEW m \in 1 .. Len(chat'), chat'[m].life = life
  PROVE  /\ chat'[m].pid \in Nat /\ chat'[m].pid <= seq
         /\ pending.fresh /\ chat'[m].pid = pending.pid =>
              chat'[m].fate = "open" /\ chat'[m].sym = pending.sym
  <1>1. seq \in Nat /\ pending.pid \in Nat
    BY OfferTypes, OfferRecord DEF ChatInv
  <1>2. CASE m \in 1 .. Len(chat)
    <2>1. Label(chat'[m]) = Label(chat[m]) /\ chat'[m].fate = chat[m].fate
      BY <1>2 DEF QueueGoes, Keeps, Calm
    <2>2. chat'[m].pid = chat[m].pid /\ chat'[m].sym = chat[m].sym /\ chat[m].life = life
      BY <2>1, Labels
    <2>3. chat[m].pid \in Nat
      BY <1>2 DEF ChatInv, ChatOK, MessageOK
    <2> QED
      BY <1>2, <2>1, <2>2, <2>3 DEF ChatInv, OfferOK
  <1>3. CASE ~ m \in 1 .. Len(chat)
    <2>1. chat'[m].pid = 0
      BY <1>3 DEF Calm
    <2>p. pending.fresh => pending.pid > 0
      BY DEF ChatInv, OfferOK
    <2>2. pending.fresh => pending.pid # 0
      BY <1>1, <2>p
    <2> QED
      BY <1>1, <2>1, <2>2
  <1> QED
    BY <1>2, <1>3

LEMMA OfferKept ==
  ASSUME ChatInv, QueueGoes, Calm(chat, chat'), life' = life, seq' = seq, pending' \in {pending, None},
         Happens \/ events' = events
  PROVE  OfferOK'
  <1>1. events' \in 0 .. MaxEvents /\ seq' <= events' /\ seq' \in Nat
    <2>1. seq \in Nat /\ events \in Nat /\ seq <= events /\ MaxEvents \in Nat
      BY OfferTypes DEF ChatInv
    <2>2. events' \in 0 .. MaxEvents /\ events <= events'
      BY EventsGoOn DEF ChatInv
    <2> QED
      BY <2>1, <2>2
  <1>2. WaitsOK(pending', seq')
    BY Waits, NoneWaits, OfferTypes DEF ChatInv
  <1>3. \A m \in 1 .. Len(chat') : chat'[m].life = life' =>
          /\ chat'[m].pid <= seq'
          /\ pending'.fresh /\ chat'[m].pid = pending'.pid =>
               chat'[m].fate = "open" /\ chat'[m].sym = pending'.sym
    BY OlderMessages, NoOffer
  <1> QED
    BY <1>1, <1>2, <1>3 DEF OfferOK, WaitsOK, OfferType

LEMMA OfferRejected ==
  ASSUME ChatInv, QueueGoes, Rejects
  PROVE  OfferOK'
  <1> USE DEF ChatInv
  <1>1. PICK k : k = handler.update.from
    OBVIOUS
  <1>2. handler.pc = "act" /\ Data[1] = "rej" /\ life' = life /\ seq' = seq /\ events' = events
        /\ pending' = Popped(Data[2])
    BY DEF Rejects, Asked, Calls
  <1>3. chat' = [chat EXCEPT ![handler.update.from].fate = "rejected"]
    BY DEF Rejects
  <1>4. /\ k \in 1 .. Len(chat) /\ Len(chat') = Len(chat) /\ chat[k].pid = Data[2]
        /\ \A i \in 1 .. Len(chat) : i # k => chat'[i] = chat[i]
    BY <1>1, <1>2, <1>3, RejectedNow
  <1>5. pending' \in {pending, None} /\ (pending' = pending => ~pending.fresh \/ pending.pid # Data[2])
    BY <1>2, NoOffer DEF Popped
  <1>6. Label(chat'[k]) = Label(chat[k])
    BY <1>4 DEF QueueGoes, Keeps
  <1>7. chat'[k].pid = chat[k].pid /\ chat'[k].life = chat[k].life
    BY <1>6, Labels
  <1>8. WaitsOK(pending', seq')
    BY <1>2, <1>5, Waits, NoneWaits, OfferTypes
  <1>9. \A m \in 1 .. Len(chat') : chat'[m].life = life' =>
          /\ chat'[m].pid <= seq'
          /\ pending'.fresh /\ chat'[m].pid = pending'.pid =>
               chat'[m].fate = "open" /\ chat'[m].sym = pending'.sym
    <2> SUFFICES ASSUME NEW m \in 1 .. Len(chat), chat'[m].life = life
                 PROVE  /\ chat'[m].pid <= seq
                        /\ pending'.fresh /\ chat'[m].pid = pending'.pid =>
                             chat'[m].fate = "open" /\ chat'[m].sym = pending'.sym
      BY <1>2, <1>4
    <2>1. CASE m = k
      BY <1>4, <1>5, <1>7, <2>1, NoOffer DEF OfferOK
    <2>2. CASE m # k
      BY <1>4, <1>5, <2>2, NoOffer DEF OfferOK
    <2> QED
      BY <2>1, <2>2
  <1> QED
    BY <1>2, <1>8, <1>9 DEF OfferOK, WaitsOK, OfferType

LEMMA OfferExpires ==
  ASSUME ChatInv, QueueGoes, Expires
  PROVE  OfferOK'
  <1> USE DEF ChatInv
  <1>1. /\ life' = life /\ seq' = seq /\ events' = events
        /\ pending' = [pending EXCEPT !.fresh = FALSE]
    BY DEF Expires, Same
  <1>2. pending'.pid = pending.pid /\ pending'.fresh = FALSE
        /\ pending' \in OfferType
    BY <1>1, OfferRecord DEF OfferType
  <1>3. Len(chat') = Len(chat)
    BY ExpiredNow
  <1>4. \A m \in 1 .. Len(chat) : chat'[m].pid = chat[m].pid /\ chat'[m].life = chat[m].life
    BY Labels DEF QueueGoes, Keeps
  <1>5. \A m \in 1 .. Len(chat') : chat'[m].life = life' => chat'[m].pid <= seq'
    BY <1>1, <1>3, <1>4 DEF OfferOK
  <1> QED
    BY <1>1, <1>2, <1>5 DEF OfferOK, OfferType

LEMMA OfferMade ==
  ASSUME ChatInv, QueueGoes, Proposes
  PROVE  OfferOK'
  <1> USE DEF ChatInv
  <1>1. /\ life' = life /\ seq' = seq + 1 /\ Happens
    BY DEF Proposes, NextNumber, Same
  <1>2. seq \in Nat /\ events \in Nat /\ seq <= events /\ MaxEvents \in Nat
    BY OfferTypes
  <1>3. seq' \in Nat /\ seq' > 0 /\ seq < seq' /\ events' \in 0 .. MaxEvents /\ seq' <= events'
    BY <1>1, <1>2 DEF Happens
  <1>n. PICK n : n = seq'
    OBVIOUS
  <1>4. PICK c \in Coins : /\ pending' = [pid |-> n, sym |-> c, fresh |-> TRUE]
                           /\ chat' \in {chat, Append(chat, Told(n, c))}
    BY <1>n DEF Proposes
  <1>5. pending'.pid = n /\ pending'.sym = c
        /\ pending' \in OfferType
    BY <1>3, <1>n, <1>4 DEF OfferType
  <1>6. PICK r : r = Told(n, c)
    OBVIOUS
  <1>7. r.pid = n /\ r.sym = c /\ r.fate = "open"
    BY <1>3, <1>n, <1>6, ToldMessage
  <1>8. Listed(chat) /\ Len(chat) \in Nat
    BY ListFacts DEF ChatOK
  <1>9. \A m \in 1 .. Len(chat') :
           (m \in 1 .. Len(chat) /\ chat'[m] = chat[m]) \/ chat'[m] = r
    <2>1. /\ Len(Append(chat, r)) = Len(chat) + 1 /\ Append(chat, r)[Len(chat) + 1] = r
          /\ \A i \in 1 .. Len(chat) : Append(chat, r)[i] = chat[i]
      BY <1>8, AppendListed
    <2>2. \A i \in 1 .. Len(chat) + 1 : i \in 1 .. Len(chat) \/ i = Len(chat) + 1
      BY <1>8
    <2> QED
      BY <1>4, <1>6, <2>1, <2>2
  <1>10. \A m \in 1 .. Len(chat') : chat'[m].life = life' =>
          /\ chat'[m].pid <= n
          /\ chat'[m].pid = n => chat'[m].fate = "open" /\ chat'[m].sym = c
    <2> SUFFICES ASSUME NEW m \in 1 .. Len(chat'), chat'[m].life = life
                 PROVE  /\ chat'[m].pid <= n
                        /\ chat'[m].pid = n => chat'[m].fate = "open" /\ chat'[m].sym = c
      BY <1>1
    <2>1. CASE m \in 1 .. Len(chat) /\ chat'[m] = chat[m]
      <3>1. chat[m].pid <= seq
        BY <2>1 DEF OfferOK
      <3>2. chat[m].pid \in Nat
        BY <2>1 DEF ChatOK, MessageOK
      <3> QED
        BY <1>2, <1>3, <1>n, <2>1, <3>1, <3>2
    <2>2. CASE chat'[m] = r
      BY <1>3, <1>n, <1>7, <2>2
    <2> QED
      BY <1>9, <2>1, <2>2
  <1>11. WaitsOK(pending', n)
    BY <1>3, <1>n, <1>5 DEF WaitsOK
  <1>12. seq' \in Nat /\ events' \in 0 .. MaxEvents /\ seq' <= events'
    BY <1>3
  <1> QED
    BY <1>n, <1>5, <1>10, <1>11, <1>12 DEF OfferOK, WaitsOK, OfferType

LEMMA OfferLost ==
  ASSUME ChatInv, QueueGoes, Restarts
  PROVE  OfferOK'
  <1> USE DEF ChatInv
  <1>1. chat' = chat /\ life' = life + 1 /\ seq' = 0 /\ pending' = None /\ Happens
    BY DEF Restarts
  <1>2. \A m \in 1 .. Len(chat) : chat[m].life # life'
    BY <1>1 DEF ChatOK
  <1>3. events' \in 0 .. MaxEvents
    BY <1>1, EventsGoOn
  <1>4. seq' \in Nat /\ seq' <= events'
    BY <1>1, <1>3
  <1>5. WaitsOK(None, 0) /\ ~None.fresh
    BY NoneWaits DEF None
  <1> QED
    BY <1>1, <1>2, <1>3, <1>4, <1>5 DEF OfferOK, WaitsOK, OfferType

LEMMA OfferGoesOn ==
  ASSUME ChatInv, QueueGoes, [Next]_vars
  PROVE  OfferOK'
  <1>1. CASE Taps \/ Types \/ Intrudes \/ Receives \/ Trades \/ Breaks \/ UNCHANGED vars
    <2>1. /\ chat' = chat /\ life' = life /\ seq' = seq /\ pending' = pending
          /\ Happens \/ events' = events
      BY <1>1 DEF Taps, Types, Sends, Intrudes, Receives, Trades, Breaks, vars, offer, Same
    <2> QED
      BY <2>1, SameCalm, OfferKept
  <1>2. CASE Edits \/ Replies \/ DrawFails
    <2>1. life' = life /\ seq' = seq /\ pending' = pending /\ events' = events
      BY <1>2 DEF Edits, Replies, DrawFails, offer
    <2> QED
      BY <1>2, <2>1, DrawGoes, OfferKept
  <1>3. CASE Configures \/ SetsCopilot \/ Activates \/ Pauses \/ ManualBuys \/ Sells \/ Withdraws
           \/ Panics \/ Unlocks
    <2>1. life' = life /\ seq' = seq /\ pending' = pending /\ events' = events
      BY <1>3 DEF Configures, SetsCopilot, Activates, Pauses, ManualBuys, Sells, Withdraws, Panics,
                  Unlocks, Calls, offer
    <2> QED
      BY <1>3, <2>1, CallGoes, OfferKept
  <1>4. CASE Approves
    <2>1. life' = life /\ seq' = seq /\ pending' \in {pending, None} /\ events' = events
      BY <1>4 DEF Approves, Calls, Popped
    <2> QED
      BY <1>4, <2>1, CallGoes, OfferKept
  <1> QED
    BY <1>1, <1>2, <1>3, <1>4, OfferRejected, OfferExpires, OfferMade, OfferLost DEF Next

-----------------------------------------------------------------------------
(* What the owner has approved *)

\* A purchase b in a chat c, in a life l in which the proposal p waits.  One whose message is of the
\* same life as itself is what the message told, and its number is gone.
PurchaseOK(b, c, l, p) ==
  /\ b.from \in 1 .. Len(c) /\ c[b.from].pid > 0 /\ b.life \in c[b.from].life .. l
  /\ b.life = c[b.from].life =>
       /\ b.sym = c[b.from].sym /\ b.fate = "open"
       /\ b.life = l => p # c[b.from].pid

Unrepeated(q, c) ==
  \A i \in 1 .. Len(q) : q[i].life = c[q[i].from].life =>
    \A j \in 1 .. i - 1 : q[j].from # q[i].from

BoughtOK ==
  /\ Listed(bought)
  /\ \A i \in 1 .. Len(bought) : PurchaseOK(bought[i], chat, life, pending.pid)
  /\ Unrepeated(bought, chat)

LEMMA PurchaseKept ==
  ASSUME NEW c, NEW d, Keeps(c, d), NEW b, NEW l, NEW p, NEW q, PurchaseOK(b, c, l, p),
         \A m \in 1 .. Len(c) : c[m].life = l /\ c[m].pid > 0 /\ p # c[m].pid => q # c[m].pid
  PROVE  PurchaseOK(b, d, l, q) /\ d[b.from].life = c[b.from].life
  <1>1. Len(c) \in Nat /\ Len(d) \in Nat /\ Len(c) <= Len(d)
    BY ListFacts DEF Keeps
  <1>2. b.from \in 1 .. Len(c)
    BY DEF PurchaseOK
  <1>3. b.from \in 1 .. Len(d)
    BY <1>1, <1>2
  <1>4. Label(d[b.from]) = Label(c[b.from])
    BY <1>2 DEF Keeps
  <1>5. /\ d[b.from].pid = c[b.from].pid /\ d[b.from].sym = c[b.from].sym
        /\ d[b.from].life = c[b.from].life
    BY <1>4, Labels
  <1> QED
    BY <1>2, <1>3, <1>5 DEF PurchaseOK

LEMMA UnrepeatedKept ==
  ASSUME NEW q, Listed(q), NEW c, NEW d, Unrepeated(q, c),
         \A i \in 1 .. Len(q) : d[q[i].from].life = c[q[i].from].life
  PROVE  Unrepeated(q, d)
  BY DEF Unrepeated

\* Whatever the move, if it buys nothing and no proposal waits that was bought before.
LEMMA BoughtKept ==
  ASSUME BoughtOK, QueueGoes, life' = life, bought' = bought,
         \A m \in 1 .. Len(chat) : chat[m].life = life /\ chat[m].pid > 0 /\ pending.pid # chat[m].pid
           => pending'.pid # chat[m].pid
  PROVE  BoughtOK'
  <1>1. PICK d, q : d = chat' /\ q = pending'.pid
    OBVIOUS
  <1>2. \A i \in 1 .. Len(bought) :
          PurchaseOK(bought[i], d, life, q) /\ d[bought[i].from].life = chat[bought[i].from].life
    <2> TAKE i \in 1 .. Len(bought)
    <2>1. PICK b, c, l, p : b = bought[i] /\ c = chat /\ l = life /\ p = pending.pid
      OBVIOUS
    <2>2. PurchaseOK(b, c, l, p) /\ Keeps(c, d)
      BY <1>1, <2>1 DEF BoughtOK, QueueGoes
    <2>3. \A m \in 1 .. Len(c) : c[m].life = l /\ c[m].pid > 0 /\ p # c[m].pid => q # c[m].pid
      BY <1>1, <2>1
    <2>4. PurchaseOK(b, d, l, q) /\ d[b.from].life = c[b.from].life
      BY <2>2, <2>3, PurchaseKept
    <2> QED
      BY <2>1, <2>4
  <1>3. Unrepeated(bought, d)
    BY <1>2, UnrepeatedKept DEF BoughtOK
  <1> QED
    BY <1>1, <1>2, <1>3 DEF BoughtOK

LEMMA BoughtProposed ==
  ASSUME BoughtOK, ChatInv, QueueGoes, Proposes
  PROVE  BoughtOK'
  <1>1. life' = life /\ bought' = bought /\ pending'.pid = seq'
    BY DEF Proposes, Same
  <1>2. seq \in Nat /\ seq' = seq + 1
    BY OfferTypes DEF ChatInv, Proposes, NextNumber
  <1>3. \A m \in 1 .. Len(chat) : chat[m].life = life => seq' # chat[m].pid
    <2> SUFFICES ASSUME NEW m \in 1 .. Len(chat), chat[m].life = life
                 PROVE  seq' # chat[m].pid
      OBVIOUS
    <2>1. chat[m].pid <= seq
      BY DEF ChatInv, OfferOK
    <2>2. chat[m].pid \in Nat
      BY DEF ChatInv, ChatOK, MessageOK
    <2> QED
      BY <1>2, <2>1, <2>2
  <1> QED
    BY <1>1, <1>3, BoughtKept

LEMMA BoughtRestarted ==
  ASSUME BoughtOK, ChatInv, Restarts
  PROVE  BoughtOK'
  <1>1. chat' = chat /\ life' = life + 1 /\ bought' = bought /\ pending' = None
    BY DEF Restarts
  <1>2. life \in Nat
    BY DEF ChatInv
  <1>3. \A i \in 1 .. Len(bought) : PurchaseOK(bought[i], chat, life + 1, pending'.pid)
    <2> TAKE i \in 1 .. Len(bought)
    <2>1. PICK b, n : b = bought[i] /\ n = chat[b.from].life
      OBVIOUS
    <2>2. PurchaseOK(b, chat, life, pending.pid)
      BY <2>1 DEF BoughtOK
    <2>3. b.life \in n .. life
      BY <2>1, <2>2 DEF PurchaseOK
    <2>4. n \in 1 .. life
      BY <2>1, <2>2 DEF PurchaseOK, ChatInv, ChatOK
    <2>5. b.life \in n .. life + 1 /\ b.life # life + 1
      BY <1>2, <2>3, <2>4
    <2>6. PurchaseOK(b, chat, life + 1, pending'.pid)
      BY <2>1, <2>2, <2>5 DEF PurchaseOK
    <2> QED
      BY <2>1, <2>6
  <1> QED
    BY <1>1, <1>3 DEF BoughtOK

LEMMA BoughtApproved ==
  ASSUME BoughtOK, ChatInv, QueueGoes, Approves
  PROVE  BoughtOK'
  <1> USE DEF ChatInv
  <1>1. /\ chat' = chat /\ life' = life /\ pending' = Popped(Data[2])
        /\ handler.pc = "act" /\ Data[1] = "appr"
    BY DEF Approves, Asked, Calls
  <1>2. pending'.pid \in {pending.pid, 0}
    BY <1>1, NoOffer DEF Popped
  <1>3. CASE bought' = bought
    BY <1>1, <1>2, <1>3, BoughtKept
  <1>4. CASE bought' # bought
    <2>1. PICK k, b : k = handler.update.from
            /\ b = [from |-> k, sym |-> pending.sym, life |-> life, fate |-> chat[k].fate]
      OBVIOUS
    <2>2. pending.pid = Data[2] /\ pending.fresh /\ bought' = Append(bought, b)
      BY <1>4, <2>1 DEF Approves
    <2>3. b.from = k /\ b.sym = pending.sym /\ b.life = life /\ b.fate = chat[k].fate
      BY <2>1
    <2>4. UpdateOK(handler.update, chat)
      BY <1>1, DataNow
    <2>5. k # 0 /\ chat[k].pid = pending.pid
      BY <1>1, <2>1, <2>2, <2>4 DEF UpdateOK, Data, Offers
    <2>6. k \in 1 .. Len(chat) /\ chat[k].life \in 1 .. life
      BY <2>1, <2>4, <2>5, MessageNow
    <2>7. pending.pid > 0
      BY <2>2 DEF OfferOK
    <2>8. chat[k].life = life => chat[k].fate = "open" /\ chat[k].sym = pending.sym
      BY <2>2, <2>5, <2>6 DEF OfferOK
    <2>9. pending'.pid = 0 /\ 0 # chat[k].pid
      <3>1. pending' = None
        BY <1>1, <2>2 DEF Popped
      <3>2. None.pid = 0
        BY DEF None
      <3>3. pending.pid \in Nat
        BY OfferRecord
      <3> QED
        BY <2>5, <2>7, <3>1, <3>2, <3>3
    <2>10. life \in chat[k].life .. life
      BY <2>6
    <2>11. PurchaseOK(b, chat, life, 0)
      BY <2>3, <2>5, <2>6, <2>7, <2>8, <2>9, <2>10 DEF PurchaseOK
    <2>12. Keeps(chat, chat)
      BY ChatSame
    <2>13. \A i \in 1 .. Len(bought) : PurchaseOK(bought[i], chat, life, 0)
      <3>1. \A m \in 1 .. Len(chat) : chat[m].pid > 0 => 0 # chat[m].pid
        BY DEF ChatOK, MessageOK
      <3> QED
        BY <2>12, <3>1, PurchaseKept DEF BoughtOK
    <2>14. life = chat[k].life => \A j \in 1 .. Len(bought) : bought[j].from # k
      <3> SUFFICES ASSUME life = chat[k].life, NEW j \in 1 .. Len(bought), bought[j].from = k
                   PROVE  FALSE
        OBVIOUS
      <3>1. PurchaseOK(bought[j], chat, life, pending.pid)
        BY DEF BoughtOK
      <3>2. bought[j].life \in life .. life
        BY <3>1 DEF PurchaseOK
      <3>3. bought[j].life = life
        BY <3>2
      <3> QED
        BY <2>5, <3>1, <3>3 DEF PurchaseOK
    <2>15. Listed(bought) /\ Len(bought) \in Nat
      BY ListFacts DEF BoughtOK
    <2>16. /\ Listed(bought') /\ Len(bought') = Len(bought) + 1 /\ bought'[Len(bought) + 1] = b
           /\ \A i \in 1 .. Len(bought) : bought'[i] = bought[i]
      BY <2>2, <2>15, AppendListed
    <2>17. \A i \in 1 .. Len(bought) + 1 : i \in 1 .. Len(bought) \/ i = Len(bought) + 1
      BY <2>15
    <2>18. \A i \in 1 .. Len(bought') : PurchaseOK(bought'[i], chat, life, 0)
      BY <2>11, <2>13, <2>16, <2>17
    <2>19. Unrepeated(bought', chat)
      <3> SUFFICES ASSUME NEW i \in 1 .. Len(bought) + 1, NEW j \in 1 .. i - 1,
                          bought'[i].life = chat[bought'[i].from].life
                   PROVE  bought'[j].from # bought'[i].from
        BY <2>16 DEF Unrepeated
      <3>1. j \in 1 .. Len(bought) /\ bought'[j] = bought[j]
        BY <2>15, <2>16
      <3>2. CASE i \in 1 .. Len(bought)
        BY <2>16, <3>1, <3>2 DEF BoughtOK, Unrepeated
      <3>3. CASE i = Len(bought) + 1
        BY <2>3, <2>14, <2>16, <3>1, <3>3
      <3> QED
        BY <2>17, <3>2, <3>3
    <2> QED
      BY <1>1, <2>9, <2>16, <2>18, <2>19 DEF BoughtOK
  <1> QED
    BY <1>3, <1>4

LEMMA BoughtGoesOn ==
  ASSUME BoughtOK, ChatInv, QueueGoes, [Next]_vars
  PROVE  BoughtOK'
  <1>1. CASE \/ Taps \/ Types \/ Intrudes \/ Receives \/ Edits \/ Replies \/ DrawFails \/ Expires
             \/ Trades \/ Breaks \/ UNCHANGED vars
    <2>1. /\ life' = life /\ bought' = bought /\ pending'.pid = pending.pid
      BY <1>1, OfferRecord DEF Taps, Types, Sends, Intrudes, Receives, Edits, Replies, DrawFails, Expires,
                  Trades, Breaks, vars, offer, Same, ChatInv, OfferType
    <2> QED
      BY <2>1, BoughtKept
  <1>2. CASE \/ Configures \/ SetsCopilot \/ Activates \/ Pauses \/ ManualBuys \/ Sells \/ Withdraws
             \/ Panics \/ Unlocks
    <2>1. life' = life /\ bought' = bought /\ pending' = pending
      BY <1>2 DEF Configures, SetsCopilot, Activates, Pauses, ManualBuys, Sells, Withdraws, Panics,
                  Unlocks, Calls, offer
    <2> QED
      BY <2>1, BoughtKept
  <1>3. CASE Rejects
    <2>1. life' = life /\ bought' = bought /\ pending' \in {pending, None}
      BY <1>3 DEF Rejects, Calls, Popped
    <2>2. None.pid = 0
      BY DEF None
    <2>3. \A m \in 1 .. Len(chat) : chat[m].pid > 0 => 0 # chat[m].pid
      BY DEF ChatInv, ChatOK, MessageOK
    <2> QED
      BY <2>1, <2>2, <2>3, BoughtKept
  <1> QED
    BY <1>1, <1>2, <1>3, BoughtApproved, BoughtProposed, BoughtRestarted DEF Next

-----------------------------------------------------------------------------
(* The theorems *)

FullInv == ChatInv /\ BoughtOK

LEMMA FirstScreen ==
  ASSUME Init, NEW screen \in Screens
  PROVE  ScreenOK(screen) /\ screen[1] # "proposal"
  <1>1. /\ copilot = TRUE /\ settings.focus = Basket /\ book = Basket
        /\ Basket \subseteq Coins
    BY ChatAssumption DEF Init
  <1>2. CASE screen = Home
    <2>1. screen[1] = "home" /\ screen[2] = copilot
      BY <1>2 DEF Home
    <2> QED
      BY <1>1, <2>1 DEF ScreenOK
  <1>3. CASE screen \in {<<"tokens">>, <<"risk", settings.focus>>, <<"profit", settings.stop>>,
                         <<"size">>, <<"summary", settings>>, <<"sellall">>, <<"why">>}
    BY <1>3 DEF ScreenOK
  <1>4. CASE screen \in {<<"coins", settings.focus>>, <<"status", book, state, settings>>,
                         <<"sells", book>>}
    BY <1>1, <1>4 DEF ScreenOK
  <1>5. CASE \E c \in Basket : screen \in {<<"bet", c>>, <<"sell", c>>}
    BY <1>1, <1>5 DEF ScreenOK
  <1>6. CASE \E c \in Basket, p \in Bets : screen = <<"confirm", c, p, settings.stop>>
    BY <1>1, <1>6 DEF ScreenOK
  <1> QED
    BY <1>1, <1>2, <1>3, <1>4, <1>5, <1>6 DEF Screens

LEMMA FullInit == Init => FullInv
  <1> SUFFICES ASSUME Init PROVE FullInv
    OBVIOUS
  <1>1. AgentOK
    BY ChatAssumption DEF Init, AgentOK
  <1>2. /\ life = 1 /\ inbox = <<>> /\ handler = Idle /\ events = 0 /\ bought = <<>>
        /\ pending = None /\ seq = 0
    BY DEF Init
  <1>3. PICK r : chat = <<r>> /\ MessageOK(r) /\ r.life = 1 /\ r.pid = 0
    <2>1. PICK screen \in Screens : chat = <<Message(screen)>>
      BY DEF Init
    <2>2. life \in Nat \ {0}
      BY <1>2
    <2>3. MessageOK(Message(screen)) /\ Message(screen).life = life /\ Message(screen).pid = 0
      BY <2>2, FirstScreen, FreshMessage
    <2> QED
      BY <1>2, <2>1, <2>3
  <1>4. Listed(chat) /\ Len(chat) = 1 /\ chat[1] = r
    BY <1>3, SingleListed
  <1>5. ChatOK(chat, 1)
    BY <1>3, <1>4 DEF ChatOK
  <1>6. InboxOK(inbox, chat) /\ HandlerOK(handler, chat)
    BY <1>2, InboxEmpty DEF HandlerOK
  <1>7. OfferOK
    <2>1. WaitsOK(None, 0) /\ ~None.fresh
      BY NoneWaits DEF None
    <2>2. 0 \in 0 .. MaxEvents
      BY ChatAssumption
    <2>3. WaitsOK(pending, seq) /\ ~pending.fresh /\ seq \in Nat /\ events \in 0 .. MaxEvents
          /\ seq <= events
      BY <1>2, <2>1, <2>2
    <2>4. \A m \in 1 .. Len(chat) : chat[m].pid = 0
      BY <1>3, <1>4
    <2>5. \A m \in 1 .. Len(chat) : chat[m].pid <= seq
      BY <1>2, <2>4
    <2> QED
      BY <2>3, <2>5 DEF OfferOK, WaitsOK, OfferType
  <1>8. BoughtOK
    BY <1>2, EmptyListed DEF BoughtOK, Unrepeated
  <1> QED
    BY <1>1, <1>2, <1>5, <1>6, <1>7, <1>8 DEF FullInv, ChatInv

LEMMA FullStep == FullInv /\ [Next]_vars => FullInv'
  <1> SUFFICES ASSUME FullInv, [Next]_vars PROVE FullInv'
    OBVIOUS
  <1> USE DEF FullInv
  <1>1. AgentOK'
    BY AgentGoesOn
  <1>2. QueueGoes
    BY QueueGoesOn
  <1>3. OfferOK'
    BY <1>2, OfferGoesOn
  <1>4. BoughtOK'
    BY <1>2, BoughtGoesOn
  <1> QED
    BY <1>1, <1>2, <1>3, <1>4 DEF QueueGoes, ChatInv

LEMMA FullAlways == Spec => []FullInv
  BY FullInit, FullStep, PTL DEF Spec

\* The agent, the messages, the queue and the proposal are what the handlers take them for: every
\* update that waits comes from a message that exists or from the owner's own typing, and a
\* running loop means a trading agent.
THEOREM Typed == Spec => []TypeOK
  <1>1. FullInv => TypeOK
    <2> SUFFICES ASSUME FullInv PROVE TypeOK
      OBVIOUS
    <2> USE DEF FullInv, ChatInv
    <2>1. DOMAIN chat = 1 .. Len(chat) /\ DOMAIN inbox = 1 .. Len(inbox)
      BY ListFacts DEF ChatOK, InboxOK
    <2>2. \A m \in DOMAIN chat : chat[m].used \in Nat /\ chat[m].life \in 1 .. life
      BY <2>1 DEF ChatOK, MessageOK
    <2>3. \A i \in DOMAIN inbox : inbox[i].from \in 0 .. Len(chat)
      BY <2>1 DEF InboxOK, UpdateOK
    <2>4. handler.pc \in {"idle", "draw", "act"}
      BY DEF HandlerOK, Idle
    <2>5. seq \in 0 .. MaxEvents
      BY OfferTypes
    <2>6. pending \in [pid : Nat, sym : Coins \cup {""}, fresh : BOOLEAN]
      BY DEF OfferOK
    <2>7. /\ state \in {"RUN", "PAUSED", "HALTED"} /\ disk \in {"RUN", "PAUSED", "HALTED"}
          /\ {loops, halted, copilot} \subseteq BOOLEAN /\ book \subseteq Coins
          /\ settings \in [focus : SUBSET Coins, stop : Nat, target : Nat, size : Nat, goal : Nat]
          /\ loops => state = "RUN"
      BY DEF AgentOK
    <2> QED
      BY <2>2, <2>3, <2>4, <2>5, <2>6, <2>7 DEF TypeOK
  <1> QED
    BY <1>1, FullAlways, PTL

\* However the owner taps and whatever Telegram loses or hands over again, a message carries out
\* its confirmation once, until it shows something else (on_button, telegram_bot.py:262).
THEOREM CarriedOutOnce == Spec => []SpentOnce
  <1>1. FullInv => SpentOnce
    <2> SUFFICES ASSUME FullInv, NEW m \in DOMAIN chat PROVE chat[m].used <= 1
      BY DEF SpentOnce
    <2>1. m \in 1 .. Len(chat)
      BY ListFacts DEF FullInv, ChatInv, ChatOK
    <2>2. chat[m].used \in {0, 1}
      BY <2>1 DEF FullInv, ChatInv, ChatOK, MessageOK
    <2> QED
      BY <2>2
  <1> QED
    BY <1>1, FullAlways, PTL

\* In one life of the process an approval buys what its own message has told, once, and neither
\* after a rejection nor after its minute (approve_proposal, agent.py:627), for any number of
\* proposals, taps and restarts.
THEOREM BoughtAsShown == Spec => []ApprovedAsShown
  <1>1. FullInv => ApprovedAsShown
    <2> SUFFICES ASSUME FullInv, NEW i \in DOMAIN bought,
                        bought[i].life = chat[bought[i].from].life
                 PROVE  /\ bought[i].sym = chat[bought[i].from].sym /\ bought[i].fate = "open"
                        /\ \A j \in 1 .. i - 1 : bought[j].from # bought[i].from
      BY DEF ApprovedAsShown
    <2>1. i \in 1 .. Len(bought)
      BY ListFacts DEF FullInv, BoughtOK
    <2>2. PurchaseOK(bought[i], chat, life, pending.pid) /\ Unrepeated(bought, chat)
      BY <2>1 DEF FullInv, BoughtOK
    <2> QED
      BY <2>1, <2>2 DEF PurchaseOK, Unrepeated
  <1> QED
    BY <1>1, FullAlways, PTL
=============================================================================
