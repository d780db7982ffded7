----------------------------- MODULE Host_proofs -----------------------------
(***************************************************************************)
(* What a container keeps through any number of kills, crashes, failed     *)
(* writes, edits and restarts, for every value of the constants: the files *)
(* (StateFile), the sessions (SignIn) and the heartbeat (Host), each by an *)
(* invariant of its own over the moves that Host makes of it.              *)
(***************************************************************************)
EXTENDS Host, FiniteSetTheorems, SequenceTheorems, TLAPS

-----------------------------------------------------------------------------
(* The state file and its signature *)

Snapshot == [n : -1 .. MaxSaves + 1, mode : Modes]
Counts == [begun : 0 .. MaxSaves, saved : 0 .. MaxSaves, trades : 0 .. MaxTrades]

\* A history as append_trade leaves it, or is about to.
InOrder(h, most) ==
  /\ h \in Seq(1 .. MaxTrades) /\ Len(h) <= most
  /\ \A i \in 1 .. Len(h) : h[i] <= taken.trades
  /\ \A i \in 1 .. Len(h) - 1 : h[i] < h[i + 1]

\* The snapshot being saved is the last one taken, and not yet saved; while it is signed the file
\* holds it, unless somebody has changed it.
Holds(s) == state = s \/ state.n = MaxSaves + 1
Saving(s) ==
  /\ s.n = taken.begun /\ taken.saved < taken.begun
  /\ \/ writer = [pc |-> "replace", data |-> <<s>>]
     \/ writer = [pc |-> "sign", data |-> <<s>>] /\ secret /\ Holds(s)
Appending(h) ==
  /\ InOrder(h, KeptTrades + 1)
  /\ writer = [pc |-> "truncate", data |-> h] \/ writer = [pc |-> "write", data |-> h]

Older ==   \* what the file holds lies between the last save that ended and the last one begun
  /\ state = Absent => taken.saved = 0 /\ sig = Unsigned
  /\ state # Absent => state.n >= 0
  /\ state # Absent /\ state.n <= MaxSaves => taken.saved <= state.n /\ state.n <= taken.begun
Explained == state # Absent /\ sig # Unsigned /\ sig # state.n => suspect

FileInv ==
  /\ state \in Snapshot /\ sig \in {Unsigned} \cup 0 .. MaxSaves + 1
  /\ taken \in Counts /\ taken.saved <= taken.begun
  /\ secret \in BOOLEAN /\ suspect \in BOOLEAN
  /\ trades = Torn \/ InOrder(trades, KeptTrades)
  /\ writer = Ready \/ (\E s \in Snapshot : Saving(s)) \/ (\E h \in Seq(1 .. MaxTrades) : Appending(h))
  /\ Older /\ Explained

FilesMove ==
  \/ \E m \in Modes : SaveBegins(m)
  \/ AppendBegins
  \/ WriterGoesOn
  \/ Tampered
  \/ FilesSurvive
  \/ UNCHANGED fileVars

LEMMA Numbers ==
  /\ MaxSaves \in Nat /\ MaxTrades \in Nat /\ KeptTrades \in Nat \ {0} /\ EditedTo \subseteq Modes
  /\ Absent \in Snapshot /\ Seeded \in Snapshot /\ Absent # Seeded
  BY StateFileAssumption DEF Snapshot, Absent, Seeded, Modes

LEMMA WriterNames ==
  ASSUME NEW s, NEW h
  PROVE  /\ Ready.pc = "ready"
         /\ [pc |-> "replace", data |-> <<s>>].pc = "replace"
         /\ [pc |-> "replace", data |-> <<s>>].data[1] = s
         /\ [pc |-> "sign", data |-> <<s>>].pc = "sign"
         /\ [pc |-> "sign", data |-> <<s>>].data[1] = s
         /\ [pc |-> "truncate", data |-> h].pc = "truncate"
         /\ [pc |-> "truncate", data |-> h].data = h
         /\ [pc |-> "write", data |-> h].pc = "write"
         /\ [pc |-> "write", data |-> h].data = h
         /\ [[pc |-> "replace", data |-> <<s>>] EXCEPT !.pc = "sign"] = [pc |-> "sign", data |-> <<s>>]
         /\ [[pc |-> "truncate", data |-> h] EXCEPT !.pc = "write"] = [pc |-> "write", data |-> h]
  BY DEF Ready

LEMMA Elements ==
  ASSUME NEW S, NEW h \in Seq(S)
  PROVE  Len(h) \in Nat /\ \A i \in 1 .. Len(h) : h[i] \in S
  BY LenProperties, ElementOfSeq

\* Whatever becomes of the writer, what concerns only the state file stays.
LEMMA SameHistory ==
  ASSUME FileInv, taken'.trades = taken.trades, trades' = trades \/ trades' = Torn
  PROVE  /\ trades' = Torn \/ InOrder(trades, KeptTrades)'
         /\ \A h, n : InOrder(h, n) => InOrder(h, n)'
  BY DEF FileInv, InOrder

\* The last trades of a history in order are in order.
LEMMA LatestInOrder ==
  ASSUME FileInv, NEW h, InOrder(h, KeptTrades + 1)
  PROVE  InOrder(Latest(h), KeptTrades)
  <1>1. Len(h) \in Nat /\ KeptTrades \in Nat \ {0} /\ h \in Seq(1 .. MaxTrades)
    BY Numbers, Elements DEF InOrder
  <1>2. CASE Len(h) <= KeptTrades
    BY <1>1, <1>2 DEF Latest, InOrder
  <1>3. CASE Len(h) > KeptTrades
    <2> DEFINE m == Len(h) - KeptTrades + 1
               l == SubSeq(h, m, Len(h))
    <2>1. m \in 1 .. Len(h) /\ m \in Int /\ Len(h) - m + 1 = KeptTrades
      BY <1>1, <1>3
    <2>2. \A i \in m .. Len(h) : h[i] \in 1 .. MaxTrades
      <3>1. m .. Len(h) \subseteq 1 .. Len(h)
        BY <1>1, <2>1
      <3> QED
        BY <1>1, <3>1, Elements
    <2>3. /\ l \in Seq(1 .. MaxTrades) /\ Len(l) = KeptTrades
          /\ \A i \in 1 .. KeptTrades : l[i] = h[m + i - 1]
      <3>1. Len(h) \in Int
        BY <1>1
      <3> QED
        BY <2>1, <2>2, <3>1, SubSeqProperties
    <2>4. Latest(h) = l
      BY <1>3 DEF Latest
    <2> HIDE DEF l
    <2>5. \A i \in 1 .. Len(l) : l[i] <= taken.trades
      <3>1. \A i \in 1 .. KeptTrades : m + i - 1 \in 1 .. Len(h)
        BY <1>1, <2>1
      <3> QED
        BY <2>3, <3>1 DEF InOrder
    <2>6. \A i \in 1 .. Len(l) - 1 : l[i] < l[i + 1]
      <3> SUFFICES ASSUME NEW i \in 1 .. KeptTrades - 1 PROVE l[i] < l[i + 1]
        BY <2>3
      <3>1. i \in 1 .. KeptTrades /\ i + 1 \in 1 .. KeptTrades /\ m + (i + 1) - 1 = (m + i - 1) + 1
        BY <1>1, <2>1
      <3>2. m + i - 1 \in 1 .. Len(h) - 1
        BY <1>1, <2>1
      <3>3. h[m + i - 1] < h[(m + i - 1) + 1]
        BY <3>2 DEF InOrder
      <3> QED
        BY <2>3, <3>1, <3>3
    <2> QED
      BY <1>1, <2>3, <2>4, <2>5, <2>6 DEF InOrder
  <1> QED
    BY <1>1, <1>2, <1>3

LEMMA AppendInOrder ==
  ASSUME FileInv, AppendBegins
  PROVE  FileInv'
  <1> DEFINE n == taken.trades + 1
             h == LoadedTrades
  <1>1. /\ n \in 1 .. MaxTrades /\ taken' \in Counts /\ taken'.trades = n
        /\ taken'.saved = taken.saved /\ taken'.begun = taken.begun
    <2>1. taken \in Counts /\ taken.trades < MaxTrades /\ MaxTrades \in Nat
      BY Numbers DEF FileInv, AppendBegins
    <2>2. taken' = [taken EXCEPT !.trades = n]
      BY DEF AppendBegins
    <2>3. taken.trades \in Nat
      BY <2>1 DEF Counts
    <2>4. n \in 1 .. MaxTrades /\ n \in 0 .. MaxTrades
      BY <2>1, <2>3
    <2> HIDE DEF n
    <2> QED
      BY <2>1, <2>2, <2>4 DEF Counts
  <1>2. InOrder(h, KeptTrades)
    <2>1. CASE trades = Torn
      <3>1. h = << >> /\ << >> \in Seq(1 .. MaxTrades) /\ Len(<< >>) = 0
        BY <2>1, EmptySeq DEF LoadedTrades
      <3> QED
        BY <3>1, Numbers DEF InOrder
    <2>2. CASE trades # Torn
      BY <2>2 DEF FileInv, LoadedTrades
    <2> QED
      BY <2>1, <2>2
  <1> HIDE DEF n, h
  <1>3. /\ h \in Seq(1 .. MaxTrades) /\ Len(h) \in Nat /\ Len(h) <= KeptTrades
        /\ \A i \in 1 .. Len(h) : h[i] <= taken.trades /\ h[i] \in 1 .. MaxTrades
        /\ \A i \in 1 .. Len(h) - 1 : h[i] < h[i + 1]
    BY <1>2, Elements DEF InOrder
  <1>a. PICK a : a = Append(h, n)
    OBVIOUS
  <1>4. /\ a \in Seq(1 .. MaxTrades) /\ Len(a) = Len(h) + 1
        /\ \A i \in 1 .. Len(h) : a[i] = h[i]
        /\ a[Len(h) + 1] = n
    BY <1>1, <1>3, <1>a, AppendProperties
  <1>5. InOrder(a, KeptTrades + 1)'
    <2>1. taken.trades \in Nat /\ n = taken.trades + 1
      BY DEF FileInv, Counts, n
    <2>2. \A i \in 1 .. Len(a) : a[i] <= n
      <3> SUFFICES ASSUME NEW i \in 1 .. Len(a) PROVE a[i] <= n
        OBVIOUS
      <3>1. CASE i = Len(h) + 1
        BY <1>4, <2>1, <3>1
      <3>2. CASE i # Len(h) + 1
        <4>1. i \in 1 .. Len(h)
          BY <1>3, <1>4, <3>2
        <4>2. a[i] = h[i] /\ h[i] <= taken.trades /\ h[i] \in Int
          BY <1>3, <1>4, <4>1
        <4> QED
          BY <2>1, <4>2
      <3> QED
        BY <3>1, <3>2
    <2>3. \A i \in 1 .. Len(a) - 1 : a[i] < a[i + 1]
      <3> SUFFICES ASSUME NEW i \in 1 .. Len(h) PROVE a[i] < a[i + 1]
        BY <1>3, <1>4
      <3>1. CASE i = Len(h)
        BY <1>3, <1>4, <2>1, <3>1
      <3>2. CASE i # Len(h)
        <4>1. i \in 1 .. Len(h) - 1 /\ i + 1 \in 1 .. Len(h)
          BY <1>3, <3>2
        <4> QED
          BY <1>3, <1>4, <4>1
      <3> QED
        BY <3>1, <3>2
    <2>4. Len(a) <= KeptTrades + 1
      BY <1>3, <1>4, Numbers
    <2>5. taken'.trades = n
      BY <1>1
    <2> QED
      BY <1>4, <2>2, <2>3, <2>4, <2>5 DEF InOrder
  <1>6. writer' = [pc |-> "truncate", data |-> a]
    BY <1>a DEF AppendBegins, Recorded, n, h
  <1>7. \E x \in Seq(1 .. MaxTrades) : Appending(x)'
    BY <1>4, <1>5, <1>6 DEF Appending
  <1>8. trades = Torn \/ InOrder(trades, KeptTrades)'
    <2>1. taken.trades \in Nat /\ taken'.trades = taken.trades + 1 /\ trades' = trades
      BY <1>1 DEF FileInv, Counts, n, AppendBegins, files
    <2>2. CASE trades = Torn
      BY <2>2
    <2>3. CASE trades # Torn
      <3>1. InOrder(trades, KeptTrades)
        BY <2>3 DEF FileInv
      <3>2. trades \in Seq(1 .. MaxTrades) /\ \A i \in 1 .. Len(trades) : trades[i] \in 1 .. MaxTrades
        BY <3>1, Elements DEF InOrder
      <3>3. \A i \in 1 .. Len(trades) : trades[i] <= taken.trades + 1
        <4>1. \A i \in 1 .. Len(trades) : trades[i] <= taken.trades /\ trades[i] \in Nat
          BY <3>1, <3>2 DEF InOrder
        <4> QED
          BY <2>1, <4>1
      <3> QED
        BY <2>1, <3>1, <3>3 DEF InOrder
    <2> QED
      BY <2>2, <2>3
  <1>9. UNCHANGED <<state, sig, trades, secret, suspect>>
    BY DEF AppendBegins, files
  <1> QED
    BY <1>1, <1>7, <1>8, <1>9 DEF FileInv, Older, Explained

\* The snapshot is taken; nothing of the file has changed yet.
LEMMA SaveBeginsKeeps ==
  ASSUME FileInv, NEW m \in Modes, SaveBegins(m)
  PROVE  FileInv'
  <1>1. PICK s : s = [n |-> taken.begun + 1, mode |-> m]
    OBVIOUS
  <1>2. taken \in Counts /\ taken.begun < MaxSaves /\ MaxSaves \in Nat
    BY Numbers DEF FileInv, SaveBegins
  <1>3. /\ taken.begun \in Nat /\ taken.saved \in Nat /\ taken.saved <= taken.begun
        /\ taken.begun + 1 \in 0 .. MaxSaves
    BY <1>2 DEF Counts, FileInv
  <1>4. taken' = [taken EXCEPT !.begun = taken.begun + 1]
    BY DEF SaveBegins
  <1>5. /\ taken' \in Counts /\ taken'.begun = taken.begun + 1 /\ taken'.saved = taken.saved
        /\ taken'.trades = taken.trades
    BY <1>2, <1>3, <1>4 DEF Counts
  <1>6. s \in Snapshot /\ s.n = taken.begun + 1
    BY <1>1, <1>2, <1>3 DEF Snapshot
  <1>7. writer' = [pc |-> "replace", data |-> <<s>>]
    BY <1>1 DEF SaveBegins
  <1>8. UNCHANGED <<state, sig, trades, secret, suspect>>
    BY DEF SaveBegins, files
  <1>9. Saving(s)'
    BY <1>3, <1>5, <1>6, <1>7 DEF Saving
  <1>10. trades = Torn \/ InOrder(trades, KeptTrades)'
    BY <1>5, <1>8, SameHistory DEF FileInv
  <1>11. Older' /\ Explained'
    <2>1. state.n \in Int
      BY DEF FileInv, Snapshot
    <2> QED
      BY <1>3, <1>5, <1>8, <2>1 DEF FileInv, Older, Explained
  <1> QED
    BY <1>3, <1>5, <1>6, <1>8, <1>9, <1>10, <1>11 DEF FileInv

\* What is being written, when it is.
LEMMA WriterAt ==
  ASSUME FileInv
  PROVE  /\ writer.pc \in {"replace", "sign"} => \E s \in Snapshot : Saving(s)
         /\ writer.pc \in {"truncate", "write"} => \E h \in Seq(1 .. MaxTrades) : Appending(h)
         /\ writer.pc \in {"ready", "replace", "sign", "truncate", "write"}
         /\ writer.pc = "ready" => writer = Ready
  <1>1. writer = Ready \/ (\E s \in Snapshot : Saving(s)) \/ (\E h \in Seq(1 .. MaxTrades) : Appending(h))
    BY DEF FileInv
  <1>2. ASSUME NEW s \in Snapshot, Saving(s) PROVE writer.pc \in {"replace", "sign"}
    BY <1>2, WriterNames DEF Saving
  <1>3. ASSUME NEW h \in Seq(1 .. MaxTrades), Appending(h) PROVE writer.pc \in {"truncate", "write"}
    BY <1>3, WriterNames DEF Appending
  <1>4. Ready.pc = "ready"
    BY WriterNames
  <1> QED
    BY <1>1, <1>2, <1>3, <1>4

LEMMA SaveReplacesKeeps ==
  ASSUME FileInv, SaveReplaces
  PROVE  FileInv'
  <1>1. writer.pc = "replace"
    BY DEF SaveReplaces
  <1>2. PICK s \in Snapshot : Saving(s)
    BY <1>1, WriterAt
  <1>3. writer = [pc |-> "replace", data |-> <<s>>]
    BY <1>1, <1>2, WriterNames DEF Saving
  <1>4. writer.data[1] = s /\ [writer EXCEPT !.pc = "sign"] = [pc |-> "sign", data |-> <<s>>]
    BY <1>3, WriterNames
  <1>5. taken \in Counts /\ s.n = taken.begun /\ taken.saved < taken.begun /\ MaxSaves \in Nat
    BY <1>2, Numbers DEF FileInv, Saving
  <1>6. s.n \in 1 .. MaxSaves /\ s.n \in 0 .. MaxSaves
    BY <1>5 DEF Counts
  <1>7. /\ state' = s /\ suspect' = (sig # Unsigned)
        /\ UNCHANGED <<sig, trades, secret>>
        /\ writer' = IF secret THEN [pc |-> "sign", data |-> <<s>>] ELSE Ready
        /\ taken' = IF secret THEN taken ELSE [taken EXCEPT !.saved = s.n]
    BY <1>4 DEF SaveReplaces
  <1>8. /\ taken' \in Counts /\ taken'.begun = taken.begun /\ taken'.trades = taken.trades
        /\ taken'.saved = IF secret THEN taken.saved ELSE taken.begun
    BY <1>5, <1>6, <1>7 DEF Counts
  <1>9. s # Absent /\ s.n # -1
    BY <1>6 DEF Absent
  <1>10. writer' = Ready \/ Saving(s)'
    BY <1>5, <1>7, <1>8 DEF Saving, Holds
  <1>11. trades = Torn \/ InOrder(trades, KeptTrades)'
    BY <1>7, <1>8, SameHistory DEF FileInv
  <1>12. Older' /\ Explained'
    <2>1. taken.begun \in Int /\ taken.saved \in Int
      BY <1>5 DEF Counts
    <2>2. Older'
      BY <1>5, <1>6, <1>7, <1>8, <1>9, <2>1 DEF Older
    <2>3. Explained'
      BY <1>7 DEF Explained
    <2> QED
      BY <2>2, <2>3
  <1>13. suspect' \in BOOLEAN /\ taken'.saved <= taken'.begun
    BY <1>5, <1>7, <1>8 DEF Counts
  <1> QED
    BY <1>7, <1>8, <1>10, <1>11, <1>12, <1>13 DEF FileInv

LEMMA SaveSignsKeeps ==
  ASSUME FileInv, SaveSigns
  PROVE  FileInv'
  <1>1. writer.pc = "sign"
    BY DEF SaveSigns
  <1>2. PICK s \in Snapshot : Saving(s)
    BY <1>1, WriterAt
  <1>3. writer = [pc |-> "sign", data |-> <<s>>] /\ Holds(s)
    BY <1>1, <1>2, WriterNames DEF Saving
  <1>4. writer.data[1] = s
    BY <1>3, WriterNames
  <1>5. taken \in Counts /\ s.n = taken.begun /\ taken.saved < taken.begun /\ MaxSaves \in Nat
    BY <1>2, Numbers DEF FileInv, Saving
  <1>6. s.n \in 1 .. MaxSaves /\ s.n \in 0 .. MaxSaves /\ s.n \in 0 .. MaxSaves + 1
    BY <1>5 DEF Counts
  <1>7. /\ sig' = s.n /\ suspect' = (state # s) /\ writer' = Ready
        /\ taken' = [taken EXCEPT !.saved = s.n]
        /\ UNCHANGED <<state, trades, secret>>
    BY <1>4 DEF SaveSigns, Signed
  <1>8. /\ taken' \in Counts /\ taken'.begun = taken.begun /\ taken'.trades = taken.trades
        /\ taken'.saved = taken.begun
    BY <1>5, <1>6, <1>7 DEF Counts
  <1>9. trades = Torn \/ InOrder(trades, KeptTrades)'
    BY <1>7, <1>8, SameHistory DEF FileInv
  <1>10. state # Absent /\ state.n >= 0 /\ (state.n <= MaxSaves => state = s)
    BY <1>3, <1>5, <1>6 DEF Holds, Absent
  <1>11. Older' /\ Explained'
    <2>1. taken.begun \in Int
      BY <1>5 DEF Counts
    <2>2. Older'
      BY <1>5, <1>7, <1>8, <1>10, <2>1 DEF Older
    <2>3. state' = s => sig' = state'.n
      BY <1>7
    <2>4. state' # s => suspect'
      BY <1>7
    <2>5. Explained'
      BY <2>3, <2>4 DEF Explained
    <2> QED
      BY <2>2, <2>5
  <1>12. suspect' \in BOOLEAN /\ taken'.saved <= taken'.begun
    BY <1>5, <1>7, <1>8 DEF Counts
  <1> QED
    BY <1>6, <1>7, <1>8, <1>9, <1>11, <1>12 DEF FileInv

\* A write that fails, and a container that goes, leave the file as it is.
LEMMA WriteFailsKeeps ==
  ASSUME FileInv, WriteFails
  PROVE  FileInv'
  <1>1. sig' \in {sig, Unsigned} /\ writer' = Ready /\ UNCHANGED <<state, trades, secret, taken, suspect>>
    BY DEF WriteFails
  <1>2. trades = Torn \/ InOrder(trades, KeptTrades)'
    BY <1>1, SameHistory DEF FileInv
  <1> QED
    BY <1>1, <1>2 DEF FileInv, Older, Explained

LEMMA FilesSurviveKeeps ==
  ASSUME FileInv, FilesSurvive
  PROVE  FileInv'
  <1>1. /\ sig' \in {sig, Unsigned} /\ writer' = Ready /\ UNCHANGED <<trades, taken, suspect>>
        /\ secret' \in BOOLEAN /\ state' \in {state, Seeded} /\ (state # Absent => state' = state)
    BY DEF FilesSurvive, Bootstrapped
  <1>2. trades = Torn \/ InOrder(trades, KeptTrades)'
    BY <1>1, SameHistory DEF FileInv
  <1>3. state' \in Snapshot
    BY <1>1, Numbers DEF FileInv
  <1>4. Older'
    <2>1. CASE state' = state
      BY <1>1, <2>1 DEF FileInv, Older
    <2>2. CASE state = Absent /\ state' = Seeded
      <3>1. Seeded.n = 0 /\ Seeded # Absent /\ taken.saved = 0 /\ taken.begun \in Nat
        BY <2>2, Numbers DEF Seeded, FileInv, Older, Counts
      <3> QED
        BY <1>1, <2>2, <3>1 DEF Older
    <2> QED
      BY <1>1, <2>1, <2>2
  <1>5. Explained'
    BY <1>1 DEF FileInv, Older, Explained
  <1> QED
    BY <1>1, <1>2, <1>3, <1>4, <1>5 DEF FileInv

LEMMA TamperedKeeps ==
  ASSUME FileInv, Tampered
  PROVE  FileInv'
  <1>1. PICK m \in EditedTo : state' = Forged(m)
    BY DEF Tampered
  <1>2. state' \in Snapshot /\ state'.n = MaxSaves + 1 /\ state' # Absent
    BY <1>1, Numbers DEF Forged, Snapshot, Absent
  <1>3. suspect' = TRUE /\ UNCHANGED <<sig, trades, writer, secret, taken>>
    BY DEF Tampered
  <1>4. trades = Torn \/ InOrder(trades, KeptTrades)'
    BY <1>3, SameHistory DEF FileInv
  <1>5. \A s : Saving(s) => Saving(s)'
    BY <1>2, <1>3 DEF Saving, Holds
  <1>6. \A h : Appending(h) => Appending(h)'
    BY <1>3 DEF Appending, InOrder
  <1>7. Older' /\ Explained'
    BY <1>2, <1>3, Numbers DEF Older, Explained
  <1> QED
    BY <1>2, <1>3, <1>4, <1>5, <1>6, <1>7 DEF FileInv

LEMMA HistoryWrittenKeeps ==
  ASSUME FileInv, AppendTruncates \/ AppendWrites
  PROVE  FileInv'
  <1>1. writer.pc \in {"truncate", "write"}
    BY DEF AppendTruncates, AppendWrites
  <1>2. PICK h \in Seq(1 .. MaxTrades) : Appending(h)
    BY <1>1, WriterAt
  <1>3. UNCHANGED <<state, sig, secret, taken, suspect>>
    BY DEF AppendTruncates, AppendWrites
  <1>4. CASE AppendTruncates
    <2>1. writer = [pc |-> "truncate", data |-> h]
      BY <1>2, <1>4, WriterNames DEF Appending, AppendTruncates
    <2>2. writer' = [pc |-> "write", data |-> h] /\ trades' = Torn
      BY <1>4, <2>1, WriterNames DEF AppendTruncates
    <2>3. Appending(h)'
      BY <1>2, <1>3, <2>2 DEF Appending, InOrder
    <2> QED
      BY <1>3, <2>2, <2>3 DEF FileInv, Older, Explained
  <1>5. CASE AppendWrites
    <2>1. writer.data = h
      BY <1>2, <1>5, WriterNames DEF Appending, AppendWrites
    <2>2. trades' = Latest(h) /\ writer' = Ready
      BY <1>5, <2>1 DEF AppendWrites
    <2>3. InOrder(Latest(h), KeptTrades)
      BY <1>2, LatestInOrder DEF Appending
    <2>4. InOrder(trades, KeptTrades)'
      BY <1>3, <2>2, <2>3 DEF InOrder
    <2> QED
      BY <1>3, <2>2, <2>4 DEF FileInv, Older, Explained
  <1> QED
    BY <1>4, <1>5

LEMMA FilesKept == FileInv /\ FilesMove => FileInv'
  <1> SUFFICES ASSUME FileInv, FilesMove PROVE FileInv'
    OBVIOUS
  <1>1. CASE UNCHANGED fileVars
    BY <1>1 DEF fileVars, files, FileInv, InOrder, Saving, Appending, Holds, Older, Explained
  <1> QED
    BY <1>1, SaveBeginsKeeps, AppendInOrder, SaveReplacesKeeps, SaveSignsKeeps, WriteFailsKeeps,
       HistoryWrittenKeeps, TamperedKeeps, FilesSurviveKeeps DEF FilesMove, WriterGoesOn

LEMMA FilesStart == FilesInit => FileInv
  <1> SUFFICES ASSUME FilesInit PROVE FileInv
    OBVIOUS
  <1>1. state \in {Absent, Seeded} /\ sig = Unsigned /\ trades = << >> /\ writer = Ready
    BY DEF FilesInit, Bootstrapped
  <1>2. /\ taken \in Counts /\ taken.begun = 0 /\ taken.saved = 0 /\ taken.trades = 0
    BY Numbers DEF FilesInit, Counts
  <1>3. InOrder(trades, KeptTrades)
    BY <1>1, EmptySeq, Numbers DEF InOrder
  <1>4. Seeded.n = 0 /\ state \in Snapshot
    BY <1>1, Numbers DEF Seeded
  <1>5. Older /\ Explained
    BY <1>1, <1>2, <1>4 DEF Older, Explained
  <1>6. suspect \in BOOLEAN /\ secret \in BOOLEAN
    BY DEF FilesInit
  <1>7. taken.saved <= taken.begun
    BY <1>2
  <1> QED
    BY <1>1, <1>2, <1>3, <1>4, <1>5, <1>6, <1>7 DEF FileInv

-----------------------------------------------------------------------------
(* The sessions *)

\* A message whose nonce is still listed was issued by this process and has bought nothing yet;
\* every session is signed with the key of its life, unless one key serves all.
Token(l, k, i, n, e) == [left |-> l, key |-> k, id |-> i, nonce |-> n, life |-> e]
Fresher == \A n \in DOMAIN nonces : n \in DOMAIN asked /\ asked[n] = life
Issued(t) == /\ \E l, k, i, n, e : t = Token(l, k, i, n, e)
             /\ t.nonce \in 0 .. MaxNonces
             /\ LastingKey \/ t.key = t.life
Bought(t) == t.nonce \in DOMAIN asked /\ t.nonce \notin DOMAIN nonces /\ t.life = asked[t.nonce]
WebInv ==
  /\ LastingKey \/ key = life
  /\ \E k \in Nat : DOMAIN asked = 1 .. k
  /\ Fresher
  /\ \A t \in tokens : Issued(t) /\ (t.nonce # Guest => Bought(t))
  /\ \A t, u \in tokens : t.nonce = u.nonce /\ t.nonce # Guest => t = u

\* What the types of the sessions say, beyond WebInv: the times left and the lives that keys and
\* nonces come from.
WebTyped ==
  /\ life \in Nat /\ key \in 0 .. life
  /\ \A n \in DOMAIN nonces : nonces[n] \in -1 .. NonceTTL
  /\ \A n \in DOMAIN asked : n \in 1 .. MaxNonces /\ asked[n] \in 0 .. life
  /\ \A t \in tokens : t.left \in -1 .. SessionTTL /\ t.key \in 0 .. life

WebMove ==
  \/ SignsIn /\ UNCHANGED life
  \/ WebRestarts /\ life' = life + 1
  \/ WebTimePasses /\ UNCHANGED life
  \/ UNCHANGED <<webVars, life>>

LEMMA NonceKeeps ==
  ASSUME WebInv, NonceIssued, UNCHANGED life
  PROVE  WebInv'
  <1>1. PICK k \in Nat : DOMAIN asked = 1 .. k
    BY DEF WebInv
  <1>2. Cardinality(DOMAIN asked) = k
    BY <1>1, FS_Interval
  <1>3. PICK n \in Nat : n = k + 1
    OBVIOUS
  <1>4. /\ asked' = [x \in 1 .. n |-> IF x = n THEN life ELSE asked[x]]
        /\ \E kept \in SUBSET DOMAIN nonces :
             nonces' = [x \in kept \cup {n} |-> IF x = n THEN NonceTTL ELSE nonces[x]]
        /\ UNCHANGED <<tokens, key>>
    BY <1>2, <1>3 DEF NonceIssued
  <1>5. /\ n \notin DOMAIN asked /\ DOMAIN asked' = 1 .. n
        /\ \A x \in DOMAIN asked : x \in DOMAIN asked' /\ asked'[x] = asked[x]
        /\ n \in DOMAIN asked' /\ asked'[n] = life
        /\ \A x \in DOMAIN nonces' : x \in DOMAIN nonces \/ x = n
    BY <1>1, <1>3, <1>4
  <1>6. \A x \in DOMAIN nonces : x \in DOMAIN asked /\ asked[x] = life
    BY DEF WebInv, Fresher
  <1>7. Fresher'
    BY <1>5, <1>6 DEF Fresher
  <1>8. \A t \in tokens : Issued(t)' /\ (t.nonce # Guest => Bought(t)')
    BY <1>5 DEF WebInv, Issued, Bought
  <1> QED
    BY <1>4, <1>5, <1>7, <1>8 DEF WebInv

LEMMA PresentedKeeps ==
  ASSUME WebInv, WebTyped, NEW n \in DOMAIN asked, NEW g, Presented(n, g), UNCHANGED life
  PROVE  WebInv'
  <1>1. DOMAIN nonces' = DOMAIN nonces \ {n} /\ UNCHANGED <<asked, key>>
    BY DEF Presented, Consumed
  <1>2. Fresher'
    BY <1>1 DEF WebInv, Fresher
  <1>3. \A t : (Bought(t) => Bought(t)') /\ (Issued(t) => Issued(t)')
    BY <1>1 DEF Bought, Issued
  <1>4. CASE UNCHANGED tokens
    BY <1>1, <1>2, <1>3, <1>4 DEF WebInv
  <1>5. CASE ~UNCHANGED tokens
    <2>1. PICK new : /\ new = Token(SessionTTL, key, Cardinality(tokens), n, life)
                     /\ tokens' = tokens \cup {new} /\ n \in DOMAIN nonces
      BY <1>5 DEF Presented, Issues, Live, Token
    <2>2. new.nonce = n /\ new.life = life /\ new.key = key
      BY <2>1 DEF Token
    <2>3. \E l, k, i, m, e : new = Token(l, k, i, m, e)
      BY <2>1
    <2>4. Bought(new)' /\ Issued(new)'
      BY <1>1, <2>1, <2>2, <2>3 DEF WebInv, Fresher, WebTyped, Bought, Issued
    <2>5. \A t \in tokens : t.nonce # Guest => t.nonce # n
      BY <2>1 DEF WebInv, Bought
    <2> QED
      BY <1>1, <1>2, <1>3, <2>1, <2>2, <2>4, <2>5 DEF WebInv
  <1> QED
    BY <1>4, <1>5

LEMMA GuestKeeps ==
  ASSUME WebInv, GuestEnters, UNCHANGED life
  PROVE  WebInv'
  <1>1. UNCHANGED <<nonces, asked, key, life>>
    BY DEF GuestEnters
  <1>2. PICK new : /\ new = Token(SessionTTL, key, Cardinality(tokens), Guest, life)
                   /\ tokens' = tokens \cup {new}
    BY DEF GuestEnters, Issues, Token
  <1>3. new.nonce = Guest /\ new.life = life /\ new.key = key
    BY <1>2 DEF Token
  <1>4. \E l, k, i, n, e : new = Token(l, k, i, n, e)
    BY <1>2
  <1>5. Guest \in 0 .. MaxNonces
    BY SignInAssumption DEF Guest
  <1>6. Issued(new)'
    BY <1>1, <1>3, <1>4, <1>5 DEF WebInv, Issued
  <1>7. \A t : (Bought(t) => Bought(t)') /\ (Issued(t) => Issued(t)')
    BY <1>1 DEF Bought, Issued
  <1>8. Fresher'
    BY <1>1 DEF WebInv, Fresher
  <1> QED
    BY <1>1, <1>2, <1>3, <1>6, <1>7, <1>8 DEF WebInv

LEMMA WebRestartsKeeps ==
  ASSUME WebInv, WebRestarts, life' = life + 1
  PROVE  WebInv'
  <1>1. DOMAIN nonces' = {} /\ UNCHANGED <<asked, tokens>> /\ (LastingKey \/ key' = life')
    BY DEF WebRestarts
  <1>2. Fresher'
    BY <1>1 DEF Fresher
  <1>3. \A t : (Bought(t) => Bought(t)') /\ (Issued(t) => Issued(t)')
    BY <1>1 DEF Bought, Issued
  <1> QED
    BY <1>1, <1>2, <1>3 DEF WebInv

LEMMA WebTimeKeeps ==
  ASSUME WebInv, WebTimePasses, UNCHANGED life
  PROVE  WebInv'
  <1>1. DOMAIN nonces' = DOMAIN nonces /\ UNCHANGED <<asked, key>>
    BY DEF WebTimePasses
  <1>2. Fresher'
    BY <1>1 DEF WebInv, Fresher
  <1> DEFINE Aged(t) == [t EXCEPT !.left = Sooner(@)]
  <1>3. \A t \in tokens : /\ \E l, k, i, n, e : Aged(t) = Token(l, k, i, n, e)
                          /\ Aged(t).nonce = t.nonce /\ Aged(t).life = t.life
                          /\ Aged(t).key = t.key
    <2>1. SUFFICES ASSUME NEW t \in tokens
                   PROVE  /\ \E l, k, i, n, e : Aged(t) = Token(l, k, i, n, e)
                          /\ Aged(t).nonce = t.nonce /\ Aged(t).life = t.life
                          /\ Aged(t).key = t.key
      OBVIOUS
    <2>2. PICK l, k, i, n, e : t = Token(l, k, i, n, e)
      BY DEF WebInv, Issued
    <2>3. Aged(t) = Token(Sooner(l), k, i, n, e)
      BY <2>2 DEF Token
    <2>4. \E m, b, c, d, f : Aged(t) = Token(m, b, c, d, f)
      BY <2>3
    <2>5. Aged(t).nonce = n /\ Aged(t).life = e /\ Aged(t).key = k
      BY <2>3 DEF Token
    <2>6. t.nonce = n /\ t.life = e /\ t.key = k
      BY <2>2 DEF Token
    <2> QED
      BY <2>4, <2>5, <2>6
  <1>4. tokens' = {Aged(t) : t \in tokens}
    BY DEF WebTimePasses
  <1>5. \A t \in tokens : Issued(Aged(t))' /\ (Aged(t).nonce # Guest => Bought(Aged(t))')
    BY <1>1, <1>3 DEF WebInv, Issued, Bought
  <1> HIDE DEF Aged
  <1>6. \A v \in tokens' : Issued(v)' /\ (v.nonce # Guest => Bought(v)')
    BY <1>4, <1>5
  <1>7. \A v, w \in tokens' : v.nonce = w.nonce /\ v.nonce # Guest => v = w
    BY <1>3, <1>4 DEF WebInv
  <1> QED
    BY <1>1, <1>2, <1>6, <1>7 DEF WebInv

LEMMA WebStart == WebInit => WebInv
  <1> SUFFICES ASSUME WebInit PROVE WebInv
    OBVIOUS
  <1>1. DOMAIN nonces = {} /\ DOMAIN asked = 1 .. 0 /\ tokens = {} /\ key = life
    BY DEF WebInit
  <1> QED
    BY <1>1 DEF WebInv, Fresher

LEMMA Times ==
  /\ NonceTTL \in Nat /\ SessionTTL \in Nat /\ MaxNonces \in Nat
  /\ \A most \in Nat : \A t \in -1 .. most : Sooner(t) \in -1 .. most
  BY SignInAssumption DEF Sooner

LEMMA WebKept == WebInv /\ WebTyped /\ WebMove => WebInv'
  <1> SUFFICES ASSUME WebInv, WebTyped, WebMove PROVE WebInv'
    OBVIOUS
  <1>1. CASE UNCHANGED <<webVars, life>>
    BY <1>1 DEF WebInv, Fresher, Issued, Bought, webVars
  <1>2. CASE SignsIn /\ UNCHANGED life
    BY <1>2, NonceKeeps, PresentedKeeps, GuestKeeps DEF SignsIn
  <1> QED
    BY <1>1, <1>2, WebRestartsKeeps, WebTimeKeeps DEF WebMove

LEMMA NonceTyped ==
  ASSUME WebInv, WebTyped, NonceIssued, UNCHANGED life
  PROVE  WebTyped'
  <1>1. PICK k \in Nat : DOMAIN asked = 1 .. k
    BY DEF WebInv
  <1>2. Cardinality(DOMAIN asked) = k
    BY <1>1, FS_Interval
  <1>3. PICK n \in Nat : n = k + 1
    OBVIOUS
  <1>4. /\ n <= MaxNonces
        /\ asked' = [x \in 1 .. n |-> IF x = n THEN life ELSE asked[x]]
        /\ \E kept \in SUBSET DOMAIN nonces :
             nonces' = [x \in kept \cup {n} |-> IF x = n THEN NonceTTL ELSE nonces[x]]
        /\ UNCHANGED <<tokens, key, life>>
    BY <1>2, <1>3 DEF NonceIssued
  <1>5. \A x \in DOMAIN asked' : x \in 1 .. MaxNonces /\ asked'[x] \in 0 .. life'
    <2>1. \A x \in 1 .. n : x \in 1 .. MaxNonces /\ (x # n => x \in DOMAIN asked)
      BY <1>1, <1>3, <1>4, Times
    <2> QED
      BY <1>4, <2>1 DEF WebTyped
  <1>6. \A x \in DOMAIN nonces' : nonces'[x] \in -1 .. NonceTTL
    <2>1. NonceTTL \in -1 .. NonceTTL
      BY Times
    <2> QED
      BY <1>4, <2>1 DEF WebTyped
  <1> QED
    BY <1>4, <1>5, <1>6 DEF WebTyped

LEMMA PresentedTyped ==
  ASSUME WebInv, WebTyped, NEW n \in DOMAIN asked, NEW g, Presented(n, g), UNCHANGED life
  PROVE  WebTyped'
  <1>1. /\ DOMAIN nonces' = DOMAIN nonces \ {n}
        /\ \A x \in DOMAIN nonces' : nonces'[x] = nonces[x]
        /\ UNCHANGED <<asked, key, life>>
    BY DEF Presented, Consumed
  <1>2. SessionTTL \in -1 .. SessionTTL
    BY Times
  <1>3. PICK new : new = Token(SessionTTL, key, Cardinality(tokens), n, life)
    OBVIOUS
  <1>4. new.left = SessionTTL /\ new.key = key
    BY <1>3 DEF Token
  <1>5. tokens' \subseteq tokens \cup {new}
    BY <1>3 DEF Presented, Issues, Token
  <1> QED
    BY <1>1, <1>2, <1>4, <1>5 DEF WebTyped

LEMMA GuestTyped ==
  ASSUME WebTyped, GuestEnters, UNCHANGED life
  PROVE  WebTyped'
  <1>1. SessionTTL \in -1 .. SessionTTL
    BY Times
  <1>2. PICK new : new = Token(SessionTTL, key, Cardinality(tokens), Guest, life)
    OBVIOUS
  <1>3. new.left = SessionTTL /\ new.key = key
    BY <1>2 DEF Token
  <1>4. tokens' \subseteq tokens \cup {new}
    BY <1>2 DEF GuestEnters, Issues, Token
  <1> QED
    BY <1>1, <1>3, <1>4 DEF WebTyped, GuestEnters

LEMMA WebTimeTyped ==
  ASSUME WebInv, WebTyped, WebTimePasses, UNCHANGED life
  PROVE  WebTyped'
  <1>1. \A x \in DOMAIN nonces' : nonces'[x] \in -1 .. NonceTTL
    BY Times DEF WebTyped, WebTimePasses
  <1>2. SUFFICES ASSUME NEW v \in tokens' PROVE v.left \in -1 .. SessionTTL /\ v.key \in 0 .. life
    BY <1>1 DEF WebTyped, WebTimePasses
  <1>3. PICK t \in tokens : v = [t EXCEPT !.left = Sooner(@)]
    BY DEF WebTimePasses
  <1>4. PICK l, k, i, n, e : t = Token(l, k, i, n, e)
    BY DEF WebInv, Issued
  <1>5. v.left = Sooner(t.left) /\ v.key = t.key
    BY <1>3, <1>4 DEF Token
  <1> QED
    BY <1>5, Times DEF WebTyped

LEMMA WebTypeKept == WebInv /\ WebTyped /\ WebMove => WebTyped'
  <1> SUFFICES ASSUME WebInv, WebTyped, WebMove PROVE WebTyped'
    OBVIOUS
  <1>1. CASE WebRestarts /\ life' = life + 1
    <2>1. DOMAIN nonces' = {} /\ UNCHANGED <<asked, tokens>> /\ key' \in {key, life + 1}
      BY <1>1 DEF WebRestarts
    <2>2. life' \in Nat /\ \A x \in 0 .. life : x \in 0 .. life'
      BY <1>1 DEF WebTyped
    <2>3. key' \in 0 .. life'
      BY <1>1, <2>1, <2>2 DEF WebTyped
    <2> QED
      BY <2>1, <2>2, <2>3 DEF WebTyped
  <1>2. CASE UNCHANGED <<webVars, life>>
    BY <1>2 DEF WebTyped, webVars
  <1> QED
    BY <1>1, <1>2, NonceTyped, PresentedTyped, GuestTyped, WebTimeTyped DEF WebMove, SignsIn

LEMMA WebTypeStart == WebInit => WebTyped
  <1> SUFFICES ASSUME WebInit PROVE WebTyped
    OBVIOUS
  <1>1. DOMAIN nonces = {} /\ DOMAIN asked = {} /\ tokens = {} /\ key = 0 /\ life = 0
    BY DEF WebInit
  <1> QED
    BY <1>1 DEF WebTyped

-----------------------------------------------------------------------------
(* The agent's thread and its heartbeat *)

\* What is left of a sleep or of a boot, on top of the age of the beat, stays within what /healthz
\* allows, unless boots have crashed since the agent last beat.
BeatInv ==
  /\ thread \in {"down", "booting", "saving", "up", "blocked"}
  /\ starts \in Nat /\ wait \in Nat /\ age \in Nat /\ failed \in Nat
  /\ thread = "up" => age = 0
  /\ failed = 0 /\ thread = "down" => age + wait <= BackoffCap
  /\ failed = 0 /\ thread \in {"booting", "saving"} => age + wait <= BackoffCap + BootTime
ThreadMove ==
  Boots \/ Crashes \/ Blocks \/ Unblocks \/ ContainerStarts \/ TimePasses \/ UNCHANGED threadVars

LEMMA Bounds ==
  /\ BackoffStep \in Nat /\ BackoffCap \in Nat /\ StaleAfter \in Nat /\ BootTime \in Nat
  /\ MaxFaults \in Nat /\ MaxActs \in Nat
  /\ BackoffCap + BootTime <= StaleAfter
  BY HostAssumption

LEMMA SleepBounded ==
  ASSUME NEW n \in Nat
  PROVE  Sleep(n) \in Nat /\ Sleep(n) <= BackoffCap
  <1>1. BackoffStep * n \in Nat
    BY Bounds
  <1> QED
    BY <1>1, Bounds DEF Sleep, Least

LEMMA BootsKeep ==
  ASSUME BeatInv, Boots
  PROVE  BeatInv'
  <1>1. CASE Restores
    BY <1>1, Bounds DEF BeatInv, Restores, Least
  <1>2. CASE BootSaves
    BY <1>2 DEF BeatInv, BootSaves
  <1>3. CASE BootDone
    BY <1>3 DEF BeatInv, BootDone
  <1> QED
    BY <1>1, <1>2, <1>3 DEF Boots

LEMMA CrashKeeps ==
  ASSUME BeatInv, Crashes
  PROVE  BeatInv'
  <1>1. thread' = "down" /\ wait' = Sleep(starts) /\ UNCHANGED <<starts, age>>
    BY DEF Crashes
  <1>2. wait' \in Nat /\ wait' <= BackoffCap
    BY <1>1, SleepBounded DEF BeatInv
  <1>3. CASE thread = "up"
    BY <1>1, <1>2, <1>3, Bounds DEF BeatInv, Crashes
  <1>4. CASE thread # "up"
    BY <1>1, <1>2, <1>4 DEF BeatInv, Crashes
  <1> QED
    BY <1>3, <1>4

LEMMA OneUpOneDown ==
  ASSUME NEW a \in Nat, NEW w \in Nat, NEW b \in Nat, NEW x \in Nat, NEW most \in Nat,
         b <= a + 1, x = w - 1, a + w <= most
  PROVE  b + x <= most
  OBVIOUS

LEMMA TimeKeeps ==
  ASSUME BeatInv, TimePasses
  PROVE  BeatInv'
  <1>1. UNCHANGED <<thread, starts, failed>> /\ wait' \in Nat
    BY DEF BeatInv, TimePasses
  <1>2. age' \in Nat /\ age' <= age + 1 /\ (thread = "up" => age' = 0)
    BY Bounds DEF BeatInv, TimePasses, Least
  <1>3. thread \in {"down", "booting", "saving"} => wait' = wait - 1
    BY DEF TimePasses
  <1>4. age \in Nat /\ wait \in Nat
    BY DEF BeatInv
  <1>5. BackoffCap \in Nat /\ BackoffCap + BootTime \in Nat
    BY Bounds
  <1>6. thread' = thread /\ starts' = starts /\ failed' = failed
    BY <1>1
  <1>7. CASE thread = "down"
    <2>1. failed = 0 => age + wait <= BackoffCap
      BY <1>7 DEF BeatInv
    <2>2. failed = 0 => age' + wait' <= BackoffCap
      BY <1>1, <1>2, <1>3, <1>4, <1>5, <1>7, <2>1, OneUpOneDown
    <2> QED
      BY <1>1, <1>2, <1>6, <1>7, <2>2 DEF BeatInv
  <1>8. CASE thread \in {"booting", "saving"}
    <2>1. failed = 0 => age + wait <= BackoffCap + BootTime
      BY <1>8 DEF BeatInv
    <2>2. failed = 0 => age' + wait' <= BackoffCap + BootTime
      BY <1>1, <1>2, <1>3, <1>4, <1>5, <1>8, <2>1, OneUpOneDown
    <2> QED
      BY <1>1, <1>2, <1>6, <1>8, <2>2 DEF BeatInv
  <1>9. CASE thread \in {"up", "blocked"}
    BY <1>1, <1>2, <1>6, <1>9 DEF BeatInv
  <1> QED
    BY <1>7, <1>8, <1>9 DEF BeatInv

LEMMA BeatKept == BeatInv /\ ThreadMove => BeatInv'
  <1> SUFFICES ASSUME BeatInv, ThreadMove PROVE BeatInv'
    OBVIOUS
  <1>1. CASE Blocks \/ Unblocks
    BY <1>1 DEF BeatInv, Blocks, Unblocks
  <1>2. CASE ContainerStarts
    BY <1>2, Bounds DEF BeatInv, ContainerStarts
  <1>3. CASE UNCHANGED threadVars
    BY <1>3 DEF BeatInv, threadVars
  <1> QED
    BY <1>1, <1>2, <1>3, BootsKeep, CrashKeeps, TimeKeeps DEF ThreadMove

-----------------------------------------------------------------------------
(* The container *)

Spending == spent \in [faults : 0 .. MaxFaults, acts : 0 .. MaxActs]
Flags == mode \in Modes /\ halted \in BOOLEAN
HostInv == FileInv /\ WebInv /\ WebTyped /\ BeatInv /\ Flags /\ Spending

LEMMA HostStart == Init => HostInv
  <1> SUFFICES ASSUME Init PROVE HostInv
    OBVIOUS
  <1>1. FileInv /\ WebInv /\ WebTyped
    BY FilesStart, WebStart, WebTypeStart DEF Init
  <1>2. BeatInv
    BY Bounds DEF Init, BeatInv
  <1>3. Flags /\ Spending
    <2>1. Flags
      BY DEF Init, Flags, Modes
    <2>2. 0 \in 0 .. MaxFaults /\ 0 \in 0 .. MaxActs
      BY Bounds
    <2> QED
      BY <2>1, <2>2 DEF Init, Spending
  <1> QED
    BY <1>1, <1>2, <1>3 DEF HostInv

LEMMA StepFiles ==
  ASSUME HostInv, Next
  PROVE  FilesMove
  <1>1. mode \in Modes /\ "TRADING" \in Modes
    BY DEF HostInv, Flags, Modes
  <1>2. CASE Restores \/ BootDone
    BY <1>2 DEF Restores, BootDone, FilesMove
  <1>3. CASE BootSaves \/ Saves \/ Reiniciar
    BY <1>1, <1>3 DEF BootSaves, Saves, Reiniciar, FilesMove
  <1>4. CASE StartsOrPauses \/ Panics
    BY <1>4 DEF StartsOrPauses, Panics, AgentOnly, fileVars, FilesMove
  <1>5. CASE Records \/ Writes \/ Edits
    BY <1>5 DEF Records, Writes, Edits, FilesMove
  <1>6. CASE Crashes \/ Blocks \/ Unblocks \/ TimePasses \/ Visits
    BY <1>6 DEF Crashes, Blocks, Unblocks, TimePasses, Visits, FilesMove
  <1>7. CASE Redeploys \/ PlatformRestarts
    BY <1>7 DEF Redeploys, PlatformRestarts, ContainerStarts, FilesMove
  <1> QED
    BY <1>2, <1>3, <1>4, <1>5, <1>6, <1>7 DEF Next, Boots

LEMMA StepWeb ==
  ASSUME Next
  PROVE  WebMove
  <1>1. CASE Boots
    BY <1>1 DEF Boots, Restores, BootSaves, BootDone, WebMove
  <1>2. CASE StartsOrPauses \/ Panics
    BY <1>2 DEF StartsOrPauses, Panics, AgentOnly, WebMove
  <1>3. CASE Reiniciar \/ Saves \/ Records \/ Writes \/ Edits
    BY <1>3 DEF Reiniciar, Saves, Records, Writes, Edits, WebMove
  <1>4. CASE Crashes \/ Blocks \/ Unblocks
    BY <1>4 DEF Crashes, Blocks, Unblocks, WebMove
  <1>5. CASE Redeploys \/ PlatformRestarts
    BY <1>5 DEF Redeploys, PlatformRestarts, ContainerStarts, WebMove
  <1>6. CASE TimePasses \/ Visits
    BY <1>6 DEF TimePasses, Visits, WebMove
  <1> QED
    BY <1>1, <1>2, <1>3, <1>4, <1>5, <1>6 DEF Next

LEMMA StepThread ==
  ASSUME Next
  PROVE  ThreadMove
  <1>1. CASE StartsOrPauses \/ Panics
    BY <1>1 DEF StartsOrPauses, Panics, AgentOnly, ThreadMove
  <1>2. CASE Reiniciar \/ Saves \/ Records \/ Edits
    BY <1>2 DEF Reiniciar, Saves, Records, Edits, ThreadMove
  <1>3. CASE Writes \/ Visits
    BY <1>3 DEF Writes, Visits, ThreadMove
  <1>4. CASE Redeploys \/ PlatformRestarts
    BY <1>4 DEF Redeploys, PlatformRestarts, ThreadMove
  <1> QED
    BY <1>1, <1>2, <1>3, <1>4 DEF Next, ThreadMove

LEMMA StepFlags ==
  ASSUME HostInv, Next
  PROVE  Flags'
  <1>1. CASE Restores
    <2>1. state \in Snapshot
      BY DEF HostInv, FileInv
    <2>2. mode' \in Modes
      BY <1>1, <2>1 DEF Restores, Snapshot
    <2>3. halted' \in BOOLEAN
      BY <1>1 DEF HostInv, Flags, Restores, Verified
    <2> QED
      BY <2>2, <2>3 DEF Flags
  <1>2. CASE StartsOrPauses \/ Panics \/ Reiniciar
    BY <1>2 DEF HostInv, Flags, StartsOrPauses, Panics, Reiniciar, Modes
  <1>3. CASE UNCHANGED agentVars
    BY <1>3 DEF HostInv, Flags, agentVars
  <1> QED
    BY <1>1, <1>2, <1>3 DEF Next, Boots, BootSaves, BootDone, Saves, Records, Writes, Crashes, Blocks,
       Unblocks, Edits, Redeploys, PlatformRestarts, ContainerStarts, TimePasses, Visits

LEMMA StepSpends ==
  ASSUME HostInv, Next
  PROVE  Spending'
  <1>1. Spending
    BY DEF HostInv
  <1>2. CASE Fault \/ Act
    <2>1. spent.faults \in Nat /\ spent.acts \in Nat
      BY <1>1, Bounds DEF Spending
    <2>2. /\ spent.faults < MaxFaults => spent.faults + 1 \in 0 .. MaxFaults
          /\ spent.acts < MaxActs => spent.acts + 1 \in 0 .. MaxActs
      BY <2>1, Bounds
    <2>3. CASE Fault
      BY <1>1, <2>2, <2>3 DEF Spending, Fault
    <2>4. CASE Act
      BY <1>1, <2>2, <2>4 DEF Spending, Act
    <2> QED
      BY <1>2, <2>3, <2>4
  <1>3. CASE UNCHANGED spent
    BY <1>1, <1>3 DEF Spending
  <1> QED
    BY <1>2, <1>3 DEF Next, Boots, Restores, BootSaves, BootDone, StartsOrPauses, Panics, Reiniciar,
       AgentOnly, Saves, Records, Writes, Crashes, Blocks, Unblocks, Edits, Redeploys, PlatformRestarts,
       TimePasses, Visits, threadVars

LEMMA HostStep == HostInv /\ [Next]_vars => HostInv'
  <1> SUFFICES ASSUME HostInv, [Next]_vars PROVE HostInv'
    OBVIOUS
  <1>1. CASE Next
    <2>1. FileInv' /\ WebInv' /\ WebTyped' /\ BeatInv'
      BY <1>1, StepFiles, StepWeb, StepThread, FilesKept, WebKept, WebTypeKept, BeatKept DEF HostInv
    <2> QED
      BY <1>1, <2>1, StepFlags, StepSpends DEF HostInv
  <1>2. CASE UNCHANGED vars
    <2>1. /\ UNCHANGED fileVars /\ UNCHANGED <<webVars, life>> /\ UNCHANGED threadVars
          /\ UNCHANGED agentVars /\ UNCHANGED spent
      BY <1>2 DEF vars
    <2>2. FilesMove /\ WebMove /\ ThreadMove
      BY <2>1 DEF FilesMove, WebMove, ThreadMove
    <2>3. FileInv' /\ WebInv' /\ WebTyped' /\ BeatInv'
      BY <2>2, FilesKept, WebKept, WebTypeKept, BeatKept DEF HostInv
    <2> QED
      BY <2>1, <2>3 DEF HostInv, agentVars, Flags, Spending
  <1> QED
    BY <1>1, <1>2

LEMMA HostKept == Spec => []HostInv
  BY HostStart, HostStep, PTL DEF Spec

-----------------------------------------------------------------------------
(* The theorems *)

LEMMA HostInvTyped ==
  ASSUME HostInv
  PROVE  TypeOK
  <1>1. FileTypeOK
    <2>1. FileInv
      BY DEF HostInv
    <2>2. state.n \in {-1} \cup 0 .. MaxSaves \cup {MaxSaves + 1} /\ state.mode \in Modes
      BY <2>1, Numbers DEF FileInv, Snapshot
    <2>3. trades = Torn \/ trades \in Seq(1 .. MaxTrades)
      BY <2>1 DEF FileInv, InOrder
    <2>4. writer.pc \in {"ready", "replace", "sign", "truncate", "write"}
      BY <2>1, WriterAt
    <2> QED
      BY <2>1, <2>2, <2>3, <2>4 DEF FileInv, FileTypeOK, Counts
  <1>2. SignInTypeOK
    BY DEF HostInv, WebInv, Fresher, Issued, WebTyped, SignInTypeOK
  <1> QED
    BY <1>1, <1>2 DEF HostInv, BeatInv, Flags, Spending, TypeOK

\* The files, the writer, the sessions, the thread and the flags stay within their types: the
\* times left and the lives that keys and nonces come from included.
THEOREM HostTyped == Spec => []TypeOK
  <1>1. HostInv => TypeOK
    BY HostInvTyped
  <1> QED
    BY <1>1, HostKept, PTL

\* Whatever is killed, crashes or fails between any two calls to the system, the state file is
\* the last save that came to its end or a later one, unless somebody changed it.
THEOREM StateSurvives == Spec => []SavedSurvives
  <1>1. HostInv => SavedSurvives
    BY DEF HostInv, FileInv, Older, SavedSurvives
  <1> QED
    BY <1>1, HostKept, PTL

\* A restart raises the alarm of the integrity check only over a file that was changed by hand or
\* whose signature was lost between two calls or in a life without the secret.
THEOREM AlarmsExplained == Spec => []AlarmHasCause
  <1>1. HostInv => AlarmHasCause
    BY DEF HostInv, FileInv, Explained, AlarmHasCause, Verified
  <1> QED
    BY <1>1, HostKept, PTL

\* The trade history is in order, without repetition and within its limit, however often it is cut
\* off in the middle of a rewrite.
THEOREM HistoryCorrect == Spec => []HistoryInOrder
  <1>1. HostInv => HistoryInOrder
    BY Numbers, EmptySeq DEF HostInv, FileInv, InOrder, HistoryInOrder, LoadedTrades
  <1> QED
    BY <1>1, HostKept, PTL

\* A message buys at most one session, in the life of the process that issued its nonce, and only
\* a key from outside makes a session, a wallet's or a guest's, outlive the process that issued it.
THEOREM SessionsCorrect == Spec => []SessionsEarned
  <1>1. WebInv => SessionsEarned
    BY DEF WebInv, Issued, Bought, SessionsEarned, Honoured
  <1> QED
    BY <1>1, HostKept, PTL DEF HostInv

\* The platform restarts only a container whose agent is blocked, or has crashed again while it
\* was on its way back: a first crash's sleep and boot always fit into what /healthz allows.
THEOREM RestartsNeeded == Spec => NoNeedlessRestart
  <1>1. HostInv /\ [Next]_vars
          => [life' # life /\ UNCHANGED spent => thread = "blocked" \/ failed > 0]_vars
    <2>1. SUFFICES ASSUME HostInv, Next, life' # life, UNCHANGED spent
                   PROVE  thread = "blocked" \/ failed > 0
      BY DEF vars
    <2>2. CASE Redeploys
      <3>1. spent \in [faults : 0 .. MaxFaults, acts : 0 .. MaxActs]
        BY <2>1 DEF HostInv, Spending
      <3>2. spent' = [spent EXCEPT !.faults = @ + 1]
        BY <2>2 DEF Redeploys, Fault
      <3>3. spent.faults \in Nat /\ spent'.faults = spent.faults + 1
        BY <3>1, <3>2, Bounds
      <3> QED
        BY <2>1, <3>3
    <2>3. CASE PlatformRestarts
      BY <2>1, <2>3, Bounds DEF HostInv, BeatInv, PlatformRestarts, Stale
    <2>4. CASE ~Redeploys /\ ~PlatformRestarts
      BY <2>1, <2>4 DEF Next, Boots, Restores, BootSaves, BootDone, StartsOrPauses, Panics, Reiniciar,
         AgentOnly, Saves, Records, Writes, Crashes, Blocks, Unblocks, Edits, TimePasses, Visits
    <2> QED
      BY <2>2, <2>3, <2>4
  <1> QED
    BY <1>1, HostKept, PTL DEF Spec, NoNeedlessRestart
=============================================================================
