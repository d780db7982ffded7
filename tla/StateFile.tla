----------------------------- MODULE StateFile -----------------------------
(***************************************************************************)
(* The files an agent leaves for its next life: the state, replaced as a   *)
(* whole and then signed in a second file, and the trade history, read and *)
(* rewritten in place.  Each is written by several calls to the system,    *)
(* and the container may be killed between any two of them.                *)
(*                                                                         *)
(* What a snapshot holds is its number, which grows with every save, and   *)
(* the state of the agent in it.  What happens around the files is Host.   *)
(***************************************************************************)
EXTENDS Integers, Sequences

CONSTANTS
  Seed,        \* STATE_SEED_B64 is set
  EditedTo,    \* what the state of the agent may be edited to
  KeptTrades,  \* how many trades append_trade keeps
  MaxSaves,    \* bound: snapshots taken
  MaxTrades    \* bound: trades recorded

Modes == {"TRADING", "PAUSED", "HALTED"}
Absent == [n |-> -1, mode |-> "PAUSED"]   \* no state file yet
Seeded == [n |-> 0, mode |-> "PAUSED"]    \* the one _seed_file writes
Unsigned == -2                            \* no signature file, or an empty one
Torn == <<-1>>                            \* a trade history cut in the middle

ASSUME StateFileAssumption ==
  /\ Seed \in BOOLEAN /\ EditedTo \subseteq Modes /\ KeptTrades \in Nat \ {0} /\ MaxSaves \in Nat /\ MaxTrades \in Nat

VARIABLES
  state,    \* agent_state.json: a snapshot
  sig,      \* agent_state.json.sig: the number of the snapshot it signs
  trades,   \* trades.json
  writer,   \* the save or the append under way: [pc, data]
  secret,   \* STATE_HMAC_SECRET is set, in this life
  taken,    \* the snapshots taken, the last one that was saved to the end, the trades recorded
  suspect   \* the file was changed by hand, or its signature was lost since its save (history)
files == <<state, sig, trades>>
fileVars == <<files, writer, secret, taken, suspect>>

Ready == [pc |-> "ready", data |-> << >>]

\* integrity.verify: whether the file passes.
Verified == ~secret \/ sig = Unsigned \/ state = Absent \/ sig = state.n

\* load_trades: a torn file reads as an empty one.
LoadedTrades == IF trades = Torn THEN << >> ELSE trades

FileTypeOK ==
  /\ state.n \in {-1} \cup 0 .. MaxSaves \cup {MaxSaves + 1} /\ state.mode \in Modes
  /\ sig \in {Unsigned} \cup 0 .. MaxSaves + 1
  /\ trades = Torn \/ trades \in Seq(1 .. MaxTrades)
  /\ writer.pc \in {"ready", "replace", "sign", "truncate", "write"}
  /\ secret \in BOOLEAN /\ suspect \in BOOLEAN
  /\ taken \in [begun : 0 .. MaxSaves, saved : 0 .. MaxSaves, trades : 0 .. MaxTrades]

(***************************************************************************)
(* save_state.                                                             *)
(***************************************************************************)
\* The snapshot is taken and written to the temporary file.
SaveBegins(mode) ==
  /\ writer.pc = "ready" /\ taken.begun < MaxSaves
  /\ writer' = [pc |-> "replace", data |-> <<[n |-> taken.begun + 1, mode |-> mode]>>]
  /\ taken' = [taken EXCEPT !.begun = @ + 1]
  /\ UNCHANGED <<files, secret, suspect>>

\* tmp.replace; without a secret that is all.
SaveReplaces ==
  /\ writer.pc = "replace"
  /\ state' = writer.data[1]
  /\ writer' = IF secret THEN [writer EXCEPT !.pc = "sign"] ELSE Ready
  /\ taken' = IF secret THEN taken ELSE [taken EXCEPT !.saved = writer.data[1].n]
  /\ suspect' = (sig # Unsigned)
  /\ UNCHANGED <<sig, trades, secret>>

\* mutant: the signature of the snapshot before is left
SignsPrevious(n) == n - 1
Signed(n) == n
SaveSigns ==
  /\ writer.pc = "sign"
  /\ sig' = Signed(writer.data[1].n) /\ suspect' = (state # writer.data[1])
  /\ taken' = [taken EXCEPT !.saved = writer.data[1].n] /\ writer' = Ready
  /\ UNCHANGED <<state, trades, secret>>

\* The disk is full or the file is busy: _save logs it and goes on, append_trade raises.
\* write_text empties the signature before it writes it.
WriteFails ==
  /\ writer.pc # "ready" /\ writer' = Ready
  /\ \/ UNCHANGED sig
     \/ writer.pc = "sign" /\ sig' = Unsigned
  /\ UNCHANGED <<state, trades, secret, taken, suspect>>

(***************************************************************************)
(* append_trade.                                                           *)
(***************************************************************************)
NewestFirst(h, trade) == <<trade>> \o h   \* mutant: the trade goes in front
Recorded(h, trade) == Append(h, trade)
AppendBegins ==
  /\ writer.pc = "ready" /\ taken.trades < MaxTrades
  /\ writer' = [pc |-> "truncate", data |-> Recorded(LoadedTrades, taken.trades + 1)]
  /\ taken' = [taken EXCEPT !.trades = @ + 1]
  /\ UNCHANGED <<files, secret, suspect>>

\* write_text opens the file for writing, which empties it.
AppendTruncates ==
  /\ writer.pc = "truncate" /\ trades' = Torn /\ writer' = [writer EXCEPT !.pc = "write"]
  /\ UNCHANGED <<state, sig, secret, taken, suspect>>

Latest(s) == IF Len(s) > KeptTrades THEN SubSeq(s, Len(s) - KeptTrades + 1, Len(s)) ELSE s
AppendWrites ==
  /\ writer.pc = "write" /\ trades' = Latest(writer.data) /\ writer' = Ready
  /\ UNCHANGED <<state, sig, secret, taken, suspect>>

WriterGoesOn ==
  SaveReplaces \/ SaveSigns \/ WriteFails \/ AppendTruncates \/ AppendWrites

\* The state file is changed by hand: another snapshot than any that was taken.
Forged(mode) == [n |-> MaxSaves + 1, mode |-> mode]
Tampered ==
  /\ state # Absent /\ \E mode \in EditedTo : state' = Forged(mode)
  /\ suspect' = TRUE
  /\ UNCHANGED <<sig, trades, writer, secret, taken>>

\* _seed_file, only if the file is absent.
Reseeded(s) == IF Seed THEN Seeded ELSE s   \* mutant: whenever there is a seed
Bootstrapped(s) == IF s = Absent /\ Seed THEN Seeded ELSE s

\* The container goes: what was being written stays as it is, a signature may be left empty.
\* The next one may come with or without the secret, and _bootstrap seeds a missing file.
FilesSurvive ==
  /\ writer' = Ready
  /\ secret' \in BOOLEAN
  /\ state' = Bootstrapped(state)
  /\ \/ UNCHANGED sig
     \/ writer.pc = "sign" /\ sig' = Unsigned
  /\ UNCHANGED <<trades, taken, suspect>>

FilesInit ==
  /\ state = Bootstrapped(Absent) /\ sig = Unsigned
  /\ trades = << >> /\ writer = Ready /\ secret \in BOOLEAN
  /\ taken = [begun |-> 0, saved |-> 0, trades |-> 0] /\ suspect = FALSE

(***************************************************************************)
(* What the files promise.                                                 *)
(***************************************************************************)
\* Whatever is killed and wherever: the state file is one that was taken, the last one saved to
\* its end or a later one (persistence.save_state replaces, and never rewrites), unless somebody
\* changed it.
SavedSurvives ==
  state # Absent /\ state.n <= MaxSaves => taken.saved <= state.n /\ state.n <= taken.begun

\* A file that fails the check was changed by hand, or it lost its signature between two calls
\* or in a life without the secret: never one whose save came to its end under the secret.
AlarmHasCause == ~Verified => suspect

\* The history is in the order of the trades, with none twice and at most KeptTrades of them: a
\* kill in the middle of a rewrite costs what came before and nothing that comes after
\* (persistence.append_trade, load_trades).
HistoryInOrder ==
  LET h == LoadedTrades IN
  Len(h) <= KeptTrades /\ \A i \in 1 .. Len(h) - 1 : h[i] < h[i + 1]
=============================================================================
