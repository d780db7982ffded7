-------------------------------- MODULE Host --------------------------------
(***************************************************************************)
(* One container: the site on the main thread, the agent on a thread of    *)
(* its own under the supervision of _run_agent, the files both leave, and  *)
(* the platform that restarts the container when /healthz says that the    *)
(* agent has not beaten for too long.                                      *)
(*                                                                         *)
(* Of the agent it has what a boot brings back or sets anew: its state and *)
(* the halt flag.                                                          *)
(***************************************************************************)
EXTENDS StateFile, SignIn

CONSTANTS
  BackoffStep,  \* the supervisor waits 5 s times the number of starts
  BackoffCap,   \* and at most 60 s
  StaleAfter,   \* /healthz fails when the last beat is older than 300 s
  BootTime,     \* bound: how long main takes to its first beat
  MaxFaults,    \* bound: crashes, blocked calls, kills and edits of the file
  MaxActs       \* bound: what the agent does and saves, and what visitors do

ASSUME HostAssumption ==
  /\ {BackoffStep, BackoffCap, StaleAfter, BootTime, MaxFaults, MaxActs} \subseteq Nat
  /\ BackoffCap + BootTime <= StaleAfter

VARIABLES
  thread,   \* the agent's thread: "down", "booting", "saving", "up" or "blocked"
  starts,   \* attempt of _run_agent, as far as its sleep depends on it
  wait,     \* what is left of its sleep, or of the time a boot takes
  age,      \* liveness.age_seconds
  mode,     \* the agent's state
  halted,   \* the risk engine's flag
  failed,   \* boots that crashed since the agent was last up (history)
  spent     \* what has been used of the bounds
agentVars == <<mode, halted>>
threadVars == <<thread, starts, wait, age, failed>>
vars == <<fileVars, webVars, life, agentVars, threadVars, spent>>

\* Type invariant.
TypeOK ==
  /\ FileTypeOK /\ SignInTypeOK
  /\ thread \in {"down", "booting", "saving", "up", "blocked"}
  /\ {starts, wait, age, failed} \subseteq Nat
  /\ mode \in Modes /\ halted \in BOOLEAN
  /\ spent \in [faults : 0 .. MaxFaults, acts : 0 .. MaxActs]

Fault == spent.faults < MaxFaults /\ spent' = [spent EXCEPT !.faults = @ + 1]
Act == spent.acts < MaxActs /\ spent' = [spent EXCEPT !.acts = @ + 1]
Least(a, b) == IF a < b THEN a ELSE b

(***************************************************************************)
(* The boot: run_agent.main.                                               *)
(***************************************************************************)
\* The risk engine is new; restore halts it when the file fails the check, and then loads the
\* file all the same, its state included.
Restores ==
  /\ thread = "down" /\ wait = 0
  /\ halted' = ~Verified /\ mode' = state.mode
  /\ starts' = Least(starts + 1, BackoffCap) /\ wait' = BootTime /\ thread' = "booting"
  /\ UNCHANGED <<fileVars, webVars, life, age, failed, spent>>

\* _save right at startup signs whatever was loaded.
BootSaves ==
  /\ thread = "booting" /\ SaveBegins(mode) /\ thread' = "saving"
  /\ UNCHANGED <<webVars, life, agentVars, starts, wait, age, failed, spent>>

\* start_polling and the first beat.  An agent that was trading resumes.
BootDone ==
  /\ thread = "saving" /\ writer = Ready
  /\ thread' = "up" /\ age' = 0 /\ wait' = 0 /\ failed' = 0
  /\ UNCHANGED <<fileVars, webVars, life, agentVars, starts, spent>>

(***************************************************************************)
(* The agent at work, as far as its next boot can tell.                    *)
(***************************************************************************)
AtWork == thread = "up" /\ writer = Ready
AgentOnly == UNCHANGED <<files, suspect, secret, webVars, life, threadVars>>

StartsOrPauses ==
  /\ AtWork /\ Act /\ mode # "HALTED" /\ mode' \in {"TRADING", "PAUSED"} \ {mode}
  /\ UNCHANGED <<halted, writer, taken>> /\ AgentOnly

Panics ==
  /\ AtWork /\ Act /\ mode' = "HALTED" /\ halted' = TRUE
  /\ UNCHANGED <<writer, taken>> /\ AgentOnly

\* restart_session clears the halt and saves.
Reiniciar ==
  /\ AtWork /\ Act /\ mode' = "TRADING" /\ halted' = FALSE
  /\ SaveBegins("TRADING")
  /\ UNCHANGED <<webVars, life, threadVars>>

Saves ==
  /\ AtWork /\ Act /\ SaveBegins(mode)
  /\ UNCHANGED <<webVars, life, agentVars, threadVars>>

\* A sell is recorded in any state, and a buy of an agent that is not halted too.
Records ==
  /\ AtWork /\ Act /\ AppendBegins
  /\ UNCHANGED <<webVars, life, agentVars, threadVars>>

Writes ==
  /\ thread \in {"saving", "up"} /\ WriterGoesOn
  /\ UNCHANGED <<webVars, life, agentVars, threadVars, spent>>

(***************************************************************************)
(* What goes wrong, and who repairs it.                                    *)
(***************************************************************************)
Sleep(n) == Least(BackoffCap, BackoffStep * n)

\* main raises or returns: the supervisor sleeps and starts it again.
Crashes ==
  /\ Fault /\ thread \in {"booting", "saving", "up"} /\ writer = Ready
  /\ thread' = "down" /\ wait' = Sleep(starts)
  /\ failed' = IF thread = "up" THEN 0 ELSE failed + 1
  /\ UNCHANGED <<fileVars, webVars, life, agentVars, starts, age>>

\* A call blocks the event loop, in the middle of a save perhaps, and may come back.
Blocks ==
  /\ Fault /\ thread = "up" /\ thread' = "blocked"
  /\ UNCHANGED <<fileVars, webVars, life, agentVars, starts, wait, age, failed>>
Unblocks ==
  /\ thread = "blocked" /\ thread' = "up" /\ age' = 0
  /\ UNCHANGED <<fileVars, webVars, life, agentVars, starts, wait, failed, spent>>

Edits ==
  /\ Fault /\ Tampered
  /\ UNCHANGED <<webVars, life, agentVars, threadVars>>

\* A container starts: _bootstrap, a new process, the first start of the agent.
ContainerStarts ==
  /\ FilesSurvive /\ WebRestarts /\ life' = life + 1
  /\ thread' = "down" /\ starts' = 0 /\ wait' = 0 /\ age' = 0 /\ failed' = 0
  /\ UNCHANGED agentVars

Redeploys == Fault /\ ContainerStarts

\* healthz.
DeafStale == FALSE               \* mutant: no age is old enough
EagerStale == age >= StaleAfter  \* mutant: the limit itself is too old
Stale == age > StaleAfter
PlatformRestarts == Stale /\ ContainerStarts /\ UNCHANGED spent

\* Time passes, unless a boot has used up its own; an event loop that runs beats meanwhile.
TimePasses ==
  /\ thread \in {"booting", "saving"} => wait > 0
  /\ thread = "down" => wait > 0
  /\ WebTimePasses /\ age' = (IF thread = "up" THEN 0 ELSE Least(age + 1, StaleAfter + 1))
  /\ wait' = IF wait > 0 THEN wait - 1 ELSE 0
  /\ UNCHANGED <<fileVars, life, agentVars, thread, starts, failed, spent>>

Visits ==
  /\ Act /\ SignsIn
  /\ UNCHANGED <<fileVars, life, agentVars, threadVars>>

Init ==
  /\ FilesInit /\ WebInit
  /\ thread = "down" /\ starts = 0 /\ wait = 0 /\ age = 0 /\ failed = 0
  /\ mode = "PAUSED" /\ halted = FALSE
  /\ spent = [faults |-> 0, acts |-> 0]

Boots == Restores \/ BootSaves \/ BootDone
Next ==
  \/ Boots \/ StartsOrPauses \/ Panics \/ Reiniciar \/ Saves \/ Records \/ Writes
  \/ Crashes \/ Blocks \/ Unblocks \/ Edits \/ Redeploys \/ PlatformRestarts
  \/ TimePasses \/ Visits

Spec == Init /\ [][Next]_vars
\* The supervisor and main go on, time does, and the platform acts on a failed health check.
\* Nothing obliges a blocked call to return.
FairSpec ==
  Spec /\ WF_vars(Boots) /\ WF_vars(Writes) /\ WF_vars(TimePasses) /\ WF_vars(PlatformRestarts)

(***************************************************************************)
(* What the arrangement promises.                                          *)
(***************************************************************************)
\* The platform never restarts a container whose agent runs, nor one whose agent has crashed
\* once and is on its way back: the longest sleep and a boot fit into the time that /healthz
\* allows (railway_start.py:71, site.py:328).
NoNeedlessRestart ==
  [][life' # life /\ UNCHANGED spent => thread = "blocked" \/ failed > 0]_vars

\* Whatever crashes, blocks or is killed, the agent is up again in the end (railway_start's
\* supervisor for a crash, /healthz and the platform for a blocked loop).
AgentComesBack == []<>(thread = "up")
=============================================================================
