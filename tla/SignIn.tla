------------------------------- MODULE SignIn -------------------------------
(***************************************************************************)
(* Signing in to the Console.  With a wallet: a nonce is issued, the       *)
(* wallet signs a message that holds it, and the message buys one session, *)
(* a token signed with a key of the process.  As a guest: a session for a  *)
(* wallet drawn at random, for the asking.  The nonces live in memory, the *)
(* tokens in browsers; the process restarts under both (Host).             *)
(***************************************************************************)
EXTENDS Integers, FiniteSets

CONSTANTS
  NonceTTL,    \* _NONCE_TTL
  SessionTTL,  \* _SESSION_TTL
  LastingKey,  \* SESSION_SECRET is set: the key outlives the process
  MaxNonces,   \* bound: nonces issued
  MaxTokens    \* bound: tokens issued

ASSUME SignInAssumption ==
  {NonceTTL, SessionTTL, MaxNonces, MaxTokens} \subseteq Nat /\ LastingKey \in BOOLEAN

VARIABLES
  nonces,   \* _nonces: the time each has left, negative once it has expired
  asked,    \* the messages the browsers hold: the life that issued the nonce of each
  tokens,   \* the session cookies: [left, key], and what each was bought with and when (history)
  key,      \* _SESSION_SECRET, by the life that drew it
  life      \* how often the process has been started
webVars == <<nonces, asked, tokens, key>>

SignInTypeOK ==
  /\ DOMAIN nonces \subseteq DOMAIN asked /\ \A n \in DOMAIN nonces : nonces[n] \in -1 .. NonceTTL
  /\ \A n \in DOMAIN asked : n \in 1 .. MaxNonces /\ asked[n] \in 0 .. life
  /\ \A t \in tokens : /\ t.left \in -1 .. SessionTTL /\ t.key \in 0 .. life
                      /\ t.nonce \in 0 .. MaxNonces
  /\ key \in 0 .. life

\* new_nonce: the expired nonces are purged and a fresh one is issued, and put in a message.
NonceIssued ==
  LET n == Cardinality(DOMAIN asked) + 1
      kept == {x \in DOMAIN nonces : nonces[x] >= 0}
  IN /\ n <= MaxNonces
     /\ nonces' = [x \in kept \cup {n} |-> IF x = n THEN NonceTTL ELSE nonces[x]]
     /\ asked' = [x \in 1 .. n |-> IF x = n THEN life ELSE asked[x]]
     /\ UNCHANGED <<tokens, key>>

\* _consume_nonce: the nonce is taken out whether or not it has expired.
\* mutant: the nonce stays in the list
KeptNonces(n) == nonces
Consumed(n) == [x \in DOMAIN nonces \ {n} |-> nonces[x]]
Live(n) == n \in DOMAIN nonces /\ nonces[n] >= 0

\* make_session, for the message with nonce n.
Guest == 0   \* no message at all
Issues(n) ==
  /\ Cardinality(tokens) < MaxTokens
  /\ tokens' = tokens \cup {[left |-> SessionTTL, key |-> key, id |-> Cardinality(tokens),
                             nonce |-> n, life |-> life]}

\* verify_signer: the nonce goes before the signature is looked at; a message
\* signed by the wallet it is presented for buys a session.  A browser may send it again.
Presented(n, genuine) ==
  /\ nonces' = Consumed(n)
  /\ IF Live(n) /\ genuine THEN Issues(n) ELSE UNCHANGED tokens
  /\ UNCHANGED <<asked, key>>

\* auth_guest.
GuestEnters == Issues(Guest) /\ UNCHANGED <<nonces, asked, key>>

SignsIn ==
  \/ NonceIssued
  \/ \E n \in DOMAIN asked, genuine \in BOOLEAN : Presented(n, genuine)
  \/ GuestEnters

\* check_session.  Logging out only drops the browser's copy.
Honoured(t) == t.key = key /\ t.left >= 0

\* A new process: the nonces are gone, and the key is drawn anew unless it comes from outside.
WebRestarts ==
  /\ nonces' = << >> /\ key' = (IF LastingKey THEN key ELSE life + 1)
  /\ UNCHANGED <<asked, tokens>>

Later(t) == t - 1   \* mutant: it counts on below the end
Sooner(t) == IF t < 0 THEN t ELSE t - 1
WebTimePasses ==
  /\ nonces' = [n \in DOMAIN nonces |-> Sooner(nonces[n])]
  /\ tokens' = {[t EXCEPT !.left = Sooner(@)] : t \in tokens}
  /\ UNCHANGED <<asked, key>>

WebInit == nonces = << >> /\ asked = << >> /\ tokens = {} /\ key = 0 /\ life = 0

\* The session of a wallet was bought by a message of its own, in the life of the process that
\* issued its nonce (auth._recovered_ok); a guest's was given away.  Only a key from outside lets
\* either outlive the process that issued it.
SessionsEarned ==
  /\ \A t \in tokens : t.nonce # Guest => t.life = asked[t.nonce]
  /\ \A t, u \in tokens : t.nonce = u.nonce /\ t.nonce # Guest => t = u
  /\ \A t \in tokens : Honoured(t) => LastingKey \/ t.life = life
=============================================================================
