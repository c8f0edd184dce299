---------------------------- MODULE TokenContract ----------------------------
(***************************************************************************)
(* What the token endpoint promises, with no requests, no database and no  *)
(* interleaving: a code opens at most one session; a session has one       *)
(* current token pair, which a refresh replaces in one step by one never   *)
(* used before; the session remembers every pair it has left behind; and   *)
(* once closed it is closed for good.                                      *)
(***************************************************************************)
EXTENDS Naturals

CONSTANTS Codes, Pairs

VARIABLES
  code,     \* each code: unissued, redeemable, spent
  owed,     \* codes whose one redemption has succeeded, session not yet open
  current,  \* each session's current pair, 0 when it is not open
  past,     \* the pairs each open session has rotated away from
  known     \* the pairs that have ever been current

vars == <<code, owed, current, past, known>>

Init ==
  /\ code = [c \in Codes |-> "unissued"]
  /\ owed = {}
  /\ current = [s \in Pairs |-> 0]
  /\ past = [s \in Pairs |-> {}]
  /\ known = {}

Issue(c) ==
  /\ code[c] = "unissued"
  /\ code' = [code EXCEPT ![c] = "redeemable"]
  /\ UNCHANGED <<owed, current, past, known>>

Redeem(c) ==
  /\ code[c] = "redeemable"
  /\ code' = [code EXCEPT ![c] = "spent"]
  /\ owed' = owed \cup {c}
  /\ UNCHANGED <<current, past, known>>

\* A new session on a pair never seen before.
OpenSession(s) ==
  /\ s \notin known
  /\ current[s] = 0
  /\ current' = [current EXCEPT ![s] = s]
  /\ known' = known \cup {s}
  /\ UNCHANGED past

\* The session a redeemed code is good for.
Open(c, s) == c \in owed /\ owed' = owed \ {c} /\ OpenSession(s) /\ UNCHANGED code

\* A session of a machine client, which no code pays for.
OpenMachine(s) == OpenSession(s) /\ UNCHANGED <<code, owed>>

\* The redemption fails after the code is spent.
Forfeit(c) == c \in owed /\ owed' = owed \ {c} /\ UNCHANGED <<code, current, past, known>>

Rotate(s, p) ==
  /\ current[s] # 0
  /\ p \notin known
  /\ current' = [current EXCEPT ![s] = p]
  /\ past' = [past EXCEPT ![s] = @ \cup {current[s]}]
  /\ known' = known \cup {p}
  /\ UNCHANGED <<code, owed>>

\* Revocation, replay, sign-out; a deleted account also withdraws codes.
Close(S, C) ==
  /\ current' = [s \in Pairs |-> IF s \in S THEN 0 ELSE current[s]]
  /\ past' = [s \in Pairs |-> IF s \in S THEN {} ELSE past[s]]
  /\ code' = [c \in Codes |-> IF c \in C THEN "spent" ELSE code[c]]
  /\ UNCHANGED <<owed, known>>

Next ==
  \/ \E c \in Codes : Issue(c) \/ Redeem(c) \/ Forfeit(c)
  \/ \E c \in Codes, s \in Pairs : Open(c, s)
  \/ \E s \in Pairs : OpenMachine(s)
  \/ \E s, p \in Pairs : Rotate(s, p)
  \/ \E S \in SUBSET Pairs, C \in SUBSET Codes : Close(S, C)

Spec == Init /\ [][Next]_vars
=============================================================================
