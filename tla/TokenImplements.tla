--------------------------- MODULE TokenImplements ---------------------------
(***************************************************************************)
(* The token endpoint implements its contract.  The mapping forgets the    *)
(* requests, the clock and the journal; the one thing it reads off the     *)
(* requests is which code has been marked used by a handler that has not   *)
(* stored the session yet.                                                 *)
(***************************************************************************)
EXTENDS TokenService

codeBar ==
  [c \in Codes |-> CASE grants[c].state = "none" -> "unissued"
                     [] grants[c].state = "open" -> "redeemable"
                     [] OTHER -> "spent"]
owedBar == {c \in Codes : \E r \in Requests : req[r].pc = "mint" /\ req[r].code = c}
currentBar == [s \in Pairs |-> IF sessions[s].live THEN sessions[s].tok ELSE 0]
pastBar == [s \in Pairs |-> {p \in Pairs : retired[p] = s}]
knownBar == 1 .. next - 1

Contract == INSTANCE TokenContract WITH
  code <- codeBar, owed <- owedBar, current <- currentBar, past <- pastBar,
  known <- knownBar

\* Every interleaving of handlers, aborted ones included, is a behaviour of
\* the contract: concurrent redemptions and refreshes, revocations and
\* sign-outs in between look like one atomic operation each.
ImplementsContract == Contract!Spec
=============================================================================
