-------------------------------- MODULE Metering --------------------------------
(***************************************************************************)
(* What the budget ledger promises about the tokens of every run           *)
(* (DECISIONS 12.12): spending is announced before it happens, at most one *)
(* announcement is open, it fits under every limit on top of what was      *)
(* really spent, and it is closed once, with the real amounts.             *)
(***************************************************************************)
EXTENDS Naturals

CONSTANTS Runs, Tokens, Limit

VARIABLES
    open,     \* open[r]: a request is announced and not settled
    held,     \* held[r][d]: the amount it announced in dimension d
    settled   \* settled[r][d]: what the settled requests really spent

vars == <<open, held, settled>>

Init ==
    /\ open = [r \in Runs |-> FALSE]
    /\ held = [r \in Runs |-> [d \in Tokens |-> 0]]
    /\ settled = [r \in Runs |-> [d \in Tokens |-> 0]]

Hold(r) ==
    /\ ~open[r]
    /\ open' = [open EXCEPT ![r] = TRUE]
    /\ held' = [held EXCEPT ![r] = held'[r]]
    /\ \A d \in Tokens : held'[r][d] >= 0 /\ settled[r][d] + held'[r][d] <= Limit[d]
    /\ UNCHANGED settled

Settle(r) ==
    /\ open[r]
    /\ open' = [open EXCEPT ![r] = FALSE]
    /\ held' = [held EXCEPT ![r] = [d \in Tokens |-> 0]]
    /\ settled' = [settled EXCEPT ![r] = settled'[r]]
    /\ \A d \in Tokens : settled'[r][d] >= settled[r][d]

Next == \E r \in Runs : Hold(r) \/ Settle(r)

Spec == Init /\ [][Next]_vars
=============================================================================
