------------------------------- MODULE Ledger -------------------------------
(***************************************************************************)
(* TigerBeetle as the API uses it: accounts of one ledger each, transfers  *)
(* that post at once and pending transfers that hold an amount.  Money and *)
(* shares are debits: an account's credits, posted and pending, must not   *)
(* exceed its posted debits.  TigerBeetle is not part of this repository;  *)
(* what is modelled is what the API's calls rely on.                       *)
(***************************************************************************)
EXTENDS Orders

CONSTANTS
  Admin,   \* ADMIN_ACCOUNT_ID, the counterpart of every transfer
  Cash     \* the ledger u32::MAX; the ledger of an asset is its id

ASSUME AdminAssumption == Admin \in Accounts
ASSUME CashAssumption  == Cash \notin Assets

VARIABLES
  ledger,   \* account -> its posted debits, posted credits and pending credits
  pending   \* transfer id -> a pending transfer: the account credited, the amount

ledgerVars == <<ledger, pending>>

(***************************************************************************)
(* An account is its owner and its ledger: <<c, Cash>> stands for the id c *)
(* itself, <<c, a>> for Uuid::new_v5(c, a).                                *)
(***************************************************************************)
LedgerIds == Accounts \X (Assets \cup {Cash})

Balance == [debits : Nat, credits : Nat, pending : Nat]

\* CREDITS_MUST_NOT_EXCEED_DEBITS is set on every account but the admin's cash.
Capped(x) == x # <<Admin, Cash>>

LedgerInit ==
  /\ ledger  = [x \in {} |-> {}]
  /\ pending = [t \in {} |-> {}]

-----------------------------------------------------------------------------

(***************************************************************************)
(* create_accounts: `Exists' is not an error to any of its callers.        *)
(***************************************************************************)
CreateAccount(x) ==
  /\ ledger' = [y \in DOMAIN ledger \cup {x} |->
                  IF y \in DOMAIN ledger THEN ledger[y]
                                         ELSE [debits |-> 0, credits |-> 0, pending |-> 0]]
  /\ UNCHANGED pending

(***************************************************************************)
(* The conditions a transfer of n must meet, posted or pending.            *)
(***************************************************************************)
Admits(debit, credit, n) ==
  /\ n > 0
  /\ debit # credit
  /\ {debit, credit} \subseteq DOMAIN ledger
  /\ debit[2] = credit[2]
  /\ Capped(credit) =>
       ledger[credit].credits + ledger[credit].pending + n <= ledger[credit].debits

Post(debit, credit, n) ==
  /\ Admits(debit, credit, n)
  /\ ledger' = [ledger EXCEPT ![debit].debits = @ + n, ![credit].credits = @ + n]
  /\ UNCHANGED pending

Hold(t, debit, credit, n) ==
  /\ t \notin DOMAIN pending
  /\ Admits(debit, credit, n)
  /\ ledger' = [ledger EXCEPT ![credit].pending = @ + n]
  /\ pending' = [u \in DOMAIN pending \cup {t} |->
                   IF u = t THEN [account |-> credit, amount |-> n] ELSE pending[u]]

=============================================================================
