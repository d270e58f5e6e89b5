------------------------------ MODULE Journal ------------------------------
(***************************************************************************)
(* What the wallet ledger promises, with no wallet rows, locks or requests *)
(* in sight: a journal of money movements that only ever grows, takes each *)
(* idempotency key once, and takes back a movement at most once, with the  *)
(* sides exchanged.  WalletLedger is shown to implement it.                *)
(***************************************************************************)
EXTENDS Integers, Sequences

CONSTANTS
  Wallets,   \* the wallet rows of one school and currency
  Keys,      \* idempotency keys the clients send
  Amounts,   \* amounts the clients ask for, in cents
  NoWallet   \* source_wallet_id / destination_wallet_id = NULL

VARIABLE journal

(***************************************************************************)
(* A row of wallet_transactions.  "reverses" is reference_id of a          *)
(* wallet_reversal row and 0 in every other; the key of a reversal is      *)
(* derived from the row it reverses, so it is no client's key.             *)
(***************************************************************************)
ClientKey(k) == <<"client", k>>
ReversalKey(n) == <<"wallet_reversal", n>>

Movements ==
  [kind : {"transfer", "deposit"}, from : Wallets \cup {NoWallet}, to : Wallets,
   amount : Amounts, key : {"client"} \X Keys, reverses : {0}]

ReversalOf(n, e) ==
  [kind |-> "reversal", from |-> e.to, to |-> e.from, amount |-> e.amount,
   key |-> ReversalKey(n), reverses |-> n]

Posted(log, key) == \E i \in DOMAIN log : log[i].key = key

Init == journal = << >>

\* A movement between two different sides, under a key not used before.
Move(e) ==
  /\ e.from # e.to
  /\ e.amount > 0
  /\ ~ Posted(journal, e.key)
  /\ journal' = Append(journal, e)

\* The counter-entry of a movement that is no counter-entry itself.
Reverse(n) ==
  /\ journal[n].kind # "reversal"
  /\ ~ Posted(journal, ReversalKey(n))
  /\ journal' = Append(journal, ReversalOf(n, journal[n]))

Next == \/ \E e \in Movements : Move(e)
        \/ \E n \in DOMAIN journal : Reverse(n)

Spec == Init /\ [][Next]_journal
=============================================================================
