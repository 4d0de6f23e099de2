----------------------------- MODULE MCAccounts -----------------------------
(* Instances of Accounts for TLC. *)
EXTENDS Accounts, TLC

CONSTANTS r1, r2, r3, u1, u2

PairRequests == {r1, r2}
TrioRequests == {r1, r2, r3}
TwoUsers == {u1, u2}
Swap == Permutations(TwoUsers)

SmallAmounts == {-1, 1}
SmallOpening == {0, 1}
UnitAmount == {1}

MoneyKinds == Kinds \ {"delete", "profile"}

(* Any operation of the three programs, against a transfer or the deletion   *)
(* of an entry by an administrator, and a purchase meanwhile.                *)
BooksAllowed ==
  [r \in TrioRequests |-> CASE r = r1 -> MoneyKinds
                            [] r = r2 -> {"transfer", "adminTransfer", "delete"}
                            [] r = r3 -> {"purchase"}]

(* Transfers that may wait for each other in a circle, an administrator's    *)
(* transfer under them, and an administrator who edits an account meanwhile. *)
TransferAllowed ==
  [r \in TrioRequests |-> CASE r = r1 -> {"transfer"}
                            [] r = r2 -> {"transfer", "profile"}
                            [] r = r3 -> {"adminTransfer"}]

(* One purchase while a profile is edited. *)
EditAllowed == [r \in PairRequests |-> IF r = r1 THEN {"profile"} ELSE {"purchase"}]
=============================================================================
