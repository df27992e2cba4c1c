---------------------------- MODULE LiveReports ----------------------------
(***************************************************************************)
(* The dashboard over the live experiment: Reports read from the rows that *)
(* Settlement's webhooks, polls and resets write.                          *)
(***************************************************************************)
EXTENDS Settlement, Reports

\* Every case of the experiment asks for the same amount (AMOUNT_PAISE) and has its
\* assignment; it is no demonstration.
LiveDb ==
  [c \in {x \in Case : Exists(x)} |->
     [status |-> status[c], amount |-> 1, recovered |-> IF via[c] = "NONE" THEN 0 ELSE 1,
      via |-> via[c], arm |-> IF c \in Control THEN "CONTROL" ELSE "TREATMENT",
      rule |-> "NONE", demo |-> FALSE, waiting |-> FALSE]]

\* test_money_ledger.py: "Two independent queries of one quantity, which must
\* agree", the ledger's driven and the attribution's gross; and the tile, the claims
\* and the holdout count the same proofs.
ProvenCountsAgree ==
  LET db == LiveDb
      driven == MoneyLedger(db).driven IN
  /\ driven = Attribution(db).gross
  /\ driven = Overview(db).gross_recovered
  /\ driven = Claims(db).claimed_total
  /\ driven = HoldoutReport(db)["TREATMENT"].paise

\* reconciliation.py: "disjoint populations"; claims(): a payment is on one of its
\* two lists.
ListsAreDisjoint == Claims(LiveDb).claimed \cap Claims(LiveDb).not_claimed = {}
=============================================================================
