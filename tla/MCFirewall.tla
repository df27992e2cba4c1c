----------------------------- MODULE MCFirewall -----------------------------
(* A small instance of Firewall for TLC: small amounts, every boundary. *)
EXTENDS Firewall

Suggest(strategy, class, discount, expiry) ==
  [strategy |-> strategy, class |-> class, discount |-> discount, expiry |-> expiry]

\* Discounts on both sides of every bound; validities likewise.
ModelProposals ==
  {Suggest("LINK", class, d, 30) : class \in {"MARKETING", "TRANSACTIONAL"},
                                   d \in {NaN, -1, 0, 3, 7, 8}}
  \cup {Suggest("NO_ACTION", "MARKETING", d, 30) : d \in {0, 7, 8}}
  \cup {Suggest("LINK", "MARKETING", 3, m) : m \in {NaN, 14, 101}}

Quietly(start, window, marketing) ==
  [now |-> start, window |-> window, order_status |-> "created", case_status |-> "DETECTED",
   attempt_no |-> 0, discount_attempts |-> 0, opted_out |-> FALSE, dnd |-> FALSE,
   marketing |-> marketing, transactional |-> TRUE, contacts_24h |-> 0,
   contacts_48h |-> 0, last_contact |-> None, promise_active |-> FALSE,
   promised_at |-> None, autopilot |-> TRUE, actions_today |-> 0, exposure |-> 0,
   class |-> "TRANSACTIONAL", discount |-> 0, outbound |-> TRUE]

Open(amount, arm, stopping) ==
  [amount |-> amount, arm |-> arm, attempt_no |-> 1, stopping |-> stopping,
   approved |-> None]

\* Amounts on both sides of each threshold; at 900 the rupee cap bites below it.
CaseOpenings ==
  {Open(a, "TREATMENT", Quietly(18, 60, m)) : a \in {0, 10, 900, 1000, 2000},
                                              m \in BOOLEAN}
  \cup {Open(150, "CONTROL", Quietly(18, 60, TRUE)),
        Open(150, "TREATMENT", Quietly(18, 34, FALSE)),
        Open(150, "TREATMENT", Quietly(2, None, TRUE)),
        Open(150, "TREATMENT", [Quietly(18, 60, TRUE) EXCEPT
          !.contacts_24h = 1, !.contacts_48h = 1, !.last_contact = 12]),
        Open(150, "TREATMENT", [Quietly(18, 60, TRUE) EXCEPT
          !.promise_active = TRUE, !.promised_at = 27])}
=============================================================================
