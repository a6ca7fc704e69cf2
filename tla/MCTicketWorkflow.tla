--------------------------- MODULE MCTicketWorkflow ---------------------------
EXTENDS TicketWorkflow, TLC

Symmetry == Permutations(Requests)

MCNames == {"new", "pending", "rejected", "approved", "archived"}
MCActions == {"submit", "reject", "approve", "postpone"}
MCRoles == {"manager", "backoffice"}
MCUsers == {"mo", "bo"}
MCRolesOf == [u \in MCUsers |-> IF u = "mo" THEN {"manager"} ELSE {"backoffice"}]

To(a, n, rs) == [action |-> a, state |-> n, roles |-> rs]

\* A state that is listed twice, an action that is listed twice with different
\* roles, a way back, a target the workflow does not describe (archived) and
\* a final state.  Nothing leads from pending to new or archived.
MCWorkflow == <<
  [state |-> "new", final |-> FALSE, resolutions |-> {},
   next |-> <<To("submit", "pending", {"manager"}), To("submit", "approved", {"backoffice"}),
            To("postpone", "archived", {"manager"})>>],
  [state |-> "pending", final |-> FALSE, resolutions |-> {},
   next |-> <<To("reject", "rejected", {"backoffice"}), To("approve", "approved", {"backoffice"})>>],
  [state |-> "pending", final |-> FALSE, resolutions |-> {},
   next |-> <<To("submit", "rejected", {"manager"})>>],
  [state |-> "rejected", final |-> FALSE, resolutions |-> {"documents"},
   next |-> <<To("submit", "pending", {"manager"})>>],
  [state |-> "approved", final |-> TRUE, resolutions |-> {}, next |-> <<>>]>>

MCInitial == <<[name |-> "new", roles |-> {"default"}],
               [name |-> "pending", roles |-> {"backoffice"}]>>
=============================================================================
