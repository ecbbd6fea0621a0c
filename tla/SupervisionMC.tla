----------------------------- MODULE SupervisionMC -----------------------------
(* One module of each priority that matters, registered in two phases as in    *)
(* main.cpp, and two uploads by the two tasks.                                  *)
EXTENDS Supervision

MCModules == {"watchdog", "equipment", "protection"}
MCPriority == [m \in MCModules |-> CASE m = "protection" -> 1 [] OTHER -> 0]
MCOrder == Sorted(Sorted(<<"watchdog">>) \o <<"equipment", "protection">>)
MCTimeout == [p \in 0..3 |-> CASE p = 0 -> 2 [] p = 1 -> 4 [] OTHER -> 5]
================================================================================
