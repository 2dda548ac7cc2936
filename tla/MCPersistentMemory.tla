------------------------- MODULE MCPersistentMemory -------------------------
(* A small instance: two zones and a RAM that comes up with a wrong header *)
(* or with a right one over counters that mean nothing.                    *)
EXTENDS PersistentMemory

CONSTANTS utc, eet

MCZone == {utc, eet}

MCGarbage ==
  {[header |-> h, uptime |-> MaxTicks, prev_uptime |-> 0,
    total_uptime |-> MaxTicks, warmstart |-> 1, timezone |-> utc] :
      h \in BOOLEAN}

=============================================================================
