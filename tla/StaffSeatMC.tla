----------------------------- MODULE StaffSeatMC -----------------------------
(* Instances of StaffSeat for TLC: an email that is invited twice.          *)
EXTENDS StaffSeat, TLC

AnyHandler == Permutations(Handlers)

\* What the request x still reads of what it has loaded.
ReadBy(x) ==
  LET r == at[x]
  IN  CASE r.pc = "bind"    -> <<r.op, r.who, r.row, r.seen>>
        [] r.pc = "confirm" -> <<r.pc, r.row, r.seen.status>>
        [] OTHER            -> <<r.pc, r.row>>

\* What the steps to come, and the properties, depend on: of a document that
\* was bound twice nothing is asked about who entered.
StillRead ==
  <<seat, account, sessions, code, failed, overtaken, contested, rebound,
    {e \in entered : e.row \notin rebound}, [x \in Handlers |-> ReadBy(x)]>>
=============================================================================
