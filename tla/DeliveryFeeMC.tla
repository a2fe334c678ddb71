---------------------------- MODULE DeliveryFeeMC ----------------------------
(* Instances of DeliveryFee for TLC: two overlapping handlers of any kind    *)
(* and a third that taps "Confirm & pay" only.                              *)
EXTENDS DeliveryFee

CONSTANT Tapping  \* a bound: the handlers that run no other operation

NextMC ==
  \E x \in Handlers :
    \/ Step(x) \/ Crash(x)
    \/ \E op \in IF x \in Tapping THEN {"confirm"} ELSE Ops : Begin(x, op)

SpecMC == Init /\ [][NextMC]_vars /\ \A x \in Handlers : WF_vars(Step(x))

\* What the handler x still reads of what it has loaded.
ReadBy(x) ==
  LET r == at[x]
      d == [r.delivery EXCEPT !.method = "none", !.address = FALSE]
  IN  CASE r.pc = "save"                        -> <<r.op, r.pc, d>>
        [] r.pc = "send"                        -> <<r.pc, d.fee>>
        [] r.pc \in {"latch", "money"}          -> <<r.pc, r.total, d.fee>>
        [] r.pc = "load" /\ r.op = "confirm"    -> <<r.op, r.pc, r.total>>
        [] r.pc = "charge" /\ charge = None     -> <<r.pc, r.total>>
        [] r.pc \in {"idle", "pay"}             -> <<r.pc>>
        [] OTHER                                -> <<r.op, r.pc>>

\* What the steps to come, and the properties, depend on: nothing is asked of
\* an order after a quote has been saved over its confirmation.
StillRead ==
  IF crossed THEN <<"crossed">>
  ELSE <<delivery, total, charge, offered # {}, offered \cup unshown, asked, cutOff,
         [x \in Handlers |-> ReadBy(x)]>>
=============================================================================
