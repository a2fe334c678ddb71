-------------------------- MODULE InboundMessagesMC --------------------------
(* Two messages sent in the same second, the handler of one of which may     *)
(* throw.                                                                    *)
EXTENDS InboundMessages, TLC

CONSTANTS m1, m2

MCMessages == {m1, m2}
MCKind     == (m1 :> "text") @@ (m2 :> "choice")
MCStamp    == [m \in MCMessages |-> 1]
=============================================================================
