--------------------------- MODULE MCInboundWatch ---------------------------
(***************************************************************************)
(* One inbox, one delivery, and a server that reports one soft bounce of   *)
(* its recipient and nothing else.                                         *)
(***************************************************************************)
EXTENDS InboundWatch, TLC

Quiet == [submitted |-> "", bulk |-> FALSE, vacation |-> FALSE]

OneSoftBounce ==
  "a" :> <<[report |-> TRUE, reads |-> "soft_bounce", to |-> "r", envelope |-> 1, about |-> 0,
            marks |-> Quiet]>>
OneRecipient == 1 :> "r"
=============================================================================
