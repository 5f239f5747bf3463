----------------------------- MODULE MCExchange -----------------------------
(* One upstream call between any two protocols. *)
EXTENDS ExchangeProperties

CONSTANTS a, b, c

MCContents ==
    {[form |-> "string", parts |-> <<a>>],
     [form |-> "blocks", parts |-> <<b, Image, c>>],
     [form |-> "none", parts |-> << >>]}
MCLimits == {Unset, 3, 5}
MCDefaults == {Unset, 2, 7}
=============================================================================
