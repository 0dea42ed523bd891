-------------------------- MODULE MCServerLifecycle --------------------------
(* A small instance of ServerLifecycle for TLC: a number and a name, two     *)
(* commands, a file that may hold a comment or repeat a key, and an override *)
(* by the environment or an option.                                          *)
EXTENDS ServerLifecycle, TLC

CONSTANTS e1, e2

TwoEditors == {e1, e2}
TwoKeys    == {"KIRO_API_PORT", "KIRO_API_DEFAULT_MODEL"}
OneIntKey  == {"KIRO_API_PORT"}
Values     == {"1", "'1'", "x"}
One        == {"1"}
Stripped   == [v \in Values |-> IF v = "'1'" THEN "1" ELSE v]
Defaults   == [k \in TwoKeys |-> "x"]

\* One command sets the port, in quotes, the other one the model.
PortAndModel ==
  (e1 :> {<<"KIRO_API_PORT", "'1'">>}) @@ (e2 :> {<<"KIRO_API_DEFAULT_MODEL", "1">>})

Nothing   == [k \in TwoKeys |-> Unset]
OnePort   == {Nothing, [Nothing EXCEPT !["KIRO_API_PORT"] = "1"]}
OneModel  == {Nothing, [Nothing EXCEPT !["KIRO_API_DEFAULT_MODEL"] = "x"]}
SomeFiles ==
  { <<<<NoKey, "x">>, <<"KIRO_API_PORT", "1">>>>,
    <<<<"KIRO_API_PORT", "1">>, <<"KIRO_API_PORT", "x">>>> }
==============================================================================
