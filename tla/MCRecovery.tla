----------------------------- MODULE MCRecovery -----------------------------
(***************************************************************************)
(* Recovery for TLC.  An immediate and a gradual strategy differ in their  *)
(* delays only, so three of the six configurations cover the rest.         *)
(***************************************************************************)
EXTENDS Recovery

ThreeConfigs ==
    {<<"timeout", "gradual">>, <<"timeout", "probing">>, <<"health_check", "immediate">>}
=============================================================================
