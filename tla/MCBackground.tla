---------------------------- MODULE MCBackground ----------------------------
(* One key of the panel, which has a flag; two environments; two feeds. *)
EXTENDS Background

Env(interval, retention) ==
    [k \in {"interval", "retention"} |-> IF k = "retention" THEN retention ELSE interval]

MCEnvs == {Env(Absent, Absent), Env(300, 1)}
MCAvailable == <<"claude", "openai">>
=============================================================================
