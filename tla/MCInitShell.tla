---------------------------- MODULE MCInitShell ----------------------------
(***************************************************************************)
(* InitShell with the real buffer sizes, slot count and type prefixes; the *)
(* failure threshold and the sequence modulus are scaled down.             *)
(***************************************************************************)
EXTENDS InitShell, TLC

CONSTANTS ping, shtd, exec, raw, tiny, large

MCReqType == (ping :> "PING") @@ (shtd :> "SHTD") @@ (exec :> "EXEC")
               @@ (raw :> "RAW") @@ (tiny :> "PING") @@ (large :> "VERS")
MCReqLen == (ping :> 32) @@ (shtd :> 32) @@ (exec :> 64)
              @@ (raw :> 32) @@ (tiny :> 3) @@ (large :> 600)
=============================================================================
