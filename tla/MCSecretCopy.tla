---------------------------- MODULE MCSecretCopy ----------------------------
(* Two copies and a refused request, on either platform, and a log that    *)
(* holds two short entries or a long one.                                  *)
EXTENDS SecretCopy, TLC

MCSize == "a" :> 2 @@ "b" :> 3 @@ "refused" :> 2
=============================================================================
