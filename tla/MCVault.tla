------------------------------ MODULE MCVault ------------------------------
(* Two stored items, one on each page, and room for a third; a computer of *)
(* the repository's kind and one that also updates and deletes.            *)
EXTENDS Vault, TLC

MCOrder == <<"bank", "mail", "new">>
MCInitially == "bank" :> "bank.example" @@ "mail" :> "mail.example" @@ "new" :> "absent"
MCHowMany == "desk" :> 1 @@ "laptop" :> 1
MCCalls == "desk" :> {"list", "fill", "copy"} @@ "laptop" :> {"create", "update", "delete"}
=============================================================================
