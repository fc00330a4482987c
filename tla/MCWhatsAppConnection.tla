------------------------ MODULE MCWhatsAppConnection ------------------------
(* WhatsAppConnection for TLC: constants only, given in the configurations. *)
EXTENDS WhatsAppConnection
=============================================================================
