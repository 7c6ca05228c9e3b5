------------------------------ MODULE MCInboundForm -----------------------------
(* InboundForm with nothing stored at first; see InboundForm.cfg.             *)
EXTENDS InboundForm
===============================================================================
