----------------------------- MODULE MCOfferSearch -----------------------------
(* Two prices; a fast pass sees one card, and one eligible offer is not enough *)
(* when there are more.                                                     *)
EXTENDS OfferSearch

MCErrors == <<"quota_exhausted", "provider_error">>
================================================================================
