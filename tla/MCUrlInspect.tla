----------------------------- MODULE MCUrlInspect -----------------------------
(* Five URLs of two hosts and an internal one; two public addresses and one    *)
(* private.                                                                    *)
EXTENDS UrlInspect

MCUrl == {"home", "next", "shop", "plain-http", "intranet"}
MCCleanUrl == MCUrl \ {"plain-http"}
MCOriginOf ==
  [u \in MCUrl |-> CASE u \in {"home", "next", "plain-http"} -> "site"
                     [] u = "shop" -> "other"
                     [] u = "intranet" -> "internal"]
=============================================================================
